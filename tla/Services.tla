------------------------------- MODULE Services -------------------------------
(***************************************************************************)
(* The parts of the system that serve the cases and share no state with    *)
(* each other: the jobs of Remediation, which this module extends, and     *)
(* DeviceAccess, AssetMirror and EventClusters, each with constants and    *)
(* variables of its own.                                                   *)
(***************************************************************************)
EXTENDS Remediation

CONSTANTS
  Creds, Keys, Ports, Admins, Sessions, Tokens, Deployed, Payloads, Edits, AccessMaxEnv, \* DeviceAccess's
  Devices, Vendors, Asked, Fetches, TTL, MaxNow, AssetsMaxEnv,                          \* AssetMirror's
  Places, Kinds, Times, Window, Limit, Readers, EventsMaxEnv                            \* EventClusters'

VARIABLES
  settings, creds, hostKeys, regs, sessions, running, accessEnv,               \* DeviceAccess's
  now, devices, context, cache, cleared, answer, mirror, fetches, assetsEnv, \* AssetMirror's
  events, reader, eventsEnv                                                  \* EventClusters'

D == INSTANCE DeviceAccess WITH MaxEnv <- AccessMaxEnv, netbox <- settings, env <- accessEnv
A == INSTANCE AssetMirror WITH MaxEnv <- AssetsMaxEnv, netbox <- devices, env <- assetsEnv
E == INSTANCE EventClusters WITH MaxEnv <- EventsMaxEnv, env <- eventsEnv

ASSUME ServicesAssumption ==
  D!DeviceAccessAssumption /\ A!AssetMirrorAssumption /\ E!EventClustersAssumption

-----------------------------------------------------------------------------
(* DeviceAccess's: a registered port has exactly one active host key. *)
OneHostKey == D!OneHostKey

(* DeviceAccess's: a probe or a change only opens its session to a host it knows by
   a key. *)
KnowsItsHost == D!KnowsItsHost

(* AssetMirror's: no answer outlives the cache. *)
AnswersFresh == A!AnswersFresh

(* AssetMirror's: the mirror of a device never goes back in time. *)
MirrorForward == A!MirrorForward

(* EventClusters': whoever reads the event list to its end misses no event but for
   one that a page cuts off from another of its time. *)
NothingEscapes == E!NothingEscapes

(* EventClusters': more evidence never lowers the score of a root cause. *)
EvidenceNeverWeakens == E!EvidenceNeverWeakens
===============================================================================
