------------------------------- MODULE Versions -------------------------------
(***************************************************************************)
(* Version numbers and compatibility filters of the gateway: what decides  *)
(* which update a desktop is offered and which skills and plugins it sees. *)
(*                                                                         *)
(* A version text is a record: whether it starts with a v, its dotted      *)
(* segments (a natural number, or NaN for one that strconv.Atoi refuses),  *)
(* and the rest from the first - or + on.  A text of no segments is one    *)
(* that is empty but for these.                                            *)
(***************************************************************************)
EXTENDS Integers, Sequences, FiniteSetsExt

CONSTANTS
  NaN,          \* a segment that is no number
  None          \* a header that is missing, metadata that is null

ASSUME VersionsAssumption == NaN \notin Nat

Text(v, segs, suffix) == [v |-> v, segs |-> segs, suffix |-> suffix]

\* The v and the suffix are dropped, a segment that is no number counts as 0.
versionParts(text) ==
  [i \in DOMAIN text.segs |-> IF text.segs[i] = NaN THEN 0 ELSE text.segs[i]]

\* A segment that is missing counts as 0.
Segment(parts, i) == IF i \in DOMAIN parts THEN parts[i] ELSE 0

\* Where two versions differ.
Differing(as, bs) ==
  {i \in DOMAIN as \cup DOMAIN bs : Segment(as, i) # Segment(bs, i)}

\* Mutant of compareVersions: the last difference decides.
compareVersions_Last(a, b) ==
  LET as == versionParts(a)
      bs == versionParts(b)
      differing == Differing(as, bs) IN
  CASE differing = {} -> 0
    [] differing # {} /\ Segment(as, Max(differing)) < Segment(bs, Max(differing)) -> -1
    [] OTHER -> 1

\* The first segment that differs decides.
compareVersions(a, b) ==
  LET as == versionParts(a)
      bs == versionParts(b)
      differing == Differing(as, bs) IN
  CASE differing = {} -> 0
    [] differing # {} /\ Segment(as, Min(differing)) < Segment(bs, Min(differing)) -> -1
    [] OTHER -> 1

\* Is version a older than b?
Older(a, b) == compareVersions(a, b) < 0

-----------------------------------------------------------------------------
\* Compatibility with a desktop: its platform [os, arch] and its version,
\* each None when the header is not sent.

osPart(platform) == platform.os

compatiblePackage(item, cc) ==
  /\ cc.platform # None /\ item.hostTargets # {} => cc.platform \in item.hostTargets
  /\ cc.version # None /\ item.minAppVersion # None => ~Older(cc.version, item.minAppVersion)

\* Systems are more precise than operating systems and take precedence.
compatibleSkill(meta, cc) ==
  cc.platform # None /\ meta # None =>
    CASE meta.systems # {} -> cc.platform \in meta.systems
      [] meta.systems = {} /\ meta.os # {} -> osPart(cc.platform) \in meta.os
      [] OTHER -> TRUE
=============================================================================
