-------------------------- MODULE ReleasesProperties --------------------------
(* What Releases and Versions are checked for. *)
EXTENDS Releases

\* A desktop that is answered 304 already holds what this instance would send
\* it now: after a switch of channel, an installation, a rollout, and a notice
\* that begins or ends.
NotModifiedIsCurrent ==
  [][\A i \in Instances :
       Bootstrap(i) /\ reply'.status = 304 => held.content = Content(i, app)]_vars

\* Reference: the place of a version among all of up to three segments below 100.
Weight(text) ==
  LET part(n) == IF n \in DOMAIN text.segs /\ text.segs[n] # NaN THEN text.segs[n] ELSE 0
  IN  part(1) * 10000 + part(2) * 100 + part(3)

\* What a desktop believes to be an update is newer than what it runs, by the
\* numbers and not only by compareVersions, even if the answer it took it from is
\* an old one.
OfferIsNewer == offered # None => Weight(app.version) < Weight(offered.version)

\* However instances and channels disagree on the latest version, a desktop
\* that installs what it is offered does not go back and forth.
UpdatesEnd == <>[][app'.version = app.version]_vars
=============================================================================
