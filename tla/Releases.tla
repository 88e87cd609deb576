------------------------------- MODULE Releases -------------------------------
(***************************************************************************)
(* What a desktop learns from the two public endpoints it polls: the       *)
(* bootstrap, with an ETag, and app/latest.  Behind a balancer it may talk *)
(* to any instance, and while a rollout is under way the instances run     *)
(* with different configurations.                                          *)
(*                                                                         *)
(* The ETag is a hash of the content and is modelled as the content.       *)
(* ----------------------------------------------------------------------- *)
(* Bounds: MaxTime, MaxRedeploys, and the finite Configs and Versions.     *)
(***************************************************************************)
EXTENDS Versions

CONSTANTS
  Instances,
  Configs,      \* deployments: [releases, notices, gateway, minApp, limit]
  FirstVersions,     \* versions a desktop may start from
  Platforms,    \* platforms a desktop may be of: [os, arch]
  Channels,     \* channels a desktop may ask for, None for the default
  MB,           \* bytes in a megabyte
  MaxTime,      \* bound on the clock
  MaxRedeploys  \* bound on the restarts with another configuration

ChannelStable == "stable"
ChannelBeta   == "beta"

Darwin(arch) == [os |-> "darwin", arch |-> arch]
validPlatforms == {Darwin("arm64"), Darwin("x64"), [os |-> "win32", arch |-> "x64"]}

\* Asked for when the query names no channel.
Channel(asked) == IF asked = None THEN ChannelStable ELSE asked
IsValidChannel(channel) == channel \in {ChannelStable, ChannelBeta}

ASSUME ReleasesAssumption ==
  /\ MB \in Nat \ {0} /\ {MaxTime, MaxRedeploys} \subseteq Nat
  /\ \A c \in Configs : c.limit \in Int
  /\ None \notin validPlatforms

VARIABLES
  clock,      \* Unix time
  config,     \* the configuration each instance was started with
  redeploys,
  app,        \* the desktop: [platform, version, channel]
  held,       \* the answer it keeps: [etag, content], or None
  offered,    \* the update it knows of, or None
  reply       \* its last answer: [path, status]

vars == <<clock, config, redeploys, app, held, offered, reply>>

Reply(path, status) == [path |-> path, status |-> status]

Init ==
  /\ clock = 0
  /\ \E c \in Configs : config = [i \in Instances |-> c]
  /\ redeploys = 0
  /\ app \in [platform : Platforms \cup {None}, version : FirstVersions, channel : Channels]
  /\ held = None
  /\ offered = None
  /\ reply = Reply("none", 0)

-----------------------------------------------------------------------------
\* Distribution.

\* The releases of a channel and platform; where compareVersions sees no
\* difference the first in the list is taken.
Candidates(c, channel, platform) ==
  {n \in DOMAIN c.releases :
     c.releases[n].channel = channel /\ c.releases[n].platform = platform}

Latest(c, channel, platform) ==
  LET candidates == Candidates(c, channel, platform) IN
  Min({n \in candidates :
         \A m \in candidates : ~Older(c.releases[n].version, c.releases[m].version)})

Mandatory(release, current) ==
  \/ release.mandatory
  \/ release.minVersion # None /\ Older(current, release.minVersion)

\* Mutant of Resolve: another version than the latest is no longer good.
Resolve_Differs(c, channel, platform, current) ==
  IF Candidates(c, channel, platform) = {} THEN None
  ELSE LET release == c.releases[Latest(c, channel, platform)] IN
       [latest |-> release.version,
        update |-> IF compareVersions(current, release.version) = 0 THEN None
                   ELSE [version |-> release.version,
                         mandatory |-> Mandatory(release, current)]]

\* None when there is no release, else the latest version and, if the current
\* one is older, the update.
Resolve(c, channel, platform, current) ==
  IF Candidates(c, channel, platform) = {} THEN None
  ELSE LET release == c.releases[Latest(c, channel, platform)] IN
       [latest |-> release.version,
        update |-> IF ~Older(current, release.version) THEN None
                   ELSE [version |-> release.version,
                         mandatory |-> Mandatory(release, current)]]

-----------------------------------------------------------------------------
\* Bootstrap.

\* Configured limits below a megabyte are announced as 25.
MaxUploadMB(c) == IF c.limit \div MB <= 0 THEN 25 ELSE c.limit \div MB

Visible(notice, now) ==
  (notice.startsAt > 0 => now >= notice.startsAt) /\ (notice.endsAt > 0 => now < notice.endsAt)

visibleNotices(c, now) == {notice \in c.notices : Visible(notice, now)}

\* Without a release the handshake goes on without an update.
resolveAppUpdate(c, channel, version, platform) ==
  LET result == Resolve(c, channel, platform, version) IN
  IF result = None THEN None ELSE result.update

Build(c, channel, version, platform, now) ==
  [gateway |-> c.gateway, minApp |-> c.minApp, upload |-> MaxUploadMB(c),
   notices |-> visibleNotices(c, now),
   update |-> resolveAppUpdate(c, channel, version, platform)]

\* Mutant of ETag: without the version that asks.
ETag_NoVersion(channel, version, platform, content) ==
  <<channel, platform, [content EXCEPT !.update = None]>>

\* Mutant of ETag: without the notices.
ETag_NoNotices(channel, version, platform, content) ==
  <<channel, version, platform, [content EXCEPT !.notices = {}]>>

ETag(channel, version, platform, content) == <<channel, version, platform, content>>

-----------------------------------------------------------------------------
\* The handlers, as polled by the desktop.

Content(i, a) == Build(config[i], Channel(a.channel), a.version, a.platform, clock)

\* GET /api/v1/bootstrap, with the ETag held from the last answer.
Bootstrap(i) ==
  LET content == Content(i, app)
      etag == ETag(Channel(app.channel), app.version, app.platform, content) IN
  /\ IF app.platform = None \/ ~IsValidChannel(Channel(app.channel))
       THEN reply' = Reply("bootstrap", 400) /\ UNCHANGED <<held, offered>>
       ELSE IF held # None /\ held.etag = etag
       THEN reply' = Reply("bootstrap", 304) /\ UNCHANGED held
            /\ offered' = held.content.update
       ELSE /\ reply' = Reply("bootstrap", 200)
            /\ held' = [etag |-> etag, content |-> content]
            /\ offered' = content.update
  /\ UNCHANGED <<clock, config, redeploys, app>>

\* GET /api/v1/app/latest; unlike the bootstrap it knows the platforms.
AppLatest(i) ==
  LET channel == Channel(app.channel)
      result == Resolve(config[i], channel, app.platform, app.version)
      status == IF app.platform \notin validPlatforms \/ ~IsValidChannel(channel) THEN 400
                ELSE IF result = None THEN 404 ELSE 200 IN
  /\ reply' = Reply("latest", status)
  /\ offered' = IF status = 200 THEN result.update ELSE offered
  /\ UNCHANGED <<clock, config, redeploys, app, held>>

-----------------------------------------------------------------------------
\* The desktop and the operators.

Install ==
  /\ offered # None
  /\ app' = [app EXCEPT !.version = offered.version]
  /\ offered' = None
  /\ UNCHANGED <<clock, config, redeploys, held, reply>>

\* Another channel is asked for; the answer held from the old one stays.
SwitchChannel ==
  /\ \E channel \in Channels \ {app.channel} : app' = [app EXCEPT !.channel = channel]
  /\ offered' = None
  /\ UNCHANGED <<clock, config, redeploys, held, reply>>

Redeploy(i) ==
  /\ redeploys < MaxRedeploys
  /\ \E c \in Configs \ {config[i]} : config' = [config EXCEPT ![i] = c]
  /\ redeploys' = redeploys + 1
  /\ UNCHANGED <<clock, app, held, offered, reply>>

Tick ==
  /\ clock < MaxTime
  /\ clock' = clock + 1
  /\ UNCHANGED <<config, redeploys, app, held, offered, reply>>

Poll == \E i \in Instances : Bootstrap(i) \/ AppLatest(i)

Next ==
  \/ Poll \/ Install \/ SwitchChannel
  \/ \E i \in Instances : Redeploy(i)
  \/ Tick

Spec == Init /\ [][Next]_vars
=============================================================================
