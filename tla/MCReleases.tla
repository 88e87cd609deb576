------------------------------ MODULE MCReleases ------------------------------
(* Deployments and versions for the run of Releases. *)
EXTENDS ReleasesProperties

V(segs) == Text(FALSE, segs, "")

V1  == V(<<1, 2>>)
V1z == V(<<1, 2, 0>>)
V2  == V(<<1, 10>>)
V2b == Text(FALSE, <<1, 10>>, "beta")
V3  == Text(TRUE, <<2>>, "")
VX  == V(<<1, 5, NaN>>)

MCFirst == {V(<<>>), V2b, V3, VX}

Arm == Darwin("arm64")
Tux == [os |-> "linux", arch |-> "x64"]
MCPlatforms == {Arm, Tux}

Release(channel, version, mandatory, min) ==
  [channel |-> channel, platform |-> Arm, version |-> version,
   mandatory |-> mandatory, minVersion |-> min]

Notice(from, to) == [startsAt |-> from, endsAt |-> to]

Deployment(releases, notices, limit) ==
  [releases |-> releases, notices |-> notices, gateway |-> "g", minApp |-> V1,
   limit |-> limit]

MCConfigs ==
  {Deployment(<<>>, {Notice(1, 2)}, 0),
   Deployment(<<Release("stable", V1z, TRUE, None)>>, {Notice(0, 1), Notice(2, 0)}, 3),
   Deployment(<<Release("stable", V2, FALSE, V1), Release("stable", V1, TRUE, None),
                Release("beta", V2b, FALSE, None), Release("beta", V3, FALSE, V2)>>,
              {Notice(1, 2)}, 5)}

=============================================================================
