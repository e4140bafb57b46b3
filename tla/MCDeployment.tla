----------------------------- MODULE MCDeployment -----------------------------
(* Small instances of Deployment for TLC. *)
EXTENDS Deployment, TLC

CONSTANTS a1, a2, d1, d2, d3, d4, r1, r2

OneApplication  == {a1}
TwoApplications == {a1, a2}
NoApplication   == {}
TwoDeployments   == {d1, d2}
ThreeDeployments == {d1, d2, d3}
FourDeployments  == {d1, d2, d3, d4}
OneRelease  == {r1}
TwoReleases == {r1, r2}
Symmetry == Permutations(Deployments) \cup Permutations(Releases)

===============================================================================
