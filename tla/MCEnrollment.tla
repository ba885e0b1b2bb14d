---------------------------- MODULE MCEnrollment ----------------------------
(* Instances of Enrollment for TLC.                                         *)
EXTENDS Enrollment, TLC

CONSTANTS i1

\* Every machine was given the site file of the same invite.
SharedSiteFile == [h \in Hosts |-> i1]

\* Device ids and (with a shared site file) machines are interchangeable.
DeviceSymmetry == Permutations(DeviceIds)
FullSymmetry == Permutations(DeviceIds) \cup Permutations(Hosts)
=============================================================================
