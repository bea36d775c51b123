----------------------------- MODULE MCTopology -----------------------------
(* A SAS controller with two expanders in a row and an enclosure, a SATA    *)
(* controller with a port multiplier and a disk, and a VMD domain.          *)
EXTENDS Topology
CONSTANTS ahci, isci, vmd, d1, d2, d3, d4, d5, d6, d7, s1, s2, s3, e1, e2, m1

MCAt ==
  e1 :> isci @@ s1 :> e1 @@ d1 :> e1 @@ s2 :> e1 @@ e2 :> e1 @@ d2 :> e2
    @@ s3 :> isci @@ d7 :> ahci @@ m1 :> ahci @@ d3 :> m1 @@ d4 :> m1 @@ d5 :> vmd @@ d6 :> vmd
MCOrder == <<ahci, m1, d3, d4, d7, isci, e1, s1, d1, e2, d2, s2, s3, vmd, d5, d6>>
=============================================================================
