-------------------------------- MODULE Mkfs --------------------------------
(***************************************************************************)
(* The makers of file systems, one beside the other.                       *)
(***************************************************************************)
EXTENDS Ext4, Fat32

(* A maker of file systems that ends well leaves a volume that is whole,   *)
(* on a device whose end it has found (ext4_fmt.c:294, fat32_fmt.c:146,    *)
(* main.c:50).                                                             *)
LayoutsFit ==
  /\ Ext4Fits /\ Fat32Fits
  /\ mkfs4 \in {"groups", "refused"} /\ disk = <<>> => ProbeIsExact(dev)
=============================================================================
