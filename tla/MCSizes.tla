------------------------------ MODULE MCSizes ------------------------------
(* Lengths around the smallest keys and around the limit. *)
EXTENDS Sizes

MCBodySizes == 0..700 \cup 10100..10260
=============================================================================
