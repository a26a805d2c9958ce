---------------------------- MODULE MCHarnesses ----------------------------
(***************************************************************************)
(* Three workers, two of them in one vector.                               *)
(***************************************************************************)
EXTENDS Harnesses

MCVectorOf == <<"seq_ram_readers", "seq_ram_readers", "rnd_nvm_readers">>
=============================================================================
