--------------------------- MODULE MCBspSyncControl ---------------------------
(***************************************************************************)
(* The run about control, with ControlPrograms.  The programs of the run   *)
(* about data, RefPrograms, are shown here to be legal and to agree on     *)
(* what they pop, so that RegistersAlwaysAgree, TagsAlwaysAgree and        *)
(* LibraryImplementsBsplib of BspSyncProofs speak of them: it is a fact    *)
(* about the library as it is, which a register that searches its rows in  *)
(* another order would not keep.                                           *)
(***************************************************************************)
EXTENDS MCBspSync

ASSUME LegalAssumption == \A prog \in RefPrograms : Legal(prog)
ASSUME AgreedAssumption == \A prog \in RefPrograms : PopsAgree(prog)

=============================================================================
