------------------------ MODULE MCFragmentedSession ------------------------
(***************************************************************************)
(* Three messages of four kinds: whole, in two or three fragments, and too *)
(* long; with two ids the third message takes that of the first.           *)
(***************************************************************************)
EXTENDS FragmentedSession, TLC

MCLengths == 0 :> {4} @@ 1 :> {3, 4, 7} @@ 2 :> {3, 4, 5} @@ 3 :> {3, 4}
=============================================================================
