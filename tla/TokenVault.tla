----------------------------- MODULE TokenVault -----------------------------
(***************************************************************************)
(* What the token map of a conversation promises: a token means the value  *)
(* it was issued for until the whole map is forgotten.  Tokens issued by   *)
(* calls that run side by side are doubtful: they may be issued again.     *)
(***************************************************************************)

CONSTANTS
  Tokens,    (* the tokens                                                 *)
  Values     (* the strings a token may stand for                          *)

VARIABLES
  meaning,   (* the value each token given out stands for                  *)
  doubtful   (* the tokens no promise is made about                        *)

Init == meaning = << >> /\ doubtful = {}

Issue(t, v) ==
  /\ t \in DOMAIN meaning => t \in doubtful
  /\ meaning' = [u \in DOMAIN meaning \cup {t} |->
                   IF u = t THEN v ELSE meaning[u]]
  /\ doubtful' \in {doubtful, doubtful \cup {t}}

Forget == meaning' = << >> /\ doubtful' = {}

Next == (\E t \in Tokens, v \in Values : Issue(t, v)) \/ Forget

Spec == Init /\ [][Next]_<<meaning, doubtful>>
=============================================================================
