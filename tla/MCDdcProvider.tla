---------------------------- MODULE MCDdcProvider ----------------------------
(* Instances of DdcProvider for TLC. *)
EXTENDS DdcProvider

CONSTANTS here, there, lo, hi

Goal(kind, value) == [kind |-> kind, value |-> value]

EveryKind == {Goal("input", there), Goal("brightness", hi), Goal("power", "standby")}

(* Words as sequences of characters. *)
Spelled(words) == [n \in DOMAIN words |-> [i \in 1..Len(words[n]) |-> SubSeq(words[n], i, i)]]

(* A helper that answers as a whole; one that fails requests; and a raw I2C bus. *)
Buses ==
  LET Bus(whole, away, flaky, says, lists) ==
        [whole |-> whole, away |-> away, flaky |-> flaky,
         model |-> <<"X">>, says |-> Spelled(says), lists |-> lists]
  IN  {Bus(TRUE, FALSE, FALSE,
           <<"(", "model", "(", "X", ")", "vcp", "(", "10", " ", "60", "(", "11", " ", "0F", ")", " ",
             "D6", "(", "01", " ", "04", " ", "05", ")", ")", "mccs_ver", "(", "2.2", ")", ")">>,
           [code \in {16, 96, 214} |->
              CASE code = 16 -> <<>> [] code = 96 -> <<17, 15>> [] OTHER -> <<1, 4, 5>>]),
       Bus(TRUE, TRUE, TRUE,
           <<"model", "(", "X", ")", "  ", "vcp", " ", "(", "D6", "(", "04", " ", "01", ")", "12", " ",
             "60", "(", "3", ")", " ", "10", ")">>,
           [code \in {16, 18, 96, 214} |->
              CASE code = 214 -> <<4, 1>> [] code = 96 -> <<3>> [] OTHER -> <<>>]),
       Bus(FALSE, TRUE, FALSE,
           <<"(", "vcp", "(", " ", "60", "(", ")", " ", "d6", "(", "01", "  ", "02", " ", ")", "10", ")",
             "model", "(", "X", ")">>,
           [code \in {16, 96, 214} |-> IF code = 214 THEN <<1, 2>> ELSE <<>>])}
=============================================================================
