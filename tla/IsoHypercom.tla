----------------------------- MODULE IsoHypercom -----------------------------
(* The table iso_hypercom of iso_buffer.c, by runs of equal definitions.      *)
EXTENDS Integers

Fix(n, type) == [len_var |-> 0, len_type |-> "NONE", max_len |-> n, field_type |-> type]
Var(l, n, type) == [len_var |-> l, len_type |-> "BCD", max_len |-> n, field_type |-> type]

\* iso_len and iso_tpdu
hypercom_len  == 0
hypercom_tpdu == 0

\* By index; index 0 is the message type, 1 the bitmap, n + 1 is field n.
iso_hypercom == [n \in 0..129 |->
    CASE n \in {0, 14, 15, 16, 17, 18, 19, 72, 73}       -> Fix(4, "BCD")
      [] n \in {1, 2, 10, 11, 42, 53, 65, 129}           -> Fix(8, "BYTE")
      [] n = 3                                           -> Var(2, 20, "BCD")
      [] n \in {4, 12, 13, 74}                           -> Fix(6, "BCD")
      [] n \in {5, 6, 7, 83, 84, 85, 86}                 -> Fix(12, "BCD")
      [] n \in {8} \cup 75..82                           -> Fix(10, "BCD")
      [] n = 9                                           -> Fix(8, "BCD")
      [] n \in 20..25 \cup {69, 70, 71}                  -> Fix(3, "BCD")
      [] n \in {26, 27, 68}                              -> Fix(2, "BCD")
      [] n \in {28, 67}                                  -> Fix(1, "BCD")
      [] n \in 29..32                                    -> Fix(9, "BCD")
      [] n \in {33, 34, 100, 101}                        -> Var(2, 11, "BCD")
      [] n \in {35, 103}                                 -> Var(2, 28, "BYTE")
      [] n = 36                                          -> Var(2, 40, "BCD")
      [] n = 37                                          -> Var(3, 104, "BYTE")
      [] n = 38                                          -> Fix(12, "BYTE")
      [] n \in {39, 94}                                  -> Fix(6, "BYTE")
      [] n \in {40, 93}                                  -> Fix(2, "BYTE")
      [] n \in {41, 50, 51, 52}                          -> Fix(3, "BYTE")
      [] n = 43                                          -> Fix(15, "BYTE")
      [] n = 44                                          -> Fix(40, "BYTE")
      [] n = 45                                          -> Var(2, 99, "BYTE")
      [] n = 46                                          -> Var(2, 76, "BYTE")
      [] n = 54 \/ n \in 87..90                          -> Fix(16, "BCD")
      [] n = 55                                          -> Var(3, 120, "BYTE")
      [] n \in {66, 92}                                  -> Fix(1, "BYTE")
      [] n = 91                                          -> Fix(42, "BCD")
      [] n = 95                                          -> Fix(7, "BYTE")
      [] n = 96                                          -> Fix(42, "BYTE")
      [] n = 97                                          -> Fix(16, "BYTE")
      [] n = 98                                          -> Fix(17, "BCD")
      [] n = 99                                          -> Fix(25, "BYTE")
      [] n = 102                                         -> Var(2, 17, "BYTE")
      [] n = 104                                         -> Var(2, 99, "BCD")
      [] n = 105                                         -> Var(3, 100, "BYTE")
      [] OTHER (* 47-49, 56-64, 106-128 *)               -> Var(3, 999, "BYTE")]
=============================================================================
