--------------------------- MODULE ProtocolProofs ---------------------------
(***************************************************************************)
(* Lemmas on the validation of a pin configuration, used on the firmware's *)
(* side and on the host's.                                                 *)
(***************************************************************************)
EXTENDS Protocol, TLAPS, WellFoundedInduction

\* A non-empty set of naturals has a least element.
LEMMA LeastExists ==
  ASSUME NEW S \in SUBSET Nat, S # {}
  PROVE  \E n \in S : \A m \in S : n <= m
<1> DEFINE R == OpToRel(<, Nat)
<1>1. IsWellFoundedOn(R, Nat)
  BY NatLessThanWellFounded
<1>2. \A n, m \in Nat : <<m, n>> \notin R => n <= m
  BY DEF OpToRel
<1> HIDE DEF R
<1>3. \E n \in S : \A m \in S : <<m, n>> \notin R
  BY <1>1, WFMin
<1> QED
  BY <1>2, <1>3, Zenon

\* It is what the choice of a least element yields.
LEMMA LeastOfSet ==
  ASSUME NEW S \in SUBSET Nat, S # {}
  PROVE  (CHOOSE n \in S : \A m \in S : n <= m) \in S
BY LeastExists

\* The reply to a Set is well-formed, and only a valid configuration passes.
LEMMA DecodeSet ==
  ASSUME ProtocolAssumption, NEW p, p.len \in Nat, p.request_id \in 0 .. 255,
         p.pins \in [GPIOS -> [mode : 0 .. 255, param : 0 .. 255]]
  PROVE  /\ PinConfigDecodeSet(p) \in
              [result : Results, result_gpio : GPIOS \cup {RESULT_GPIO_NONE},
               request_id : 0 .. 255]
         /\ PinConfigDecodeSet(p).result = "OK" => p.pins \in ValidConfigs
<1> DEFINE faulty == {n \in GPIOS : EntryResult(n, p.pins[n]) # "OK"}
           first  == CHOOSE n \in faulty : \A m \in faulty : n <= m
<1>1. /\ p.pins \in [GPIOS -> [mode : 0 .. 255, param : 0 .. 255]]
      /\ p.request_id \in 0 .. 255 /\ p.len \in Nat
  OBVIOUS
<1>2. \A n \in GPIOS : EntryResult(n, p.pins[n]) \in Results
  BY DEF EntryResult, Results
<1>3. faulty \subseteq Nat
  BY DEF GPIOS
<1>4. faulty # {} => first \in faulty
  <2> HIDE DEF faulty
  <2> QED
    BY <1>3, LeastOfSet
<1>5. faulty # {} => /\ first \in GPIOS
                     /\ EntryResult(first, p.pins[first]) # "OK"
                     /\ EntryResult(first, p.pins[first]) \in Results
  BY <1>2, <1>4
<1>7. PinConfigDecodeSet(p) \in
        [result : Results, result_gpio : GPIOS \cup {RESULT_GPIO_NONE},
         request_id : 0 .. 255]
  BY <1>1, <1>5 DEF PinConfigDecodeSet, Results
<1>8. PinConfigDecodeSet(p).result = "OK" => faulty = {}
  BY <1>5 DEF PinConfigDecodeSet
<1>9. faulty = {} => p.pins \in ValidConfigs
  <2>1. SUFFICES ASSUME \A n \in GPIOS : EntryResult(n, p.pins[n]) = "OK"
                 PROVE  p.pins \in ValidConfigs
    OBVIOUS
  <2>2. ASSUME NEW n \in GPIOS
        PROVE  /\ p.pins[n] \in [mode : Modes, param : 0 .. 255]
               /\ n \notin Available => p.pins[n].mode = MODE_UNUSED
               /\ p.pins[n].mode = MODE_UNUSED => p.pins[n].param = 0
               /\ p.pins[n].mode = MODE_OUTPUT => p.pins[n].param \in {0, 1}
    <3>1. p.pins[n] \in [mode : 0 .. 255, param : 0 .. 255]
      BY <1>1
    <3>2. EntryResult(n, p.pins[n]) = "OK"
      BY <2>1
    <3> QED
      BY <3>1, <3>2 DEF EntryResult, Modes, MODE_OUTPUT, MODE_UNUSED
  <2>3. p.pins \in PinConfigs
    BY <1>1, <2>2 DEF PinConfigs
  <2> QED
    BY <2>2, <2>3 DEF ValidConfigs
<1> QED
  BY <1>7, <1>8, <1>9
=============================================================================
