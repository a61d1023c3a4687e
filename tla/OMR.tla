---------------------------------- MODULE OMR ----------------------------------
(***************************************************************************)
(* The operation mode register of a chip as the receivers rebuild it from  *)
(* an info header (OMR.h): 48 bits in a 64-bit long, set by fields and by  *)
(* two parts that come with their bits reversed.  A word is its set of     *)
(* bits that are one.                                                      *)
(***************************************************************************)
EXTENDS Integers

CONSTANTS
    Words,         \* the register words that may come
    MaxSettings    \* bound: calls

(* Register words are 32 bits wide. *)
ASSUME RegisterAssumption == \A a \in Words : a \subseteq 0 .. 31

VARIABLES
    content,
    given,         \* what each field and part was last set to; for the property
    lowAfterHigh,  \* setLowR has come after setHighR
    settings       \* calls done

omrVars == <<content, given, lowAfterHigh, settings>>

ShiftedBy(word, n) == {b + n : b \in word}
(* An int that becomes a long takes its sign along. *)
ToLong(word) == IF 31 \in word THEN word \cup (32 .. 63) ELSE word
reverse(word) == {31 - b : b \in word}

bits(shift, mask) == ShiftedBy(content, -shift) \cap mask
WithBitsVariant(val, shift, mask) == content \cup ShiftedBy(ToLong(val \cap mask), shift)
WithBits(val, shift, mask) ==
    (content \ ShiftedBy(ToLong(mask), shift)) \cup ShiftedBy(ToLong(val \cap mask), shift)

(* The fields that have a setter. *)
Shift == [Mode |-> 0, Polarity |-> 4, CountL |-> 9, InfoHeader |-> 22]
Mask == [Mode |-> {0, 1, 2}, Polarity |-> {0}, CountL |-> {0, 1}, InfoHeader |-> {0}]
getField(f) == bits(Shift[f], Mask[f])
getHighR == reverse(ShiftedBy(bits(32, 0 .. 15), 16))
getLowR == reverse(content \cap (0 .. 31))

OmrInit ==
    /\ content = {} /\ lowAfterHigh = FALSE /\ settings = 0
    /\ given = [part \in DOMAIN Shift \cup {"HighR"} |-> {}]

setField(f, val) ==
    /\ content' = WithBits(val, Shift[f], Mask[f])
    /\ given' = [given EXCEPT ![f] = val \cap Mask[f]]
    /\ UNCHANGED lowAfterHigh
setHighR(a) ==
    /\ content' = WithBits(reverse(ShiftedBy(a \cap (0 .. 15), 16)), 32, 0 .. 15)
    /\ given' = [given EXCEPT !["HighR"] = a \cap (0 .. 15)]
    /\ lowAfterHigh' = FALSE
(* The mask is the int -1, which is all ones as a long. *)
setLowR(a) ==
    /\ content' = WithBits(reverse(a), 0, 0 .. 31)
    /\ given' = [part \in DOMAIN given |->
           IF part = "HighR" THEN given[part]
           ELSE ShiftedBy(reverse(a), -Shift[part]) \cap Mask[part]]
    /\ lowAfterHigh' = TRUE

OmrNext ==
    /\ settings < MaxSettings /\ settings' = settings + 1
    /\ \/ \E f \in DOMAIN Shift : \E val \in SUBSET Mask[f] : setField(f, val)
       \/ \E a \in Words : setHighR(a) \/ setLowR(a)

(* Each field reads as it was last set, by itself or with its half, through *)
(* all other settings.  The high part does only until the low one is set:   *)
(* that overwrites it with copies of the low part's sign, and the receivers *)
(* set the high part first.                                                 *)
FieldsKept ==
    /\ \A f \in DOMAIN Shift : getField(f) = given[f]
    /\ ~lowAfterHigh => getHighR = given["HighR"]
=============================================================================
