------------------------------ MODULE Decoders ------------------------------
(***************************************************************************)
(* How the services take the answers of a slave apart: the description of  *)
(* a CoE element and the elements of a SERCOS identity number.  An answer  *)
(* is known by the places of its fields, in bytes.  Reference definitions  *)
(* say where the slave has put them.                                       *)
(***************************************************************************)
EXTENDS Totals

Place(f, start, length) == [field |-> f, start |-> start, length |-> length]

(* Fields that follow each other, as far as they are sent. *)
LayoutOf(order, sizes, sent) ==
    {Place(order[k], Running(sizes)[k - 1], sizes[k])
       : k \in {n \in DOMAIN order : order[n] \in sent}}

-----------------------------------------------------------------------------
(* CoE: the data of an element description.  A description has the fields  *)
(* that value_info announces, the bits of a value and the bytes of a name. *)

Announced == {"unit", "default", "min", "max"}

Description == [info : SUBSET Announced, bits : Nat, name : Nat]

(* Mutant: the bytes of a value are not rounded up. *)
FieldSizeCut(desc, f) == IF f = "unit" THEN 2 ELSE desc.bits \div 8

FieldSize(desc, f) == IF f = "unit" THEN 2 ELSE (desc.bits + 7) \div 8

(* One step of the cascade of get_element_description over len bytes: a    *)
(* field is taken if it is announced and what is left is long enough.      *)
TakeField(desc, len, at, f) ==
    LET size == FieldSize(desc, f)
    IN  IF f \in desc.info /\ at.pos + size <= len
        THEN [pos |-> at.pos + size, fields |-> at.fields \union {Place(f, at.pos, size)}]
        ELSE at

TakenFields(desc, len) ==
    LET Take(at, f) == TakeField(desc, len, at, f)
        start       == [pos |-> 0, fields |-> {}]
    IN  Take(Take(Take(Take(start, "unit"), "default"), "min"), "max")

(* The rest is the name. *)
DecodeDescription(desc, len) ==
    LET taken == TakenFields(desc, len)
    IN  IF taken.pos < len
        THEN taken.fields \union {Place("name", taken.pos, len - taken.pos)}
        ELSE taken.fields

(* The slave's layout: the announced fields in order and the name. *)
CoeOrder == <<"unit", "default", "min", "max", "name">>

ValueBytes(desc) == CHOOSE n \in 0 .. desc.bits : 8 * n \in desc.bits .. desc.bits + 7

Sent(desc) == desc.info \union (IF desc.name > 0 THEN {"name"} ELSE {})

SentBytes(desc, f) ==
    IF f \notin Sent(desc) THEN 0
    ELSE CASE f = "unit" -> 2 [] f = "name" -> desc.name [] OTHER -> ValueBytes(desc)

SentSizes(desc) == [k \in 1 .. 5 |-> SentBytes(desc, CoeOrder[k])]

DescriptionLayout(desc) == LayoutOf(CoeOrder, SentSizes(desc), Sent(desc))

DescriptionLength(desc) == Total(SentSizes(desc))

-----------------------------------------------------------------------------
(* SERCOS: the answer to sercos_read_idn.  An identity number has the      *)
(* bytes of its name and unit, the data length of its attribute (fix or    *)
(* not, and the bytes of a value), and the count of values in a list.  A   *)
(* list has its length and its greatest length in bytes in front of it.    *)

DataLength == [fix : BOOLEAN, size : Nat \ {0}]

IdentityNumber == [name : Nat, unit : Nat, length : DataLength, count : Nat]

Elements == {"name", "attr", "unit", "min", "max", "data"}

(* Those with a value, or a list. *)
Valued == {"min", "max", "data"}

(* Its length in bytes is not the count of its values. *)
LongList(idn) == ~idn.length.fix /\ idn.length.size > 1 /\ idn.count > 0

(* Mutant: the attribute is asked for only if the client wants it. *)
AskedOnly(elements) == elements

(* The attribute is always asked for: it says how long a value is. *)
Asked(elements) == elements \union {"attr"}

(* What the slave puts into the answer, in its order. *)
WireOrder == <<"name", "attr", "unit", "min", "max", "data">>

(* The length in the header of a field, and the bytes of a field. *)
Header(idn, f) ==
    CASE f = "name" -> idn.name [] f = "unit" -> idn.unit
      [] OTHER -> idn.length.size * idn.count

WireBytes(idn, f) ==
    CASE f = "attr"                           -> 4
      [] f \in Valued /\ idn.length.fix        -> idn.length.size
      [] OTHER                                -> 4 + Header(idn, f)

WireSizes(idn, elements) ==
    [k \in 1 .. 6 |-> IF WireOrder[k] \in elements THEN WireBytes(idn, WireOrder[k]) ELSE 0]

IdnLayout(idn, elements) == LayoutOf(WireOrder, WireSizes(idn, elements), elements)

(* What the decoder reads as a length where it stands: that of the field   *)
(* that starts there; inside a field it may be anything, here 0.           *)
HeaderAt(idn, elements, pos) ==
    LET here == {p \in IdnLayout(idn, elements) : p.start = pos}
    IN  IF here = {} THEN 0 ELSE Header(idn, (CHOOSE p \in here : TRUE).field)

(* decode_soe_answer: the bytes it copies and the words it makes room for. *)
(* What it reads in front of a list it takes for the count of its values.  *)
AnswerBytes(length, n) == IF length.fix THEN length.size ELSE 4 + length.size * n

AnswerWords(length, n) ==
    LET words == (length.size + 1) \div 2
    IN  IF length.fix THEN words ELSE 4 + words * n

(* The member that receives the field whose bit is tested: the code tests  *)
(* the one of the maximum first and stores it as the minimum.              *)
Member(f) == CASE f = "max" -> "min" [] f = "min" -> "max" [] OTHER -> f

(* The bytes by which an element moves the decoder, n being the length it  *)
(* has read.                                                               *)
TakenBytes(attr, f, n) ==
    CASE f \in {"name", "unit"} -> 4 + n
      [] f = "attr"             -> 4
      [] OTHER                  -> AnswerBytes(attr, n)

(* The vector resized for an element is too small for the copied bytes.    *)
TooSmall(attr, f, n) ==
    f \in Valued /\ AnswerBytes(attr, n) > 2 * AnswerWords(attr, n)

(* One step of the cascade of sercos_read_idn over the answered elements.  *)
TakeAnswered(idn, at, f, n) ==
    [pos    |-> at.pos + TakenBytes(at.attr, f, n),
     attr   |-> IF f = "attr" THEN idn.length ELSE at.attr,
     fields |-> at.fields \union {Place(Member(f), at.pos, TakenBytes(at.attr, f, n))},
     small  |-> at.small \union (IF TooSmall(at.attr, f, n) THEN {Member(f)} ELSE {})]

TakeElement(idn, answered, at, f) ==
    IF f \in answered
    THEN TakeAnswered(idn, at, f, HeaderAt(idn, answered, at.pos)) ELSE at

(* It begins with the attribute the caller's structure holds. *)
DecodeIdn(idn, answered, attr) ==
    LET Take(at, f) == TakeElement(idn, answered, at, f)
        start       == [pos |-> 0, attr |-> attr, fields |-> {}, small |-> {}]
    IN  Take(Take(Take(Take(Take(Take(start,
          "name"), "attr"), "unit"), "max"), "min"), "data")

=============================================================================
