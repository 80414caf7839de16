-------------------------- MODULE WireFormatProofs --------------------------
(***************************************************************************)
(* Lemmas about the wire format: the numbers and the sizes of varints, the *)
(* encoder (ProtoMarshal), which stays inside its buffer, fills it and     *)
(* writes what the message says, and the grammar (WireGrammar), which is   *)
(* not ambiguous and can be read from the left, a byte or an item at a     *)
(* time.                                                                   *)
(***************************************************************************)
EXTENDS WireGrammar, TLAPS, WellFoundedInduction, SequenceTheorems

----------------------------------------------------------------------------
(* Induction over the numbers, from the least number of a set.             *)
LEMMA LeastNumber ==
    ASSUME NEW T, T \subseteq Nat, T # {}
    PROVE  \E n \in T : \A m \in T : n =< m
<1> DEFINE R == {ss \in Nat \X Nat : ss[1] < ss[2]}
<1>1. R = OpToRel(<, Nat)
  BY Zenon DEF OpToRel
<1>2. IsWellFoundedOn(R, Nat)
  BY <1>1, NatLessThanWellFounded, Zenon
<1>3. PICK n \in T : \A m \in T : ~ (<<m, n>> \in R)
  <2> HIDE DEF R
  <2> QED BY <1>2, WFMin, Zenon
<1>4. \A m \in T : ~ (m < n)
  BY <1>3
<1> QED BY <1>4

LEMMA Induct ==
    ASSUME NEW T, 0 \in T, \A n \in Nat : n \in T => n + 1 \in T
    PROVE  Nat \subseteq T
<1> SUFFICES ASSUME Nat \ T # {} PROVE FALSE
  OBVIOUS
<1>1. PICK n \in Nat \ T : \A m \in Nat \ T : n =< m
  BY LeastNumber
<1>2. n # 0 /\ n - 1 \in Nat /\ n - 1 \notin Nat \ T
  BY <1>1
<1> QED BY <1>1, <1>2

----------------------------------------------------------------------------
(* The powers are a function: the values up to n exist and are unique.     *)
UpTo(n) ==
    {g \in [0 .. n -> Nat] : \A k \in 0 .. n : g[k] = IF k = 0 THEN 1 ELSE Cont * g[k - 1]}

LEMMA UpToExists == \A n \in Nat : UpTo(n) # {}
<1> DEFINE T == {n \in Nat : UpTo(n) # {}}
<1>1. 0 \in T
  <2>1. [k \in 0 .. 0 |-> 1] \in UpTo(0)
    BY DEF UpTo
  <2> QED BY <2>1
<1>2. ASSUME NEW n \in Nat, n \in T PROVE n + 1 \in T
  <2>1. PICK g \in UpTo(n) : TRUE
    BY <1>2
  <2> DEFINE h == [k \in 0 .. n + 1 |-> IF k = n + 1 THEN Cont * g[n] ELSE g[k]]
  <2>2. g \in [0 .. n -> Nat] /\ \A k \in 0 .. n : g[k] = IF k = 0 THEN 1 ELSE Cont * g[k - 1]
    BY <2>1 DEF UpTo
  <2>3. \A k \in 0 .. n : h[k] = g[k]
    OBVIOUS
  <2>4. h[n + 1] = Cont * g[n] /\ g[n] \in Nat /\ Cont * g[n] \in Nat
    BY <2>2, ContAssumption
  <2>5. \A k \in 0 .. n + 1 : h[k] \in Nat /\ (h[k] = IF k = 0 THEN 1 ELSE Cont * h[k - 1])
    <3> SUFFICES ASSUME NEW k \in 0 .. n + 1
                 PROVE  h[k] \in Nat /\ (h[k] = IF k = 0 THEN 1 ELSE Cont * h[k - 1])
      OBVIOUS
    <3> HIDE DEF h
    <3>1. CASE k = n + 1
      <4>1. h[k - 1] = g[n]
        BY <2>3, <3>1
      <4> QED BY <2>4, <3>1, <4>1
    <3>2. CASE k \in 0 .. n
      <4>1. h[k] = g[k] /\ (k # 0 => h[k - 1] = g[k - 1])
        BY <2>3, <3>2
      <4> QED BY <2>2, <3>2, <4>1
    <3> QED BY <3>1, <3>2
  <2>6. h \in UpTo(n + 1)
    BY <2>5 DEF UpTo
  <2> QED BY <2>6
<1> QED BY <1>1, <1>2, Induct

LEMMA UpToAgree ==
    ASSUME NEW n \in Nat, NEW m \in Nat, NEW g \in UpTo(n), NEW h \in UpTo(m)
    PROVE  \A k \in Nat : k =< n /\ k =< m => g[k] = h[k]
<1> DEFINE T == {k \in Nat : k =< n /\ k =< m => g[k] = h[k]}
<1>1. 0 \in T
  BY DEF UpTo
<1>2. ASSUME NEW k \in Nat, k \in T PROVE k + 1 \in T
  <2> SUFFICES ASSUME k + 1 =< n, k + 1 =< m PROVE g[k + 1] = h[k + 1]
    OBVIOUS
  <2>1. g[k + 1] = Cont * g[k] /\ h[k + 1] = Cont * h[k]
    BY DEF UpTo
  <2> QED BY <1>2, <2>1
<1> QED BY <1>1, <1>2, Induct

LEMMA PowerIsFunction == Power = [n \in Nat |-> IF n = 0 THEN 1 ELSE Cont * Power[n - 1]]
<1> DEFINE At(n) == CHOOSE g : g \in UpTo(n)
           f == [n \in Nat |-> At(n)[n]]
<1>1. \A n \in Nat : At(n) \in UpTo(n)
  BY UpToExists
<1>2. \A n \in Nat : At(n)[n] = IF n = 0 THEN 1 ELSE Cont * At(n - 1)[n - 1]
  <2> TAKE n \in Nat
  <2> HIDE DEF At
  <2>1. At(n)[n] = IF n = 0 THEN 1 ELSE Cont * At(n)[n - 1]
    BY <1>1 DEF UpTo
  <2>2. CASE n = 0
    BY <2>1, <2>2
  <2>3. CASE n # 0
    <3>1. n - 1 \in Nat /\ At(n) \in UpTo(n) /\ At(n - 1) \in UpTo(n - 1)
      BY <1>1, <2>3
    <3>2. \A k \in Nat : k =< n /\ k =< n - 1 => At(n)[k] = At(n - 1)[k]
      BY <3>1, UpToAgree
    <3>3. At(n)[n - 1] = At(n - 1)[n - 1]
      BY <3>1, <3>2
    <3> QED BY <2>1, <2>3, <3>3
  <2> QED BY <2>2, <2>3
<1>3. f = [n \in Nat |-> IF n = 0 THEN 1 ELSE Cont * f[n - 1]]
  <2> HIDE DEF At
  <2>1. \A n \in Nat : n # 0 => f[n - 1] = At(n - 1)[n - 1]
    OBVIOUS
  <2>2. \A n \in Nat : f[n] = IF n = 0 THEN 1 ELSE Cont * f[n - 1]
    BY <1>2, <2>1
  <2> QED BY <2>2
<1> HIDE DEF f
<1> QED BY <1>3 DEF Power

LEMMA PowerFacts ==
    /\ Power[0] = 1 /\ Power[1] = Cont
    /\ \A n \in Nat : Power[n] \in Nat /\ Power[n] > n /\ Power[n + 1] = Cont * Power[n]
<1>1. Power[0] = 1 /\ \A n \in Nat : Power[n + 1] = Cont * Power[n]
  <2>1. \A n \in Nat : Power[n] = IF n = 0 THEN 1 ELSE Cont * Power[n - 1]
    BY PowerIsFunction
  <2>2. \A n \in Nat : n + 1 \in Nat /\ n + 1 # 0 /\ (n + 1) - 1 = n
    OBVIOUS
  <2> QED BY <2>1, <2>2
<1> DEFINE T == {n \in Nat : Power[n] \in Nat /\ Power[n] > n}
<1>2. 0 \in T
  BY <1>1
<1>3. ASSUME NEW n \in Nat, n \in T PROVE n + 1 \in T
  <2>1. Power[n] \in Nat /\ Power[n] > n /\ Cont > 18 /\ Cont \in Nat
    BY <1>3, ContAssumption
  <2>2. Cont * Power[n] \in Nat /\ Cont * Power[n] >= 2 * Power[n]
    BY <2>1
  <2> QED BY <1>1, <2>1, <2>2
<1>4. Nat \subseteq T
  <2> HIDE DEF T
  <2> QED BY <1>2, <1>3, Induct
<1>5. Power[1] = Cont
  BY <1>1, ContAssumption
<1> QED BY <1>1, <1>4, <1>5

LEMMA PowerGrows ==
    ASSUME NEW m \in Nat, NEW n \in Nat, m =< n
    PROVE  Power[m] =< Power[n]
<1> DEFINE T == {k \in Nat : Power[m] =< Power[m + k]}
<1>1. 0 \in T
  BY PowerFacts
<1>2. ASSUME NEW k \in Nat, k \in T PROVE k + 1 \in T
  <2>1. Power[m + k] \in Nat /\ Power[m] \in Nat /\ Power[m + (k + 1)] = Cont * Power[m + k]
    BY PowerFacts
  <2>2. Cont * Power[m + k] >= Power[m + k]
    BY <2>1, ContAssumption
  <2> QED BY <1>2, <2>1, <2>2, PowerFacts
<1>3. n - m \in T
  <2> HIDE DEF T
  <2> QED BY <1>1, <1>2, Induct
<1>4. Power[m] =< Power[m + (n - m)] /\ m + (n - m) = n
  BY <1>3
<1> QED BY <1>4

----------------------------------------------------------------------------
(* sov: a varint has one byte for each group of bits.                      *)
LEMMA SovFits ==
    ASSUME NEW v \in Nat
    PROVE  /\ Sov(v) \in 1 .. v + 1 /\ v < Power[Sov(v)]
           /\ Sov(v) = 1 \/ v >= Power[Sov(v) - 1]
<1> DEFINE T == {n \in Nat : n >= 1 /\ v < Power[n]}
<1>1. v + 1 \in T
  <2>1. Power[v + 1] \in Nat /\ Power[v + 1] > v + 1
    BY PowerFacts
  <2> QED BY <2>1
<1>2. PICK n \in T : \A m \in T : n =< m
  BY <1>1, LeastNumber
<1>3. n \in 1 .. v + 1
  BY <1>1, <1>2
<1>4. n = 1 \/ v >= Power[n - 1]
  <2> SUFFICES ASSUME n # 1 PROVE v >= Power[n - 1]
    OBVIOUS
  <2>1. n - 1 \in Nat /\ n - 1 >= 1 /\ n - 1 \notin T
    BY <1>2, <1>3
  <2>2. Power[n - 1] \in Nat
    BY <2>1, PowerFacts
  <2> QED BY <2>1, <2>2
<1>5. v < Power[n]
  BY <1>2
<1> HIDE DEF T
<1>6. \E k \in 1 .. v + 1 : v < Power[k] /\ (k = 1 \/ v >= Power[k - 1])
  BY <1>3, <1>4, <1>5
<1> QED BY <1>6 DEF Sov

LEMMA SovUnique ==
    ASSUME NEW v \in Nat, NEW n \in Nat, n >= 1, v < Power[n], n = 1 \/ v >= Power[n - 1]
    PROVE  Sov(v) = n
<1> DEFINE k == Sov(v)
<1>1. k \in Nat /\ k >= 1 /\ v < Power[k] /\ (k = 1 \/ v >= Power[k - 1])
  BY SovFits
<1> HIDE DEF k
<1>2. \A m \in Nat : Power[m] \in Nat
  BY PowerFacts
<1>3. ~ (k < n)
  <2> SUFFICES ASSUME k < n PROVE FALSE
    OBVIOUS
  <2>1. n - 1 \in Nat /\ k =< n - 1 /\ v >= Power[n - 1]
    BY <1>1
  <2>2. Power[k] =< Power[n - 1]
    BY <1>1, <2>1, PowerGrows
  <2> QED BY <1>1, <1>2, <2>1, <2>2
<1>4. ~ (n < k)
  <2> SUFFICES ASSUME n < k PROVE FALSE
    OBVIOUS
  <2>1. k - 1 \in Nat /\ n =< k - 1 /\ v >= Power[k - 1]
    BY <1>1
  <2>2. Power[n] =< Power[k - 1]
    BY <1>1, <2>1, PowerGrows
  <2> QED BY <1>1, <1>2, <2>1, <2>2
<1>5. k = n
  BY <1>1, <1>3, <1>4
<1> QED BY <1>5 DEF k

LEMMA Quotient ==
    ASSUME NEW v \in Nat, NEW p \in Nat
    PROVE  /\ v \div Cont \in Nat /\ v % Cont \in 0 .. Cont - 1
           /\ v \div Cont < p <=> v < Cont * p
<1>1. v \div Cont \in Nat /\ v % Cont \in 0 .. Cont - 1 /\ v = Cont * (v \div Cont) + (v % Cont)
  BY ContAssumption
<1> DEFINE q == v \div Cont
           r == v % Cont
<1> HIDE DEF q, r
<1>2. q \in Nat /\ r \in 0 .. Cont - 1 /\ v = Cont * q + r
  BY <1>1 DEF q, r
<1>3. ASSUME q < p PROVE v < Cont * p
  <2>1. Cont * (q + 1) =< Cont * p
    BY <1>2, <1>3, ContAssumption
  <2>2. Cont * (q + 1) = Cont * q + Cont
    BY <1>2, ContAssumption
  <2> QED BY <1>2, <2>1, <2>2, ContAssumption
<1>4. ASSUME ~ (q < p) PROVE ~ (v < Cont * p)
  <2>1. Cont * p =< Cont * q
    BY <1>2, <1>4, ContAssumption
  <2> QED BY <1>2, <2>1, ContAssumption
<1> QED BY <1>1, <1>3, <1>4 DEF q

(* A turn of the loop of encodeVarint leaves one byte less to write, and   *)
(* the last byte is written when one is left.                              *)
LEMMA SovShift ==
    ASSUME NEW v \in Nat
    PROVE  IF v < Cont THEN Sov(v) = 1 ELSE Sov(v \div Cont) = Sov(v) - 1
<1>1. CASE v < Cont
  BY <1>1, SovUnique, PowerFacts
<1>2. CASE ~ (v < Cont)
  <2> DEFINE k == Sov(v)
  <2>1. k \in Nat /\ k >= 1 /\ v < Power[k] /\ (k = 1 \/ v >= Power[k - 1])
    BY SovFits
  <2> HIDE DEF k
  <2>2. k \in Nat /\ k # 1 /\ k - 1 \in Nat /\ k - 1 >= 1
    BY <1>2, <2>1, PowerFacts, ContAssumption
  <2>3. Power[k - 1] \in Nat /\ Power[k] = Cont * Power[k - 1]
    <3>1. (k - 1) + 1 = k
      BY <2>1
    <3> QED BY <2>2, <3>1, PowerFacts
  <2>4. v \div Cont \in Nat /\ v \div Cont < Power[k - 1]
    BY <2>1, <2>3, Quotient
  <2>5. k - 1 = 1 \/ v \div Cont >= Power[(k - 1) - 1]
    <3> SUFFICES ASSUME k - 1 # 1 PROVE v \div Cont >= Power[(k - 1) - 1]
      OBVIOUS
    <3>1. k - 2 \in Nat /\ (k - 2) + 1 = k - 1 /\ (k - 1) - 1 = k - 2
      BY <2>2
    <3>2. Power[k - 2] \in Nat /\ Power[k - 1] = Cont * Power[k - 2]
      BY <3>1, PowerFacts
    <3>3. ~ (v < Cont * Power[k - 2])
      BY <2>1, <2>2, <2>3, <3>2
    <3>4. ~ (v \div Cont < Power[k - 2])
      BY <3>2, <3>3, Quotient
    <3> QED BY <2>4, <3>1, <3>2, <3>4
  <2>6. Sov(v \div Cont) = k - 1
    BY <2>2, <2>4, <2>5, SovUnique
  <2> QED BY <1>2, <2>6 DEF k
<1> QED BY <1>1, <1>2

----------------------------------------------------------------------------
(* The encoder.  Of the message, the first n fields need as many bytes.    *)
SizeOfField(n) == SizeOf(Schema[message][n], value)
Needed(n) ==
    (IF n >= 1 THEN SizeOfField(1) ELSE 0) + (IF n >= 2 THEN SizeOfField(2) ELSE 0)

(* What is not written yet, the buffer before i, has room for exactly the  *)
(* fields that are left; while a varint is written, for the rest of it up  *)
(* to its content.                                                         *)
RoomIsExact ==
    /\ pc \in {"write", "putVarint", "putTag"} => i =< limit /\ limit =< Len(data)
    /\ pc = "write" => i = Needed(todo)
    /\ pc = "putVarint" =>
        /\ todo > 0 /\ ~ Omitted(Kind, value)
        /\ i = Needed(todo - 1) + 1 + Sov(Len(Field))
        /\ offset > Needed(todo - 1) /\ offset + Sov(rest) = i
    /\ pc = "putTag" => todo > 0 /\ i = Needed(todo - 1) + 1

MInv ==
    /\ MarshalTypeOK /\ pc # "panicked" /\ FillsBuffer /\ RoomIsExact
    /\ value \in Authorities \cup {<<>>}

LEMMA SovType == \A v \in Nat : Sov(v) \in Nat /\ Sov(v) >= 1
  BY SovFits

LEMMA SizeOfType ==
    ASSUME NEW kind, NEW a \in Seq(Bytes)
    PROVE  SizeOf(kind, a) \in Nat
<1>1. Content(kind, a) \in Seq(Bytes)
  BY DEF Content
<1> DEFINE size == Len(Content(kind, a))
<1>2. size \in Nat
  BY <1>1
<1> HIDE DEF size
<1>3. 1 + size + Sov(size) \in Nat
  <2> DEFINE sov == Sov(size)
  <2>1. sov \in Nat
    BY <1>2, SovType
  <2> HIDE DEF sov
  <2>2. 1 + size + sov \in Nat
    BY <1>2, <2>1
  <2> QED BY <2>2 DEF sov
<1>4. SizeOf(kind, a) = IF Omitted(kind, a) THEN 0 ELSE 1 + size + Sov(size)
  BY DEF SizeOf, size
<1> QED BY <1>3, <1>4

LEMMA FieldType ==
    ASSUME MarshalTypeOK, NEW n \in DOMAIN Schema[message]
    PROVE  /\ Len(Schema[message]) \in 0 .. 2
           /\ Content(Schema[message][n], value) \in Seq(Bytes)
           /\ Len(Content(Schema[message][n], value)) \in Nat
           /\ SizeOfField(n) \in Nat
<1>1. Len(Schema[message]) \in 0 .. 2
  BY DEF MarshalTypeOK, Schema, MsgUpdateParams, MsgUpdateParamsResponse, GenesisState,
     QueryParamsRequest, QueryParamsResponse, Module, Params
<1>2. Content(Schema[message][n], value) \in Seq(Bytes)
  BY DEF MarshalTypeOK, Content
<1>3. Len(Content(Schema[message][n], value)) \in Nat
  BY <1>2
<1>4. SizeOfField(n) \in Nat
  BY <1>3, SovType DEF SizeOfField, SizeOf
<1> QED BY <1>1, <1>2, <1>3, <1>4

LEMMA SchemaLength ==
    ASSUME MarshalTypeOK
    PROVE  Len(Schema[message]) \in 0 .. 2 /\ DOMAIN Schema[message] = 1 .. Len(Schema[message])
BY DEF MarshalTypeOK, Schema, MsgUpdateParams, MsgUpdateParamsResponse, GenesisState,
   QueryParamsRequest, QueryParamsResponse, Module, Params

LEMMA NeededType ==
    ASSUME MarshalTypeOK, NEW n \in 0 .. Len(Schema[message])
    PROVE  /\ Needed(n) \in Nat
           /\ n > 0 => Needed(n) = Needed(n - 1) + SizeOfField(n)
<1>1. Len(Schema[message]) \in 0 .. 2 /\ DOMAIN Schema[message] = 1 .. Len(Schema[message])
  BY SchemaLength
<1>2. \A k \in 1 .. Len(Schema[message]) : SizeOfField(k) \in Nat
  BY <1>1, FieldType
<1>3. CASE n = 0
  BY <1>3 DEF Needed
<1>4. CASE n = 1
  BY <1>1, <1>2, <1>4 DEF Needed
<1>5. CASE n = 2
  BY <1>1, <1>2, <1>5 DEF Needed
<1>6. n \in {0, 1, 2}
  <2>1. PICK k \in 0 .. 2 : k = Len(Schema[message])
    BY <1>1
  <2>2. n \in 0 .. k
    BY <2>1
  <2> QED BY <2>2
<1> QED BY <1>3, <1>4, <1>5, <1>6

(* Size is what the fields need.                                           *)
LEMMA SizeIsNeeded ==
    ASSUME MarshalTypeOK
    PROVE  Size(message, value) = Needed(Len(Schema[message]))
<1>1. SizeOf("string", value) \in Nat /\ SizeOf("message", value) \in Nat
  BY SizeOfType DEF MarshalTypeOK
<1>2. message \in DOMAIN Schema
  BY DEF MarshalTypeOK
<1> USE DEF Size, HasField, Needed, SizeOfField
<1>3. CASE message = "MsgUpdateParams"
  BY <1>1, <1>3 DEF Schema, MsgUpdateParams
<1>4. CASE message = "GenesisState"
  BY <1>1, <1>4 DEF Schema, GenesisState
<1>5. CASE message = "QueryParamsResponse"
  BY <1>1, <1>5 DEF Schema, QueryParamsResponse
<1>6. CASE message = "Module"
  BY <1>1, <1>6 DEF Schema, Module
<1>7. CASE message \in {"MsgUpdateParamsResponse", "QueryParamsRequest", "Params"}
  BY <1>7 DEF Schema, MsgUpdateParamsResponse, QueryParamsRequest, Params
<1> QED BY <1>2, <1>3, <1>4, <1>5, <1>6, <1>7 DEF Schema

----------------------------------------------------------------------------
LEMMA MarshalInitial == InitMarshal => MInv
<1> SUFFICES ASSUME InitMarshal PROVE MInv
  OBVIOUS
<1>1. value \in Authorities \cup {<<>>} /\ message \in DOMAIN Schema
  BY DEF InitMarshal
<1>2. value \in Seq(Bytes)
  BY <1>1, AuthoritiesAssumption
<1>3. 8 < IntLimit
  <2>1. Size(message, <<>>) + 0 + 8 < IntLimit
    BY <1>1, AuthoritiesAssumption, SparesAssumption
  <2>2. SizeOf("string", <<>>) \in Nat /\ SizeOf("message", <<>>) \in Nat
    <3>1. <<>> \in Seq(Bytes)
      OBVIOUS
    <3> QED BY <3>1, SizeOfType
  <2>3. Size(message, <<>>) \in Nat
    BY <2>2 DEF Size
  <2> QED BY <2>1, <2>3, IntLimitAssumption
<1>4. 0 \in 0 .. Len(Schema[message])
  BY <1>1 DEF Schema, MsgUpdateParams, MsgUpdateParamsResponse, GenesisState,
     QueryParamsRequest, QueryParamsResponse, Module, Params
<1> QED BY <1>1, <1>2, <1>3, <1>4
        DEF InitMarshal, MInv, MarshalTypeOK, FillsBuffer, RoomIsExact

LEMMA MakeBufferStep == MInv /\ MakeBuffer => MInv'
<1> SUFFICES ASSUME MInv, MakeBuffer PROVE MInv'
  OBVIOUS
<1> DEFINE size == Size(message, value)
<1>1. PICK spare \in Spares :
          /\ data' = [p \in 1 .. size + spare |-> 0]
          /\ limit' = size /\ i' = size
  BY DEF MakeBuffer
<1>2. /\ pc' = "write" /\ todo' = Len(Schema[message])
      /\ UNCHANGED <<message, value, offset, rest>>
  BY DEF MakeBuffer
<1>3. Len(Schema[message]) \in 0 .. 2
  BY SchemaLength DEF MInv
<1>4. size = Needed(Len(Schema[message])) /\ size \in Nat
  BY <1>3, SizeIsNeeded, NeededType DEF MInv
<1>5. size + spare + 8 < IntLimit /\ spare \in Nat
  BY AuthoritiesAssumption, SparesAssumption DEF MInv, MarshalTypeOK
<1> HIDE DEF size
<1>6. data' \in Seq(Bytes) /\ Len(data') = size + spare
  BY <1>1, <1>4, <1>5, ContAssumption DEF Bytes
<1>7. Needed(Len(Schema[message]))' = Needed(Len(Schema[message]))
  BY <1>2 DEF Needed, SizeOfField
<1>8. RoomIsExact'
  <2>1. limit' =< Len(data') /\ i' =< limit' /\ limit' = size /\ i' = size
    <3>1. size =< size + spare /\ size =< size
      BY <1>4, <1>5
    <3> QED BY <1>1, <1>6, <3>1
  <2>2. i' = Needed(todo)'
    BY <1>1, <1>2, <1>4, <1>7
  <2> QED BY <1>2, <2>1, <2>2 DEF RoomIsExact
<1>9. MarshalTypeOK'
  <2>1. Len(data') + 8 < IntLimit
    BY <1>5, <1>6
  <2>2. todo' \in 0 .. Len(Schema[message])
    BY <1>2, <1>3
  <2>3. limit' \in Nat /\ i' \in Int
    BY <1>1, <1>4
  <2>4. message \in DOMAIN Schema /\ value \in Seq(Bytes) /\ offset \in Int /\ rest \in Nat
    BY DEF MarshalTypeOK, MInv
  <2> QED BY <1>2, <1>6, <2>1, <2>2, <2>3, <2>4 DEF MarshalTypeOK
<1> QED BY <1>2, <1>8, <1>9 DEF MInv, FillsBuffer

LEMMA OmitFieldStep == MInv /\ OmitField => MInv'
<1> SUFFICES ASSUME MInv, OmitField PROVE MInv'
  OBVIOUS
<1>1. todo \in 1 .. Len(Schema[message]) /\ Len(Schema[message]) \in 0 .. 2
  BY SchemaLength DEF MInv, OmitField, MarshalTypeOK
<1>2. SizeOfField(todo) = 0
  BY DEF OmitField, SizeOfField, SizeOf, Kind
<1>3. Needed(todo) = Needed(todo - 1)
  <2>1. Needed(todo) = Needed(todo - 1) + SizeOfField(todo) /\ Needed(todo - 1) \in Nat
    BY <1>1, NeededType DEF MInv
  <2> DEFINE needed == Needed(todo - 1)
  <2>2. needed \in Nat /\ Needed(todo) = needed + 0
    BY <1>2, <2>1
  <2> HIDE DEF needed
  <2>3. Needed(todo) = needed
    BY <2>2
  <2> QED BY <2>3 DEF needed
<1>4. \A n : Needed(n)' = Needed(n)
  BY DEF OmitField, Needed, SizeOfField
<1>5. /\ pc = "write" /\ pc' = "write" /\ todo' = todo - 1 /\ i = Needed(todo)
      /\ UNCHANGED <<message, data, value, limit, i, offset, rest>>
  BY DEF OmitField, MInv, RoomIsExact
<1>6. todo' \in 0 .. Len(Schema[message])
  BY <1>1, <1>5
<1>7. i' = Needed(todo)'
  BY <1>3, <1>4, <1>5
<1>8. MarshalTypeOK'
  BY <1>5, <1>6 DEF MInv, MarshalTypeOK
<1> QED BY <1>5, <1>7, <1>8 DEF MInv, FillsBuffer, RoomIsExact

LEMMA PutContentStep == MInv /\ PutContent => MInv'
<1> SUFFICES ASSUME MInv, PutContent PROVE MInv'
  OBVIOUS
<1>1. todo \in 1 .. Len(Schema[message]) /\ Len(Schema[message]) \in 0 .. 2
  <2>0. MarshalTypeOK
    BY DEF MInv
  <2>2. Len(Schema[message]) \in 0 .. 2
    BY <2>0, SchemaLength
  <2>3. todo \in 0 .. Len(Schema[message])
    BY <2>0 DEF MarshalTypeOK
  <2>4. todo > 0
    BY DEF PutContent
  <2> DEFINE fields == Len(Schema[message])
  <2>5. todo \in 0 .. fields /\ todo > 0 /\ fields \in 0 .. 2
    BY <2>2, <2>3, <2>4
  <2> HIDE DEF fields
  <2>6. todo \in 1 .. fields /\ fields \in 0 .. 2
    BY <2>5
  <2> QED BY <2>6 DEF fields
<1>2. Field \in Seq(Bytes) /\ Len(Field) \in Nat /\ todo \in DOMAIN Schema[message]
  BY <1>1, SchemaLength, FieldType DEF Field, Kind, MInv
<1>3. /\ SizeOfField(todo) = 1 + Len(Field) + Sov(Len(Field))
      /\ Sov(Len(Field)) \in Nat /\ Sov(Len(Field)) >= 1
  BY <1>2, SovType DEF PutContent, SizeOfField, SizeOf, Field, Kind
<1>4. i = Needed(todo - 1) + SizeOfField(todo) /\ Needed(todo - 1) \in Nat
  <2>1. i = Needed(todo) /\ MarshalTypeOK
    BY DEF MInv, RoomIsExact, PutContent
  <2>2. /\ Needed(todo) = Needed(todo - 1) + SizeOfField(todo)
        /\ Needed(todo - 1) \in Nat
    BY <1>1, <2>1, NeededType
  <2> QED BY <2>1, <2>2
<1>5. i' = i - Len(Field) /\ i' = Needed(todo - 1) + 1 + Sov(Len(Field)) /\ i' >= 0
  BY <1>2, <1>3, <1>4 DEF PutContent
<1>6. /\ pc' = "putVarint"
      /\ data' = [p \in DOMAIN data |->
                     IF p - i' \in DOMAIN Field /\ p =< limit THEN Field[p - i'] ELSE data[p]]
      /\ rest' = Len(Field) /\ offset' = i' - Sov(Len(Field))
      /\ UNCHANGED <<message, value, limit, todo>>
  BY <1>5 DEF PutContent, VarintStart
<1>7. data \in Seq(Bytes) /\ Len(data) \in Nat
  BY DEF MInv, MarshalTypeOK
<1>8. data' \in Seq(Bytes) /\ Len(data') = Len(data)
  <2>1. \A k \in DOMAIN Field : Field[k] \in Bytes
    BY <1>2
  <2>2. \A p \in 1 .. Len(data) : data'[p] \in Bytes
    BY <1>6, <1>7, <2>1
  <2>3. DOMAIN data' = 1 .. Len(data)
    BY <1>6, <1>7
  <2>4. data' = [p \in 1 .. Len(data) |-> data'[p]]
    BY <1>6, <2>3
  <2> QED BY <1>7, <2>2, <2>4
<1>9. Needed(todo - 1)' = Needed(todo - 1) /\ Kind' = Kind /\ Field' = Field
  BY <1>6 DEF Needed, SizeOfField, Kind, Field
<1>10. MarshalTypeOK'
  <2>1. i' \in Int /\ offset' \in Int /\ rest' \in Nat
    <3> DEFINE size == Len(Field)
               sov == Sov(Len(Field))
    <3>1. /\ i \in Int /\ i' = i - size /\ offset' = i' - sov /\ rest' = size
          /\ size \in Nat /\ sov \in Nat
      BY <1>2, <1>3, <1>5, <1>6 DEF MInv, MarshalTypeOK
    <3> HIDE DEF size, sov
    <3> QED BY <3>1
  <2>2. Len(data') + 8 < IntLimit
    BY <1>8 DEF MInv, MarshalTypeOK
  <2>3. /\ message' \in DOMAIN Schema /\ value' \in Seq(Bytes) /\ limit' \in Nat
        /\ todo' \in 0 .. Len(Schema[message'])
    BY <1>6 DEF MInv, MarshalTypeOK
  <2> QED BY <1>8, <2>1, <2>2, <2>3 DEF MarshalTypeOK
<1>11. ~ Omitted(Kind, value)'
  BY <1>6, <1>9 DEF PutContent
<1>12. i =< limit /\ limit =< Len(data) /\ i \in Int /\ limit \in Nat
  BY DEF PutContent, MInv, RoomIsExact, MarshalTypeOK
<1>13. RoomIsExact'
  <2>1. i' =< limit' /\ limit' =< Len(data')
    <3> DEFINE size == Len(Field)
    <3>1. i' = i - size /\ size \in Nat /\ i =< limit /\ i \in Int /\ limit \in Nat
      BY <1>2, <1>5, <1>12
    <3> HIDE DEF size
    <3>2. i' =< limit
      BY <3>1
    <3> QED BY <1>6, <1>8, <1>12, <3>2
  <2>2. i' = (Needed(todo - 1) + 1 + Sov(Len(Field)))' /\ todo' > 0
    BY <1>1, <1>5, <1>6, <1>9
  <2>3. (offset > Needed(todo - 1))' /\ (offset + Sov(rest) = i)'
    <3> DEFINE needed == Needed(todo - 1)
               sov == Sov(Len(Field))
    <3>1. i' = needed + 1 + sov /\ offset' = i' - sov /\ needed \in Nat /\ sov \in Nat
      BY <1>3, <1>4, <1>5, <1>6
    <3>2. needed' = needed /\ Sov(rest)' = sov
      BY <1>6, <1>9
    <3> HIDE DEF needed, sov
    <3>3. offset' > needed /\ offset' + sov = i'
      BY <3>1
    <3>4. offset' > needed' /\ offset' + Sov(rest)' = i'
      BY <3>2, <3>3
    <3> QED BY <3>4 DEF needed
  <2> QED BY <1>6, <1>11, <2>1, <2>2, <2>3 DEF RoomIsExact
<1> QED BY <1>6, <1>10, <1>13 DEF MInv, FillsBuffer

(* A write inside the buffer keeps it a buffer, and does not panic.        *)
LEMMA PutInside ==
    ASSUME NEW p \in Nat, p < limit, limit =< Len(data), limit \in Nat, data \in Seq(Bytes),
           NEW b \in Bytes, NEW next, Put(p, b, next)
    PROVE  pc' = next /\ data' \in Seq(Bytes) /\ Len(data') = Len(data)
<1>1. data' = [data EXCEPT ![p + 1] = b] /\ pc' = next
  BY DEF Put
<1>2. p + 1 \in 1 .. Len(data)
  OBVIOUS
<1>3. [data EXCEPT ![p + 1] = b] \in Seq(Bytes) /\ Len([data EXCEPT ![p + 1] = b]) = Len(data)
  BY <1>2, ExceptSeq
<1> QED BY <1>1, <1>3

LEMMA TodoRange ==
    ASSUME MInv, todo > 0
    PROVE  /\ todo \in 1 .. 2 /\ todo \in DOMAIN Schema[message]
           /\ todo - 1 \in 0 .. Len(Schema[message])
<1>1. PICK k \in 0 .. 2 : k = Len(Schema[message]) /\ DOMAIN Schema[message] = 1 .. k
  BY SchemaLength DEF MInv
<1>2. todo \in 0 .. k
  BY <1>1 DEF MInv, MarshalTypeOK
<1>3. todo \in 1 .. 2 /\ todo \in 1 .. k /\ todo - 1 \in 0 .. k
  BY <1>2
<1> QED BY <1>1, <1>3, Zenon

LEMMA VarintInside ==
    ASSUME MInv, pc = "putVarint"
    PROVE  /\ offset \in Nat /\ offset < i /\ i \in Nat /\ i =< limit
           /\ limit =< Len(data) /\ limit \in Nat /\ data \in Seq(Bytes)
           /\ todo \in 1 .. Len(Schema[message]) /\ Needed(todo - 1) \in Nat
           /\ Len(Field) \in Nat /\ Sov(Len(Field)) \in Nat
<1>1. /\ todo \in 1 .. Len(Schema[message]) /\ i =< limit /\ limit =< Len(data)
      /\ offset > Needed(todo - 1) /\ offset + Sov(rest) = i
      /\ offset \in Int /\ i \in Int /\ limit \in Nat /\ data \in Seq(Bytes)
  BY SchemaLength DEF MInv, RoomIsExact, MarshalTypeOK
<1>2. todo \in 1 .. 2 /\ todo - 1 \in 0 .. Len(Schema[message])
  BY <1>1, TodoRange
<1>4. Needed(todo - 1) \in Nat
  BY <1>2, NeededType DEF MInv
<1>5. Sov(rest) \in Nat /\ Sov(rest) >= 1
  BY SovType DEF MInv, MarshalTypeOK
<1>6. todo \in DOMAIN Schema[message]
  BY <1>1, TodoRange
<1>7. Len(Field) \in Nat /\ Sov(Len(Field)) \in Nat
  BY <1>6, FieldType, SovType DEF Field, Kind, MInv
<1> QED BY <1>1, <1>4, <1>5, <1>7

LEMMA PutVarintByteStep == MInv /\ PutVarintByte => MInv'
<1> SUFFICES ASSUME MInv, PutVarintByte PROVE MInv'
  OBVIOUS
<1>0. pc = "putVarint" /\ rest >= Cont /\ rest \in Nat
  BY DEF PutVarintByte, MInv, MarshalTypeOK
<1>1. /\ offset \in Nat /\ offset < i /\ i \in Nat /\ i =< limit
      /\ limit =< Len(data) /\ limit \in Nat /\ data \in Seq(Bytes)
      /\ todo \in 1 .. Len(Schema[message]) /\ Needed(todo - 1) \in Nat
  BY <1>0, VarintInside
<1>2. rest \div Cont \in Nat /\ (rest % Cont) + Cont \in Bytes
  <2>1. rest % Cont \in 0 .. Cont - 1 /\ rest \div Cont \in Nat
    BY <1>0, Quotient
  <2> QED BY <2>1, ContAssumption DEF Bytes
<1>3. pc' = "putVarint" /\ data' \in Seq(Bytes) /\ Len(data') = Len(data)
  <2>1. Put(offset, (rest % Cont) + Cont, "putVarint") /\ offset < limit
    BY <1>1 DEF PutVarintByte
  <2> QED BY <1>1, <1>2, <2>1, PutInside
<1>4. /\ rest' = rest \div Cont /\ offset' = offset + 1
      /\ UNCHANGED <<message, value, limit, todo, i>>
  BY DEF PutVarintByte
<1>5. Sov(rest') = Sov(rest) - 1 /\ Sov(rest) \in Nat
  <2>1. ~ (rest < Cont)
    BY <1>0, ContAssumption
  <2>2. Sov(rest \div Cont) = Sov(rest) - 1
    BY <1>0, <2>1, SovShift
  <2> QED BY <1>0, <1>4, <2>2, SovType
<1>6. Needed(todo - 1)' = Needed(todo - 1) /\ Kind' = Kind /\ Field' = Field
  BY <1>4 DEF Needed, SizeOfField, Kind, Field
<1>7. /\ ~ Omitted(Kind, value) /\ i = Needed(todo - 1) + 1 + Sov(Len(Field))
      /\ offset > Needed(todo - 1) /\ offset + Sov(rest) = i
  BY <1>0 DEF MInv, RoomIsExact
<1>8. RoomIsExact'
  <2>1. (offset > Needed(todo - 1))' /\ (offset + Sov(rest) = i)'
    BY <1>1, <1>4, <1>5, <1>6, <1>7
  <2>2. (~ Omitted(Kind, value))' /\ (i = Needed(todo - 1) + 1 + Sov(Len(Field)))' /\ todo' > 0
    BY <1>1, <1>4, <1>6, <1>7
  <2> QED BY <1>1, <1>3, <1>4, <2>1, <2>2 DEF RoomIsExact
<1>9. MarshalTypeOK'
  BY <1>1, <1>2, <1>3, <1>4 DEF MInv, MarshalTypeOK
<1> QED BY <1>3, <1>4, <1>8, <1>9 DEF MInv, FillsBuffer

LEMMA PutLastByteStep == MInv /\ PutLastByte => MInv'
<1> SUFFICES ASSUME MInv, PutLastByte PROVE MInv'
  OBVIOUS
<1>0. pc = "putVarint" /\ rest < Cont /\ rest \in Nat
  BY DEF PutLastByte, MInv, MarshalTypeOK
<1>1. /\ offset \in Nat /\ offset < i /\ i \in Nat /\ i =< limit
      /\ limit =< Len(data) /\ limit \in Nat /\ data \in Seq(Bytes)
      /\ todo \in 1 .. Len(Schema[message]) /\ Needed(todo - 1) \in Nat
      /\ Len(Field) \in Nat /\ Sov(Len(Field)) \in Nat
  BY <1>0, VarintInside
<1>2. rest \in Bytes
  BY <1>0, ContAssumption DEF Bytes
<1>3. pc' = "putTag" /\ data' \in Seq(Bytes) /\ Len(data') = Len(data)
  <2>1. Put(offset, rest, "putTag") /\ offset < limit
    BY <1>1 DEF PutLastByte
  <2> QED BY <1>1, <1>2, <2>1, PutInside
<1>4. i' = i - Sov(Len(Field)) /\ UNCHANGED <<message, value, limit, todo, offset, rest>>
  BY DEF PutLastByte, VarintStart
<1>5. i = Needed(todo - 1) + 1 + Sov(Len(Field))
  BY <1>0 DEF MInv, RoomIsExact
<1>6. i' = Needed(todo - 1) + 1 /\ i' =< limit /\ i' \in Int
  BY <1>1, <1>4, <1>5
<1>7. Needed(todo - 1)' = Needed(todo - 1)
  BY <1>4 DEF Needed, SizeOfField
<1>8. RoomIsExact'
  BY <1>1, <1>3, <1>4, <1>6, <1>7 DEF RoomIsExact
<1>9. MarshalTypeOK'
  BY <1>1, <1>3, <1>4, <1>6 DEF MInv, MarshalTypeOK
<1> QED BY <1>3, <1>4, <1>8, <1>9 DEF MInv, FillsBuffer

LEMMA PutTagStep == MInv /\ PutTag => MInv'
<1> SUFFICES ASSUME MInv, PutTag PROVE MInv'
  OBVIOUS
<1>1. /\ pc = "putTag" /\ todo > 0 /\ i = Needed(todo - 1) + 1 /\ i =< limit
      /\ limit =< Len(data) /\ limit \in Nat /\ data \in Seq(Bytes)
      /\ todo \in 0 .. Len(Schema[message])
  BY DEF PutTag, MInv, RoomIsExact, MarshalTypeOK
<1>2. todo \in 1 .. 2 /\ todo - 1 \in 0 .. Len(Schema[message])
  BY <1>1, TodoRange
<1>4. Needed(todo - 1) \in Nat
  BY <1>2, NeededType DEF MInv
<1>5. /\ i' = i - 1 /\ todo' = todo - 1 /\ Put(i', Tag(todo), "write")
      /\ UNCHANGED <<message, value, limit, offset, rest>>
  BY DEF PutTag
<1>6. i' \in Nat /\ i' < limit /\ Tag(todo) \in Bytes
  BY <1>1, <1>2, <1>4, <1>5, ContAssumption DEF Tag, Bytes
<1>7. pc' = "write" /\ data' \in Seq(Bytes) /\ Len(data') = Len(data)
  BY <1>1, <1>5, <1>6, PutInside
<1>8. \A k : Needed(k)' = Needed(k)
  BY <1>5 DEF Needed, SizeOfField
<1>9. RoomIsExact'
  BY <1>1, <1>4, <1>5, <1>6, <1>7, <1>8 DEF RoomIsExact
<1>10. todo' \in 0 .. Len(Schema[message])
  BY <1>2, <1>5
<1>11. MarshalTypeOK'
  BY <1>1, <1>5, <1>6, <1>7, <1>10 DEF MInv, MarshalTypeOK
<1> QED BY <1>5, <1>7, <1>9, <1>11 DEF MInv, FillsBuffer

LEMMA ReturnStep == MInv /\ Return => MInv'
<1> SUFFICES ASSUME MInv, Return PROVE MInv'
  OBVIOUS
<1>1. i = Needed(0) /\ limit =< Len(data) /\ limit \in Nat /\ data \in Seq(Bytes)
  BY DEF Return, MInv, RoomIsExact, MarshalTypeOK
<1>2. i = 0
  BY <1>1 DEF Needed
<1>3. data' = SubSeq(data, 1, limit)
  BY <1>1, <1>2 DEF Return
<1>4. data' \in Seq(Bytes) /\ Len(data') = limit
  BY <1>1, <1>3, SubSeqProperties
<1>5. pc' = "returned" /\ UNCHANGED <<message, value, limit, todo, i, offset, rest>>
  BY DEF Return
<1>6. Len(data') + 8 < IntLimit
  BY <1>1, <1>4, IntLimitAssumption DEF MInv, MarshalTypeOK
<1>7. MarshalTypeOK'
  BY <1>4, <1>5, <1>6 DEF MInv, MarshalTypeOK
<1> QED BY <1>2, <1>4, <1>5, <1>7 DEF MInv, FillsBuffer, RoomIsExact

(* Every step of the encoder keeps to the room that Size made.             *)
LEMMA MarshalStep == MInv /\ Marshal => MInv'
BY MakeBufferStep, OmitFieldStep, PutContentStep, PutVarintByteStep, PutLastByteStep,
   PutTagStep, ReturnStep DEF Marshal

----------------------------------------------------------------------------
(* The bytes of a varint: what is left of v behind j of them, and the next *)
(* one.                                                                    *)
Rest(v, j) == v \div Power[j]
VarintByte(v, j) == (Rest(v, j) % Cont) + (IF j + 1 < Sov(v) THEN Cont ELSE 0)

LEMMA DivisionIs ==
    ASSUME NEW v \in Nat, NEW q \in Nat \ {0}, NEW b \in Nat, NEW s \in Nat,
           v = q * b + s, s < q
    PROVE  v \div q = b
<1> DEFINE a == v \div q
           r == v % q
<1>1. a \in Nat /\ r \in Nat /\ r < q /\ v = q * a + r
  BY SMT
<1> HIDE DEF a, r
<1>2. ~ (a < b)
  <2> SUFFICES ASSUME a < b PROVE FALSE
    OBVIOUS
  <2>1. q * (a + 1) =< q * b
    BY <1>1
  <2>2. q * (a + 1) = q * a + q
    BY <1>1
  <2> QED BY <1>1, <2>1, <2>2
<1>3. ~ (b < a)
  <2> SUFFICES ASSUME b < a PROVE FALSE
    OBVIOUS
  <2>1. q * (b + 1) =< q * a
    BY <1>1
  <2>2. q * (b + 1) = q * b + q
    BY <1>1
  <2> QED BY <1>1, <2>1, <2>2
<1>4. a = b
  BY <1>1, <1>2, <1>3
<1> QED BY <1>4 DEF a

LEMMA Division ==
    ASSUME NEW v \in Nat, NEW q \in Nat \ {0}
    PROVE  /\ v \div q \in Nat /\ v % q \in 0 .. q - 1
           /\ v = q * (v \div q) + (v % q)
BY SMT

LEMMA RestFacts ==
    ASSUME NEW v \in Nat, NEW j \in Nat
    PROVE  /\ Rest(v, 0) = v /\ Rest(v, j) \in Nat
           /\ Rest(v, j + 1) = Rest(v, j) \div Cont
           /\ v < Power[j] => Rest(v, j) = 0
<1> DEFINE p == Power[j]
<1>0. p \in Nat \ {0} /\ Power[0] = 1 /\ Power[j + 1] = Cont * p /\ Cont \in Nat \ {0}
  BY PowerFacts, ContAssumption
<1> DEFINE a == v \div p
           r == v % p
           b == a \div Cont
           c == a % Cont
<1>1. Rest(v, 0) = v /\ Rest(v, j) = a
  <2>1. v \div 1 = v
    BY DivisionIs
  <2> QED BY <1>0, <2>1 DEF Rest
<1> HIDE DEF p
<1>2. a \in Nat /\ r \in 0 .. p - 1 /\ v = p * a + r
  BY <1>0, Division
<1> HIDE DEF a, r
<1>3. b \in Nat /\ c \in 0 .. Cont - 1 /\ a = Cont * b + c
  BY <1>0, <1>2, Division
<1> HIDE DEF b, c
<1> DEFINE q == Cont * p
           s == p * c + r
<1>4. v = q * b + s
  <2>1. p * a = p * (Cont * b) + p * c
    BY <1>0, <1>2, <1>3
  <2>2. p * (Cont * b) = (Cont * p) * b
    BY <1>0, <1>3
  <2> QED BY <1>0, <1>2, <1>3, <2>1, <2>2
<1>5. s \in Nat /\ s < q /\ q \in Nat \ {0}
  <2>1. p * c \in Nat /\ p * c =< p * (Cont - 1) /\ p * (Cont - 1) = p * Cont - p
    BY <1>0, <1>3
  <2>2. p * Cont = Cont * p /\ Cont * p \in Nat \ {0}
    BY <1>0
  <2> QED BY <1>0, <1>2, <2>1, <2>2
<1>6. v \div q = b
  <2> HIDE DEF q, s
  <2> QED BY <1>3, <1>4, <1>5, DivisionIs
<1>7. Rest(v, j + 1) = Rest(v, j) \div Cont
  BY <1>0, <1>1, <1>6 DEF Rest, b
<1>8. ASSUME v < p PROVE a = 0
  <2>1. v = p * 0 + v
    BY <1>0
  <2>2. v \div p = 0
    <3> HIDE DEF q, s
    <3> QED BY <1>0, <1>8, <2>1, DivisionIs
  <2> QED BY <2>2 DEF a
<1> QED BY <1>1, <1>2, <1>7, <1>8 DEF p

(* A byte ends the varint when nothing is left behind it.                  *)
LEMMA ByteFacts ==
    ASSUME NEW v \in Nat, NEW j \in Nat
    PROVE  /\ VarintByte(v, j) \in Bytes
           /\ VarintByte(v, j) % Cont = Rest(v, j) % Cont
           /\ VarintByte(v, j) < Cont <=> ~ (j + 1 < Sov(v))
<1> DEFINE r == Rest(v, j) % Cont
<1>0. Cont \in Nat \ {0}
  BY ContAssumption
<1>1. r \in 0 .. Cont - 1
  BY <1>0, RestFacts, Division
<1>2. VarintByte(v, j) = r + (IF j + 1 < Sov(v) THEN Cont ELSE 0)
  BY DEF VarintByte
<1> HIDE DEF r
<1>3. r % Cont = r /\ (r + Cont) % Cont = r
  <2> DEFINE a == r % Cont
             b == (r + Cont) % Cont
  <2>1. r = Cont * 0 + r /\ r + Cont = Cont * 1 + r
    BY <1>0, <1>1
  <2>2. r \div Cont = 0 /\ (r + Cont) \div Cont = 1
    BY <1>0, <1>1, <2>1, DivisionIs
  <2>3. r = Cont * (r \div Cont) + a /\ r + Cont = Cont * ((r + Cont) \div Cont) + b
        /\ a \in Nat /\ b \in Nat
    BY <1>0, <1>1, Division
  <2> HIDE DEF a, b
  <2>4. a = r /\ b = r
    BY <1>0, <1>1, <2>2, <2>3
  <2> QED BY <2>4 DEF a, b
<1> QED BY <1>0, <1>1, <1>2, <1>3 DEF Bytes, r

----------------------------------------------------------------------------
(* What the buffer holds.  Field n lies between Needed(n - 1) and          *)
(* Needed(n): its tag, its length and its content.                         *)
FieldOf(n) == Content(Schema[message][n], value)
Absent(n) == Omitted(Schema[message][n], value)
LengthOf(n) == Len(FieldOf(n))
Prefix(n) == Sov(LengthOf(n))
Fields == Len(Schema[message])

TagIn(d, n) == d[Needed(n - 1) + 1] = Tag(n)
LengthIn(d, n, k) ==
    \A j \in 0 .. k - 1 : d[Needed(n - 1) + 2 + j] = VarintByte(LengthOf(n), j)
ContentIn(d, n) ==
    \A j \in 1 .. LengthOf(n) : d[Needed(n - 1) + 1 + Prefix(n) + j] = FieldOf(n)[j]
FieldIn(d, n) == TagIn(d, n) /\ LengthIn(d, n, Prefix(n)) /\ ContentIn(d, n)
FieldsIn(d, k) == \A n \in k + 1 .. Fields : Absent(n) \/ FieldIn(d, n)

(* The fields behind i are in the buffer, and of the one that is written   *)
(* what has been written of it.                                            *)
Encoded ==
    /\ pc \in {"write", "putVarint", "putTag"} => FieldsIn(data, todo) /\ limit = Needed(Fields)
    /\ pc = "putVarint" =>
        LET k == Prefix(todo) - Sov(rest)
        IN  ContentIn(data, todo) /\ LengthIn(data, todo, k) /\ rest = Rest(LengthOf(todo), k)
    /\ pc = "putTag" =>
        ~ Absent(todo) /\ ContentIn(data, todo) /\ LengthIn(data, todo, Prefix(todo))
    /\ pc = "returned" => FieldsIn(data, 0) /\ Len(data) = Needed(Fields)
    /\ HasField(message, "string") \/ value = <<>>

LEMMA LayoutType ==
    ASSUME MarshalTypeOK, NEW n \in 1 .. Fields
    PROVE  /\ n \in 1 .. 2 /\ n \in DOMAIN Schema[message] /\ n - 1 \in 0 .. Fields
           /\ FieldOf(n) \in Seq(Bytes) /\ LengthOf(n) \in Nat
           /\ Prefix(n) \in Nat /\ Prefix(n) >= 1
           /\ Needed(n - 1) \in Nat /\ Needed(n) \in Nat
           /\ ~ Absent(n) => Needed(n) = Needed(n - 1) + 1 + Prefix(n) + LengthOf(n)
           /\ Absent(n) => Needed(n) = Needed(n - 1)
<1>1. PICK k \in 0 .. 2 : k = Fields /\ DOMAIN Schema[message] = 1 .. k
  BY SchemaLength DEF Fields
<1>2. n \in 1 .. k
  BY <1>1
<1>3. n \in 1 .. 2 /\ n - 1 \in 0 .. k /\ n \in 0 .. k
  BY <1>2
<1>4. n \in DOMAIN Schema[message]
  BY <1>1, <1>2, Zenon
<1>5. FieldOf(n) \in Seq(Bytes) /\ LengthOf(n) \in Nat
  BY <1>4, FieldType DEF FieldOf, LengthOf
<1>6. Prefix(n) \in Nat /\ Prefix(n) >= 1
  BY <1>5, SovType DEF Prefix
<1>7. Needed(n - 1) \in Nat /\ Needed(n) \in Nat
  BY <1>1, <1>3, NeededType DEF Fields
<1>8. Needed(n) = Needed(n - 1) + SizeOfField(n)
  BY <1>1, <1>3, NeededType DEF Fields
<1>9. SizeOfField(n) = IF Absent(n) THEN 0 ELSE 1 + LengthOf(n) + Prefix(n)
  BY DEF SizeOfField, SizeOf, Absent, LengthOf, Prefix, FieldOf
<1>10. ~ Absent(n) => Needed(n) = Needed(n - 1) + 1 + Prefix(n) + LengthOf(n)
  BY <1>5, <1>6, <1>7, <1>8, <1>9
<1>11. Absent(n) => Needed(n) = Needed(n - 1)
  BY <1>7, <1>8, <1>9
<1> QED BY <1>1, <1>3, <1>4, <1>5, <1>6, <1>7, <1>10, <1>11

LEMMA FieldsType ==
    ASSUME MarshalTypeOK
    PROVE  Fields \in 0 .. 2 /\ DOMAIN Schema[message] = 1 .. Fields /\ todo \in 0 .. Fields
BY SchemaLength DEF Fields, MarshalTypeOK

LEMMA NeededGrows ==
    ASSUME MarshalTypeOK, NEW m \in 0 .. Fields, NEW n \in 0 .. Fields, m =< n
    PROVE  Needed(m) =< Needed(n) /\ Needed(m) \in Nat /\ Needed(n) \in Nat
<1>0. PICK f \in 0 .. 2 : f = Fields
  BY FieldsType
<1>1. \A k \in 1 .. f : Needed(k - 1) \in Nat /\ Needed(k) \in Nat /\ Needed(k) >= Needed(k - 1)
  <2> SUFFICES ASSUME NEW k \in 1 .. f
               PROVE  Needed(k - 1) \in Nat /\ Needed(k) \in Nat /\ Needed(k) >= Needed(k - 1)
    OBVIOUS
  <2>1. k \in 1 .. Fields
    BY <1>0
  <2>2. /\ LengthOf(k) \in Nat /\ Prefix(k) \in Nat
        /\ Needed(k - 1) \in Nat /\ Needed(k) \in Nat
        /\ ~ Absent(k) => Needed(k) = Needed(k - 1) + 1 + Prefix(k) + LengthOf(k)
        /\ Absent(k) => Needed(k) = Needed(k - 1)
    BY <2>1, LayoutType
  <2> QED BY <2>2
<1>2. Needed(m) \in Nat /\ Needed(n) \in Nat
  BY NeededType DEF Fields
<1>3. m \in 0 .. f /\ n \in 0 .. f
  BY <1>0
<1>4. 1 \in 1 .. f => Needed(1) >= Needed(0) /\ Needed(0) \in Nat /\ Needed(1) \in Nat
  BY <1>1
<1>5. 2 \in 1 .. f => Needed(2) >= Needed(1) /\ Needed(1) \in Nat /\ Needed(2) \in Nat
  BY <1>1
<1>6. (m = 0 \/ m = 1 \/ m = 2) /\ (n = 0 \/ n = 1 \/ n = 2)
  BY <1>0, <1>3
<1> QED BY <1>0, <1>2, <1>3, <1>4, <1>5, <1>6

(* A field stays in a buffer that is written outside of it.                *)
LEMMA FieldKept ==
    ASSUME MarshalTypeOK, NEW n \in 1 .. Fields, NEW d, NEW e, ~ Absent(n), FieldIn(d, n),
           \A q \in Nat : q > Needed(n - 1) /\ q =< Needed(n) => e[q] = d[q]
    PROVE  FieldIn(e, n)
<1>1. /\ LengthOf(n) \in Nat /\ Prefix(n) \in Nat /\ Prefix(n) >= 1 /\ Needed(n - 1) \in Nat
      /\ Needed(n) = Needed(n - 1) + 1 + Prefix(n) + LengthOf(n)
  BY LayoutType
<1> DEFINE s == Needed(n - 1)
<1> HIDE DEF s
<1>2. TagIn(e, n)
  <2>1. s + 1 \in Nat /\ s + 1 > Needed(n - 1) /\ s + 1 =< Needed(n)
    BY <1>1 DEF s
  <2> QED BY <2>1 DEF s, FieldIn, TagIn
<1>3. LengthIn(e, n, Prefix(n))
  <2> SUFFICES ASSUME NEW j \in 0 .. Prefix(n) - 1
               PROVE  e[s + 2 + j] = VarintByte(LengthOf(n), j)
    BY DEF LengthIn, s
  <2>1. s + 2 + j \in Nat /\ s + 2 + j > Needed(n - 1) /\ s + 2 + j =< Needed(n)
    BY <1>1 DEF s
  <2>2. d[s + 2 + j] = VarintByte(LengthOf(n), j)
    BY DEF FieldIn, LengthIn, s
  <2> QED BY <2>1, <2>2
<1>4. ContentIn(e, n)
  <2> SUFFICES ASSUME NEW j \in 1 .. LengthOf(n)
               PROVE  e[s + 1 + Prefix(n) + j] = FieldOf(n)[j]
    BY DEF ContentIn, s
  <2> DEFINE q == s + 1 + Prefix(n) + j
  <2>1. q \in Nat /\ q > Needed(n - 1) /\ q =< Needed(n)
    BY <1>1 DEF s
  <2>2. d[q] = FieldOf(n)[j]
    BY DEF FieldIn, ContentIn, s
  <2> HIDE DEF q
  <2>3. e[q] = FieldOf(n)[j]
    BY <2>1, <2>2
  <2> QED BY <2>3 DEF q
<1> QED BY <1>2, <1>3, <1>4 DEF FieldIn

LEMMA FieldsKept ==
    ASSUME MarshalTypeOK, NEW k \in 0 .. Fields, NEW d, NEW e, FieldsIn(d, k),
           \A q \in Nat : q > Needed(k) /\ q =< Needed(Fields) => e[q] = d[q]
    PROVE  FieldsIn(e, k)
<1> SUFFICES ASSUME NEW n \in k + 1 .. Fields, ~ Absent(n)
             PROVE  FieldIn(e, n)
  BY DEF FieldsIn
<1>0. PICK f \in 0 .. 2 : f = Fields
  BY FieldsType
<1>1. n \in 1 .. Fields /\ n - 1 \in 0 .. Fields /\ k =< n - 1 /\ n =< Fields /\ n \in 0 .. Fields
      /\ Fields \in 0 .. Fields
  BY <1>0
<1>2. Needed(k) =< Needed(n - 1) /\ Needed(k) \in Nat /\ Needed(n - 1) \in Nat
  BY <1>1, NeededGrows
<1>3. Needed(n) =< Needed(Fields) /\ Needed(n) \in Nat /\ Needed(Fields) \in Nat
  BY <1>1, NeededGrows
<1>4. \A q \in Nat : q > Needed(n - 1) /\ q =< Needed(n) => e[q] = d[q]
  BY <1>2, <1>3
<1>5. FieldIn(d, n)
  BY DEF FieldsIn
<1> QED BY <1>1, <1>4, <1>5, FieldKept

(* What the operators above say depends on the message and its value only. *)
LEMMA LayoutKept ==
    ASSUME UNCHANGED <<message, value>>
    PROVE  /\ Fields' = Fields
           /\ \A n : Needed(n)' = Needed(n) /\ FieldOf(n)' = FieldOf(n) /\ Prefix(n)' = Prefix(n)
           /\ \A n : (Absent(n)' <=> Absent(n)) /\ LengthOf(n)' = LengthOf(n)
           /\ \A d, k : FieldsIn(d, k)' <=> FieldsIn(d, k)
<1>1. \A n : Needed(n)' = Needed(n)
  BY DEF Needed, SizeOfField
<1>2. \A n : FieldOf(n)' = FieldOf(n) /\ (Absent(n)' <=> Absent(n)) /\ LengthOf(n)' = LengthOf(n)
             /\ Prefix(n)' = Prefix(n)
  BY DEF FieldOf, Absent, LengthOf, Prefix
<1>3. Fields' = Fields
  BY DEF Fields
<1>4. \A d, n : FieldIn(d, n)' <=> FieldIn(d, n)
  BY DEF FieldIn, TagIn, LengthIn, ContentIn, Needed, SizeOfField, FieldOf, LengthOf, Prefix
<1>5. \A d, k : FieldsIn(d, k)' <=> FieldsIn(d, k)
  BY <1>2, <1>3, <1>4 DEF FieldsIn
<1> QED BY <1>1, <1>2, <1>3, <1>5

----------------------------------------------------------------------------
(* The steps of the encoder.                                               *)
LEMMA EncodedInitial == InitMarshal => Encoded
BY DEF InitMarshal, Encoded

LEMMA MakeBufferEncodes == MInv /\ Encoded /\ MakeBuffer => Encoded'
<1> SUFFICES ASSUME MInv, Encoded, MakeBuffer PROVE Encoded'
  OBVIOUS
<1>1. /\ pc' = "write" /\ todo' = Fields /\ limit' = Size(message, value)
      /\ UNCHANGED <<message, value>>
  BY DEF MakeBuffer, Fields
<1>2. limit' = Needed(Fields)
  BY <1>1, SizeIsNeeded DEF MInv, Fields
<1>3. Fields' = Fields /\ Needed(Fields)' = Needed(Fields)
  BY <1>1, LayoutKept
<1>4. Fields \in Nat
  BY FieldsType DEF MInv
<1>5. FieldsIn(data, todo)'
  <2>1. todo' + 1 .. Fields' = {}
    BY <1>1, <1>3, <1>4
  <2> QED BY <2>1 DEF FieldsIn
<1>6. (HasField(message, "string") \/ value = <<>>)'
  BY <1>1 DEF Encoded, HasField
<1> QED BY <1>1, <1>2, <1>3, <1>5, <1>6 DEF Encoded

LEMMA OmitFieldEncodes == MInv /\ Encoded /\ OmitField => Encoded'
<1> SUFFICES ASSUME MInv, Encoded, OmitField PROVE Encoded'
  OBVIOUS
<1>1. /\ pc = "write" /\ pc' = "write" /\ Absent(todo) /\ todo' = todo - 1
      /\ UNCHANGED <<message, value, limit, data>>
  BY DEF OmitField, Absent, Kind
<1>2. Fields' = Fields /\ Needed(Fields)' = Needed(Fields)
      /\ (FieldsIn(data, todo)' <=> FieldsIn(data, todo'))
  BY <1>1, LayoutKept
<1>3. FieldsIn(data, todo')
  <2>1. FieldsIn(data, todo) /\ todo \in Nat
    BY <1>1 DEF Encoded, MInv, MarshalTypeOK
  <2>2. \A n \in todo' + 1 .. Fields : n = todo \/ n \in todo + 1 .. Fields
    BY <1>1, <2>1
  <2> QED BY <1>1, <2>1, <2>2 DEF FieldsIn
<1>4. (HasField(message, "string") \/ value = <<>>)'
  BY <1>1 DEF Encoded, HasField
<1> QED BY <1>1, <1>2, <1>3, <1>4 DEF Encoded

(* The content is copied to behind the room for its length.                *)
LEMMA PutContentEncodes == MInv /\ Encoded /\ PutContent => Encoded'
<1> SUFFICES ASSUME MInv, Encoded, PutContent PROVE Encoded'
  OBVIOUS
<1>0. MarshalTypeOK /\ todo \in 1 .. Fields /\ todo \in 0 .. Fields
  <2>1. todo \in 0 .. Fields /\ todo > 0
    BY FieldsType DEF MInv, PutContent
  <2> QED BY <2>1, FieldsType DEF MInv
<1>1. /\ FieldOf(todo) \in Seq(Bytes) /\ LengthOf(todo) \in Nat
      /\ Prefix(todo) \in Nat /\ Prefix(todo) >= 1 /\ Needed(todo - 1) \in Nat
      /\ Needed(todo) = Needed(todo - 1) + 1 + Prefix(todo) + LengthOf(todo)
  BY <1>0, LayoutType DEF PutContent, Absent, Kind
<1>2. Field = FieldOf(todo) /\ Len(Field) = LengthOf(todo)
  BY DEF Field, Kind, FieldOf, LengthOf
<1>3. /\ i = Needed(todo) /\ i =< limit /\ limit =< Len(data) /\ limit = Needed(Fields)
      /\ FieldsIn(data, todo) /\ limit \in Nat /\ data \in Seq(Bytes)
  BY DEF PutContent, MInv, RoomIsExact, Encoded, MarshalTypeOK
<1>4. i' = Needed(todo - 1) + 1 + Prefix(todo) /\ i' \in Nat
  BY <1>1, <1>2, <1>3 DEF PutContent
<1>5. /\ data' = [p \in DOMAIN data |->
                     IF p - i' \in DOMAIN Field /\ p =< limit THEN Field[p - i'] ELSE data[p]]
      /\ pc' = "putVarint" /\ rest' = LengthOf(todo)
      /\ UNCHANGED <<message, value, limit, todo>>
  BY <1>2, <1>4 DEF PutContent
<1>6. DOMAIN data = 1 .. Len(data) /\ Len(data) \in Nat
      /\ DOMAIN Field = 1 .. LengthOf(todo)
  BY <1>1, <1>2, <1>3
<1>7. ContentIn(data', todo)
  <2> SUFFICES ASSUME NEW j \in 1 .. LengthOf(todo)
               PROVE  data'[Needed(todo - 1) + 1 + Prefix(todo) + j] = FieldOf(todo)[j]
    BY DEF ContentIn
  <2> DEFINE q == Needed(todo - 1) + 1 + Prefix(todo) + j
  <2>0. q = i' + j /\ q =< Needed(todo) /\ j \in Nat /\ j >= 1 /\ q \in Nat
    BY <1>1, <1>4
  <2>1. q \in 1 .. Len(data) /\ q - i' = j /\ q =< limit
    <3>1. /\ Needed(todo) =< limit /\ limit =< Len(data) /\ Len(data) \in Nat /\ limit \in Nat
          /\ Needed(todo) \in Nat /\ i' \in Nat
      <4>1. i \in Nat /\ i = Needed(todo)
        BY <1>1, <1>3
      <4>2. limit \in Nat /\ i =< limit /\ limit =< Len(data)
        BY <1>3
      <4> QED BY <1>4, <1>6, <4>1, <4>2
    <3> DEFINE b == i'
               n == Len(data)
    <3>2. b \in Nat /\ n \in Nat /\ limit =< n /\ Needed(todo) =< limit /\ q = b + j
          /\ Needed(todo) \in Nat /\ limit \in Nat /\ q =< Needed(todo)
      BY <2>0, <3>1
    <3> HIDE DEF q, b, n
    <3>3. q - b = j /\ q =< limit /\ q =< n /\ q >= 1
      <4>1. q =< limit /\ q =< n
        BY <2>0, <3>2
      <4>2. q - b = j
        BY <2>0, <3>2
      <4>3. q >= 1
        BY <2>0, <3>2
      <4> QED BY <4>1, <4>2, <4>3
    <3>4. q \in 1 .. n
      BY <2>0, <3>2, <3>3
    <3> QED BY <3>3, <3>4 DEF b, n
  <2> HIDE DEF q
  <2>2. data'[q] = Field[j]
    BY <1>5, <1>6, <2>1
  <2> QED BY <1>2, <2>2 DEF q
<1>8. FieldsIn(data', todo)
  <2>1. \A q \in Nat : q > Needed(todo) /\ q =< Needed(Fields) => data'[q] = data[q]
    <3> SUFFICES ASSUME NEW q \in Nat, q > Needed(todo), q =< Needed(Fields)
                 PROVE  data'[q] = data[q]
      OBVIOUS
    <3>1. q \in DOMAIN data /\ q - i' \notin DOMAIN Field
      BY <1>1, <1>3, <1>4, <1>6
    <3> QED BY <1>5, <3>1
  <2> QED BY <1>0, <1>3, <2>1, FieldsKept
<1>9. /\ Fields' = Fields /\ Needed(Fields)' = Needed(Fields)
      /\ (FieldsIn(data, todo)' <=> FieldsIn(data', todo))
  BY <1>5, LayoutKept
<1>10. Prefix(todo)' = Prefix(todo) /\ LengthOf(todo)' = LengthOf(todo)
       /\ (ContentIn(data, todo)' <=> ContentIn(data', todo))
  BY <1>5 DEF Prefix, LengthOf, FieldOf, ContentIn, Needed, SizeOfField
<1>11. LET k == Prefix(todo) - Sov(rest)
       IN  (LengthIn(data, todo, k) /\ rest = Rest(LengthOf(todo), k))'
  <2>1. (Prefix(todo) - Sov(rest))' = 0
    BY <1>1, <1>5, <1>10 DEF Prefix
  <2>2. Rest(LengthOf(todo), 0) = LengthOf(todo)
    BY <1>1, RestFacts
  <2>3. Rest(LengthOf(todo)', 0) = rest'
    BY <1>5, <1>10, <2>2
  <2>4. LengthIn(data, todo, Prefix(todo) - Sov(rest))'
    <3>1. 0 .. 0 - 1 = {}
      OBVIOUS
    <3> QED BY <2>1, <3>1 DEF LengthIn
  <2>5. (rest = Rest(LengthOf(todo), Prefix(todo) - Sov(rest)))'
    BY <2>1, <2>3 DEF Rest
  <2> QED BY <2>4, <2>5
<1>12. (HasField(message, "string") \/ value = <<>>)'
  BY <1>5 DEF Encoded, HasField
<1> QED BY <1>3, <1>5, <1>7, <1>8, <1>9, <1>10, <1>11, <1>12 DEF Encoded

(* A write in front of i leaves what lies behind i.                        *)
LEMMA PutKeeps ==
    ASSUME NEW p \in Nat, p < limit, limit =< Len(data), limit \in Nat, data \in Seq(Bytes),
           NEW b, NEW next, Put(p, b, next)
    PROVE  /\ data'[p + 1] = b /\ pc' = next
           /\ \A q \in Nat : q # p + 1 => data'[q] = data[q]
<1>1. data' = [data EXCEPT ![p + 1] = b] /\ pc' = next
  BY DEF Put
<1>2. p + 1 \in DOMAIN data
  OBVIOUS
<1> QED BY <1>1, <1>2

(* The next byte of the length goes behind those that are written.         *)
LEMMA PutVarintByteEncodes == MInv /\ Encoded /\ (PutVarintByte \/ PutLastByte) => Encoded'
<1> SUFFICES ASSUME MInv, Encoded, PutVarintByte \/ PutLastByte PROVE Encoded'
  OBVIOUS
<1> DEFINE k == Prefix(todo) - Sov(rest)
           s == Needed(todo - 1)
<1>0. /\ MarshalTypeOK /\ todo \in 1 .. Fields /\ todo \in 0 .. Fields /\ pc = "putVarint"
      /\ rest \in Nat
  <2>1. todo \in 0 .. Fields /\ todo > 0 /\ pc = "putVarint" /\ rest \in Nat
    BY FieldsType DEF MInv, RoomIsExact, PutVarintByte, PutLastByte, MarshalTypeOK
  <2> QED BY <2>1, FieldsType DEF MInv
<1>1. /\ FieldOf(todo) \in Seq(Bytes) /\ LengthOf(todo) \in Nat
      /\ Prefix(todo) \in Nat /\ Prefix(todo) >= 1 /\ s \in Nat /\ Needed(todo) \in Nat
      /\ Needed(todo) = s + 1 + Prefix(todo) + LengthOf(todo)
  BY <1>0, LayoutType DEF MInv, RoomIsExact, Absent, Kind
<1>2. /\ offset \in Nat /\ offset < i /\ i =< limit /\ i \in Nat
      /\ limit =< Len(data) /\ limit \in Nat /\ data \in Seq(Bytes)
  BY <1>0, VarintInside
<1>3. i = s + 1 + Prefix(todo) /\ offset + Sov(rest) = i /\ Sov(rest) \in Nat /\ Sov(rest) >= 1
      /\ offset > s
  BY <1>0, SovType DEF MInv, RoomIsExact, Prefix, LengthOf, FieldOf, Field, Kind
<1>4. /\ FieldsIn(data, todo) /\ limit = Needed(Fields) /\ ContentIn(data, todo)
      /\ LengthIn(data, todo, k) /\ rest = Rest(LengthOf(todo), k)
  BY <1>0 DEF Encoded
<1>5. k \in Nat /\ offset = s + 1 + k /\ k + 1 \in Nat /\ (k + 1 < Prefix(todo) <=> Sov(rest) > 1)
      /\ k + 1 =< Prefix(todo)
  <2>1. s \in Nat /\ offset >= s + 1 /\ k \in Int /\ offset = s + 1 + k
    <3> DEFINE p == Prefix(todo)
               r == Sov(rest)
    <3>1. /\ s \in Nat /\ p \in Nat /\ r \in Nat /\ offset \in Nat /\ i \in Nat /\ offset > s
          /\ i = s + 1 + p /\ offset + r = i
      BY <1>1, <1>2, <1>3
    <3>2. k = p - r
      OBVIOUS
    <3> HIDE DEF s, p, r, k
    <3> QED BY <3>1, <3>2
  <2> HIDE DEF s, k
  <2>2. k \in Nat /\ k + 1 \in Nat
    BY <1>2, <2>1
  <2>3. (k + 1 < Prefix(todo) <=> Sov(rest) > 1) /\ k + 1 =< Prefix(todo)
    BY <1>1, <1>3 DEF k
  <2> QED BY <2>1, <2>2, <2>3
<1> HIDE DEF s
<1>6. UNCHANGED <<message, value, limit, todo>>
  BY DEF PutVarintByte, PutLastByte
<1>7. \E b, next : /\ Put(offset, b, next) /\ b = VarintByte(LengthOf(todo), k)
                   /\ next = IF PutVarintByte THEN "putVarint" ELSE "putTag"
                   /\ IF PutVarintByte
                      THEN Sov(rest') = Sov(rest) - 1 /\ rest' = Rest(LengthOf(todo), k + 1)
                      ELSE k + 1 = Prefix(todo)
  <2>1. rest % Cont = VarintByte(LengthOf(todo), k) - (IF Sov(rest) > 1 THEN Cont ELSE 0)
        /\ rest % Cont \in 0 .. Cont - 1
    <3>1. rest % Cont \in 0 .. Cont - 1
      BY <1>0, Quotient
    <3>2. VarintByte(LengthOf(todo), k) = (rest % Cont) + (IF Sov(rest) > 1 THEN Cont ELSE 0)
      <4> HIDE DEF k
      <4> QED BY <1>4, <1>5 DEF VarintByte, Prefix
    <3> DEFINE r == rest % Cont
               b == VarintByte(LengthOf(todo), k)
    <3> HIDE DEF r, b
    <3>3. r \in 0 .. Cont - 1 /\ b = r + (IF Sov(rest) > 1 THEN Cont ELSE 0)
      BY <3>1, <3>2 DEF r, b
    <3>4. r = b - (IF Sov(rest) > 1 THEN Cont ELSE 0)
      BY <3>3, ContAssumption
    <3> QED BY <3>1, <3>4 DEF r, b
  <2>2. IF rest < Cont THEN Sov(rest) = 1 ELSE Sov(rest \div Cont) = Sov(rest) - 1
    BY <1>0, SovShift
  <2>3. CASE PutVarintByte
    <3>1. rest >= Cont /\ Put(offset, (rest % Cont) + Cont, "putVarint") /\ rest' = rest \div Cont
      BY <2>3 DEF PutVarintByte
    <3>2. Sov(rest \div Cont) = Sov(rest) - 1 /\ Sov(rest) > 1
      <4>1. rest \div Cont \in Nat
        BY <1>0, Quotient
      <4>2. Sov(rest \div Cont) = Sov(rest) - 1
        BY <1>0, <2>2, <3>1, ContAssumption
      <4>3. Sov(rest \div Cont) >= 1 /\ Sov(rest \div Cont) \in Nat
        BY <4>1, SovType
      <4> QED BY <1>3, <4>2, <4>3
    <3>3. (rest % Cont) + Cont = VarintByte(LengthOf(todo), k)
      <4>1. VarintByte(LengthOf(todo), k) \in Bytes
        BY <1>1, <1>5, ByteFacts
      <4> DEFINE r == rest % Cont
                 b == VarintByte(LengthOf(todo), k)
      <4> HIDE DEF r, b
      <4>2. r = b - Cont /\ b \in Int /\ Cont \in Int
        BY <2>1, <3>2, <4>1, ContAssumption DEF r, b, Bytes
      <4>3. r + Cont = b
        BY <4>2
      <4> QED BY <4>3 DEF r, b
    <3>4. rest' = Rest(LengthOf(todo), k + 1)
      <4> HIDE DEF k
      <4> QED BY <1>1, <1>4, <1>5, <3>1, RestFacts
    <3>5. Sov(rest') = Sov(rest) - 1
      BY <3>1, <3>2
    <3> QED BY <2>3, <3>1, <3>3, <3>4, <3>5
  <2>4. CASE ~ PutVarintByte
    <3>1. rest < Cont /\ Put(offset, rest, "putTag")
      BY <2>4 DEF PutLastByte
    <3>2. Sov(rest) = 1
      BY <2>2, <3>1
    <3>3. rest = VarintByte(LengthOf(todo), k)
      <4>1. VarintByte(LengthOf(todo), k) \in Bytes
        BY <1>1, <1>5, ByteFacts
      <4>2. rest % Cont = rest
        <5>1. rest = Cont * 0 + rest
          BY <1>0, ContAssumption
        <5>2. rest \div Cont = 0
          BY <1>0, <3>1, <5>1, ContAssumption, DivisionIs
        <5>3. rest = Cont * (rest \div Cont) + (rest % Cont) /\ rest % Cont \in 0 .. Cont - 1
          BY <1>0, ContAssumption, Division
        <5> QED BY <1>0, <5>2, <5>3, ContAssumption
      <4> DEFINE b == VarintByte(LengthOf(todo), k)
      <4> HIDE DEF b
      <4>3. rest % Cont = b - 0 /\ b \in Int
        BY <2>1, <3>2, <4>1, ContAssumption DEF b, Bytes
      <4>4. rest = b
        BY <4>2, <4>3
      <4> QED BY <4>4 DEF b
    <3>4. k + 1 = Prefix(todo)
      BY <1>1, <3>2
    <3> QED BY <2>4, <3>1, <3>3, <3>4
  <2> QED BY <2>3, <2>4
<1>8. PICK b, next : /\ Put(offset, b, next) /\ b = VarintByte(LengthOf(todo), k)
                     /\ next = IF PutVarintByte THEN "putVarint" ELSE "putTag"
                     /\ IF PutVarintByte
                        THEN Sov(rest') = Sov(rest) - 1 /\ rest' = Rest(LengthOf(todo), k + 1)
                        ELSE k + 1 = Prefix(todo)
  BY <1>7
<1> HIDE DEF k
<1>9. /\ data'[offset + 1] = b /\ pc' = next
      /\ \A q \in Nat : q # offset + 1 => data'[q] = data[q]
  <2>1. offset < limit
    BY <1>2
  <2> QED BY <1>2, <1>8, <2>1, PutKeeps
<1>10. LengthIn(data', todo, k + 1)
  <2> SUFFICES ASSUME NEW j \in 0 .. (k + 1) - 1
               PROVE  data'[s + 2 + j] = VarintByte(LengthOf(todo), j)
    BY DEF LengthIn, s
  <2>1. CASE j = k
    <3>1. s + 2 + j = offset + 1
      BY <1>1, <1>5, <2>1
    <3> QED BY <1>8, <1>9, <2>1, <3>1
  <2>2. CASE j \in 0 .. k - 1
    <3>1. s + 2 + j \in Nat /\ s + 2 + j # offset + 1
      BY <1>1, <1>5, <2>2
    <3>2. data[s + 2 + j] = VarintByte(LengthOf(todo), j)
      BY <1>4, <2>2 DEF LengthIn, s
    <3> QED BY <1>9, <3>1, <3>2
  <2> QED BY <1>5, <2>1, <2>2
<1>11. ContentIn(data', todo)
  <2> SUFFICES ASSUME NEW j \in 1 .. LengthOf(todo)
               PROVE  data'[s + 1 + Prefix(todo) + j] = FieldOf(todo)[j]
    BY DEF ContentIn, s
  <2> DEFINE q == s + 1 + Prefix(todo) + j
  <2>1. q \in Nat /\ q # offset + 1
    BY <1>1, <1>5
  <2>2. data[q] = FieldOf(todo)[j]
    BY <1>4 DEF ContentIn, s
  <2> HIDE DEF q
  <2>3. data'[q] = FieldOf(todo)[j]
    BY <1>9, <2>1, <2>2
  <2> QED BY <2>3 DEF q
<1>12. FieldsIn(data', todo)
  <2>1. \A q \in Nat : q > Needed(todo) /\ q =< Needed(Fields) => data'[q] = data[q]
    BY <1>1, <1>5, <1>9
  <2> QED BY <1>0, <1>4, <2>1, FieldsKept
<1>13. /\ Fields' = Fields /\ Needed(Fields)' = Needed(Fields)
       /\ (FieldsIn(data, todo)' <=> FieldsIn(data', todo))
       /\ Prefix(todo)' = Prefix(todo) /\ LengthOf(todo)' = LengthOf(todo)
  <2>1. /\ Fields' = Fields /\ Needed(Fields)' = Needed(Fields)
        /\ (FieldsIn(data, todo)' <=> FieldsIn(data', todo))
    BY <1>6, LayoutKept
  <2>2. Prefix(todo)' = Prefix(todo) /\ LengthOf(todo)' = LengthOf(todo)
    BY <1>6 DEF Prefix, LengthOf, FieldOf
  <2> QED BY <2>1, <2>2
<1>14. ContentIn(data, todo)'
  BY <1>6, <1>11 DEF Prefix, LengthOf, FieldOf, ContentIn, Needed, SizeOfField
<1>16. (HasField(message, "string") \/ value = <<>>)'
  BY <1>6 DEF Encoded, HasField
<1>17. CASE PutVarintByte
  <2>1. (Prefix(todo) - Sov(rest))' = k + 1
    BY <1>1, <1>3, <1>8, <1>13, <1>17 DEF k
  <2>3. LengthIn(data, todo, Prefix(todo) - Sov(rest))'
    BY <1>6, <1>10, <2>1 DEF LengthIn, LengthOf, FieldOf, Needed, SizeOfField
  <2>4. (rest = Rest(LengthOf(todo), Prefix(todo) - Sov(rest)))'
    BY <1>8, <1>13, <1>17, <2>1 DEF Rest
  <2>5. pc' = "putVarint"
    BY <1>8, <1>9, <1>17
  <2> QED BY <1>4, <1>6, <1>12, <1>13, <1>14, <1>16, <2>3, <2>4, <2>5 DEF Encoded
<1>18. CASE ~ PutVarintByte
  <2>1. k + 1 = Prefix(todo) /\ pc' = "putTag"
    BY <1>8, <1>9, <1>18
  <2>2. LengthIn(data, todo, Prefix(todo))'
    BY <1>6, <1>10, <1>13, <2>1 DEF LengthIn, LengthOf, FieldOf, Needed, SizeOfField
  <2>3. ~ Absent(todo)'
    BY <1>0, <1>6, LayoutKept DEF MInv, RoomIsExact, Absent, Kind
  <2> QED BY <1>4, <1>6, <1>12, <1>13, <1>14, <1>16, <2>1, <2>2, <2>3 DEF Encoded
<1> QED BY <1>17, <1>18

LEMMA PutTagEncodes == MInv /\ Encoded /\ PutTag => Encoded'
<1> SUFFICES ASSUME MInv, Encoded, PutTag PROVE Encoded'
  OBVIOUS
<1> DEFINE s == Needed(todo - 1)
<1>0. MarshalTypeOK /\ todo \in 1 .. Fields /\ pc = "putTag" /\ todo - 1 \in 0 .. Fields
      /\ todo \in Nat
  <2>1. todo \in 0 .. Fields /\ todo > 0 /\ pc = "putTag" /\ Fields \in 0 .. 2
    BY FieldsType DEF MInv, RoomIsExact, PutTag
  <2>2. todo \in 1 .. Fields /\ todo - 1 \in 0 .. Fields /\ todo \in Nat
    BY <2>1
  <2> QED BY <2>1, <2>2 DEF MInv
<1>1. /\ s \in Nat /\ Prefix(todo) \in Nat /\ LengthOf(todo) \in Nat /\ Needed(todo) \in Nat
      /\ i = s + 1 /\ i =< limit /\ limit =< Len(data) /\ limit \in Nat /\ data \in Seq(Bytes)
  BY <1>0, LayoutType DEF MInv, RoomIsExact, MarshalTypeOK
<1>2. /\ FieldsIn(data, todo) /\ limit = Needed(Fields) /\ ContentIn(data, todo)
      /\ LengthIn(data, todo, Prefix(todo)) /\ ~ Absent(todo)
  BY <1>0 DEF Encoded
<1>3. /\ i' = i - 1 /\ todo' = todo - 1 /\ Put(i', Tag(todo), "write")
      /\ UNCHANGED <<message, value, limit>>
  BY DEF PutTag
<1> HIDE DEF s
<1>4. data'[s + 1] = Tag(todo) /\ pc' = "write" /\ \A q \in Nat : q # s + 1 => data'[q] = data[q]
  <2>1. i' = s /\ i' \in Nat /\ i' < limit
    BY <1>1, <1>3
  <2>2. data'[i' + 1] = Tag(todo) /\ pc' = "write"
        /\ \A q \in Nat : q # i' + 1 => data'[q] = data[q]
    BY <1>1, <1>3, <2>1, PutKeeps
  <2> QED BY <2>1, <2>2
<1>5. FieldIn(data', todo)
  <2>1. TagIn(data', todo)
    BY <1>4 DEF TagIn, s
  <2>2. LengthIn(data', todo, Prefix(todo))
    <3> SUFFICES ASSUME NEW j \in 0 .. Prefix(todo) - 1
                 PROVE  data'[s + 2 + j] = VarintByte(LengthOf(todo), j)
      BY DEF LengthIn, s
    <3>1. data[s + 2 + j] = VarintByte(LengthOf(todo), j)
      BY <1>2 DEF LengthIn, s
    <3>2. s + 2 + j \in Nat /\ s + 2 + j # s + 1
      BY <1>1
    <3> QED BY <1>4, <3>1, <3>2
  <2>3. ContentIn(data', todo)
    <3> SUFFICES ASSUME NEW j \in 1 .. LengthOf(todo)
                 PROVE  data'[s + 1 + Prefix(todo) + j] = FieldOf(todo)[j]
      BY DEF ContentIn, s
    <3> DEFINE q == s + 1 + Prefix(todo) + j
    <3>1. data[q] = FieldOf(todo)[j]
      BY <1>2 DEF ContentIn, s
    <3>2. q \in Nat /\ q # s + 1
      BY <1>1
    <3> HIDE DEF q
    <3>3. data'[q] = FieldOf(todo)[j]
      BY <1>4, <3>1, <3>2
    <3> QED BY <3>3 DEF q
  <2> QED BY <2>1, <2>2, <2>3 DEF FieldIn
<1>6. FieldsIn(data', todo)
  <2>1. Needed(todo) = s + 1 + Prefix(todo) + LengthOf(todo)
    BY <1>0, <1>2, LayoutType DEF s
  <2>2. \A q \in Nat : q > Needed(todo) /\ q =< Needed(Fields) => data'[q] = data[q]
    BY <1>1, <1>4, <2>1
  <2>3. todo \in 0 .. Fields
    BY <1>0, FieldsType
  <2> QED BY <1>0, <1>2, <2>2, <2>3, FieldsKept
<1>7. FieldsIn(data', todo')
  <2>1. \A n \in todo' + 1 .. Fields : n = todo \/ n \in todo + 1 .. Fields
    BY <1>0, <1>3
  <2> QED BY <1>5, <1>6, <2>1 DEF FieldsIn
<1>8. /\ Fields' = Fields /\ Needed(Fields)' = Needed(Fields)
      /\ (FieldsIn(data, todo)' <=> FieldsIn(data', todo'))
  BY <1>3, LayoutKept
<1>9. (HasField(message, "string") \/ value = <<>>)'
  BY <1>3 DEF Encoded, HasField
<1> QED BY <1>2, <1>3, <1>4, <1>7, <1>8, <1>9 DEF Encoded

(* What the callers take is what was written, from the first field on.     *)
LEMMA ReturnEncodes == MInv /\ Encoded /\ Return => Encoded'
<1> SUFFICES ASSUME MInv, Encoded, Return PROVE Encoded'
  OBVIOUS
<1>1. /\ i = Needed(0) /\ limit =< Len(data) /\ limit \in Nat /\ data \in Seq(Bytes)
      /\ FieldsIn(data, 0) /\ limit = Needed(Fields) /\ MarshalTypeOK
  BY DEF Return, MInv, RoomIsExact, MarshalTypeOK, Encoded
<1>2. i = 0
  BY <1>1 DEF Needed
<1>3. data' = SubSeq(data, 1, limit) /\ pc' = "returned" /\ UNCHANGED <<message, value>>
  BY <1>1, <1>2 DEF Return
<1>4. Len(data') = limit /\ \A q \in 1 .. limit : data'[q] = data[q]
  BY <1>1, <1>3, SubSeqProperties
<1>5. FieldsIn(data', 0)
  <2>1. \A q \in Nat : q > Needed(0) /\ q =< Needed(Fields) => data'[q] = data[q]
    BY <1>1, <1>2, <1>4
  <2>2. 0 \in 0 .. Fields
    BY <1>1, FieldsType
  <2> QED BY <1>1, <2>1, <2>2, FieldsKept
<1>6. /\ Fields' = Fields /\ Needed(Fields)' = Needed(Fields)
      /\ (FieldsIn(data, 0)' <=> FieldsIn(data', 0))
  BY <1>3, LayoutKept
<1>7. (HasField(message, "string") \/ value = <<>>)'
  BY <1>3 DEF Encoded, HasField
<1> QED BY <1>1, <1>3, <1>4, <1>5, <1>6, <1>7 DEF Encoded

(* The encoder writes what it was given, from the last field to the first. *)
LEMMA EncodedStep == MInv /\ Encoded /\ Marshal => Encoded'
BY MakeBufferEncodes, OmitFieldEncodes, PutContentEncodes, PutVarintByteEncodes, PutTagEncodes,
   ReturnEncodes DEF Marshal

----------------------------------------------------------------------------
(* A recursive function exists: F[n][f], its value for n, depends only on  *)
(* what f is below n.                                                      *)
Recursive(F, N, D) ==
    /\ F \in [0 .. N -> [[0 .. N -> D] -> D]]
    /\ \A n \in 0 .. N, f, g \in [0 .. N -> D] :
           (\A k \in 0 .. n - 1 : f[k] = g[k]) => F[n][f] = F[n][g]

Exists(F, N, D) == \E f \in [0 .. N -> D] : \A n \in 0 .. N : f[n] = F[n][f]

LEMMA Recursion ==
    ASSUME NEW N \in Nat, NEW D, NEW d \in D, NEW F, Recursive(F, N, D)
    PROVE  Exists(F, N, D)
<1>0. /\ F \in [0 .. N -> [[0 .. N -> D] -> D]]
      /\ \A n \in 0 .. N, f, g \in [0 .. N -> D] :
             (\A k \in 0 .. n - 1 : f[k] = g[k]) => F[n][f] = F[n][g]
  BY DEF Recursive
<1> DEFINE Right(f, m) == \A n \in 0 .. N : n < m => f[n] = F[n][f]
           T == {m \in Nat : \E f \in [0 .. N -> D] : Right(f, m)}
<1>1. 0 \in T
  <2>1. [n \in 0 .. N |-> d] \in [0 .. N -> D]
    OBVIOUS
  <2>2. Right([n \in 0 .. N |-> d], 0)
    BY SMT
  <2> HIDE DEF Right
  <2> QED BY <2>1, <2>2
<1>2. ASSUME NEW m \in Nat, m \in T PROVE m + 1 \in T
  <2>1. PICK f \in [0 .. N -> D] : Right(f, m)
    BY <1>2
  <2>2. CASE m \in 0 .. N
    <3> DEFINE g == [f EXCEPT ![m] = F[m][f]]
    <3>1. g \in [0 .. N -> D] /\ (\A k \in 0 .. N : k # m => g[k] = f[k]) /\ g[m] = F[m][f]
      BY <1>0, <2>2
    <3> HIDE DEF g
    <3>2. ASSUME NEW n \in 0 .. N, n < m + 1 PROVE g[n] = F[n][g]
      <4>1. F[n][g] = F[n][f]
        <5>1. \A k \in 0 .. n - 1 : g[k] = f[k]
          BY <2>2, <3>1, <3>2
        <5> QED BY <1>0, <3>1, <5>1
      <4>2. CASE n = m
        BY <3>1, <4>1, <4>2
      <4>3. CASE n < m
        BY <2>1, <3>1, <4>1, <4>3
      <4> QED BY <2>2, <3>2, <4>2, <4>3
    <3>3. Right(g, m + 1)
      BY <3>2
    <3> HIDE DEF Right
    <3> QED BY <3>1, <3>3
  <2>3. CASE m \notin 0 .. N
    <3>1. Right(f, m + 1)
      BY <2>1, <2>3
    <3> HIDE DEF Right
    <3> QED BY <3>1
  <2> QED BY <2>2, <2>3
<1>3. N + 1 \in T
  <2> HIDE DEF T
  <2> QED BY <1>1, <1>2, Induct
<1>4. PICK f \in [0 .. N -> D] : Right(f, N + 1)
  BY <1>3
<1>5. \A n \in 0 .. N : f[n] = F[n][f]
  BY <1>4
<1> QED BY <1>5 DEF Exists

----------------------------------------------------------------------------
(* Varints.                                                               *)
LEMMA MinIs ==
    ASSUME NEW S, NEW x \in S, S \subseteq Int, \A y \in S : x =< y
    PROVE  Min(S) = x
<1>1. \E z \in S : \A y \in S : z =< y
  OBVIOUS
<1>2. Min(S) \in S /\ \A y \in S : Min(S) =< y
  <2> DEFINE m == CHOOSE z \in S : \A y \in S : z =< y
  <2>1. m \in S /\ \A y \in S : m =< y
    BY <1>1
  <2> QED BY <2>1 DEF Min
<1> DEFINE m == Min(S)
<1>3. m \in Int /\ x \in Int /\ m =< x /\ x =< m
  BY <1>2
<1> HIDE DEF m
<1>4. m = x
  BY <1>3
<1> QED BY <1>4 DEF m

LEMMA VarintEnds ==
    ASSUME NEW s \in Seq(Bytes), NEW p \in Nat, NEW q \in p .. Len(s) - 1,
           s[q + 1] < Cont, \A r \in p + 1 .. q : s[r] >= Cont
    PROVE  LastBytes(s, p) # {} /\ BehindVarint(s, p) = q + 1
<1>1. q \in LastBytes(s, p) /\ LastBytes(s, p) \subseteq Int /\ q \in Nat
  BY DEF LastBytes
<1>2. \A y \in LastBytes(s, p) : q =< y
  <2> SUFFICES ASSUME NEW y \in LastBytes(s, p), y < q PROVE FALSE
    BY <1>1
  <2>1. y \in p .. Len(s) - 1 /\ s[y + 1] < Cont
    BY DEF LastBytes
  <2>2. y + 1 \in p + 1 .. q
    BY <2>1
  <2>3. s[y + 1] >= Cont /\ s[y + 1] \in Bytes
    BY <2>1, <2>2
  <2> QED BY <2>1, <2>3, ContAssumption DEF Bytes
<1>3. Min(LastBytes(s, p)) = q
  BY <1>1, <1>2, MinIs
<1> QED BY <1>1, <1>3 DEF BehindVarint

LEMMA VarintLies ==
    ASSUME NEW s \in Seq(Bytes), NEW p \in Nat, HasVarint(s, p)
    PROVE  /\ BehindVarint(s, p) \in p + 1 .. Len(s) /\ BehindVarint(s, p) \in Nat
           /\ BehindVarint(s, p) - p =< Sov(Modulus - 1)
           /\ s[BehindVarint(s, p)] < Cont
           /\ \A r \in p + 1 .. BehindVarint(s, p) - 1 : s[r] >= Cont
<1> DEFINE T == LastBytes(s, p)
<1>1. T \subseteq Nat /\ T # {}
  BY DEF LastBytes, HasVarint
<1>2. PICK q \in T : \A y \in T : q =< y
  BY <1>1, LeastNumber
<1>3. Min(T) = q
  <2>1. T \subseteq Int
    BY <1>1
  <2> HIDE DEF T
  <2> QED BY <1>2, <2>1, MinIs
<1>4. q \in p .. Len(s) - 1 /\ s[q + 1] < Cont
  BY <1>2 DEF LastBytes
<1>5. ASSUME NEW r \in p + 1 .. q PROVE s[r] >= Cont
  <2>1. r - 1 \in p .. Len(s) - 1 /\ r - 1 < q /\ (r - 1) + 1 = r
    BY <1>4
  <2>2. r - 1 \notin T
    <3> SUFFICES ASSUME r - 1 \in T PROVE FALSE
      OBVIOUS
    <3> HIDE DEF T
    <3>1. q =< r - 1 /\ q \in Nat
      BY <1>1, <1>2
    <3> QED BY <2>1, <3>1
  <2>3. ~ (s[r] < Cont)
    BY <2>1, <2>2 DEF LastBytes
  <2>4. s[r] \in Bytes
    BY <1>4
  <2> QED BY <2>3, <2>4, ContAssumption DEF Bytes
<1>6. BehindVarint(s, p) = q + 1
  BY <1>3 DEF BehindVarint
<1>7. BehindVarint(s, p) - p =< Sov(Modulus - 1)
  BY DEF HasVarint
<1> QED BY <1>4, <1>5, <1>6, <1>7

(* The loop gives up where no varint ends that begins at p.               *)
LEMMA VarintBehind ==
    ASSUME NEW s \in Seq(Bytes), NEW p \in Nat, NEW q \in Nat, HasVarint(s, p),
           \A r \in p + 1 .. q : s[r] >= Cont
    PROVE  q < BehindVarint(s, p)
<1> DEFINE b == BehindVarint(s, p)
<1>1. b \in p + 1 .. Len(s) /\ s[b] < Cont
  BY VarintLies
<1> HIDE DEF b
<1>2. s[b] \in Bytes
  BY <1>1
<1>3. ~ (b \in p + 1 .. q)
  <2> SUFFICES ASSUME b \in p + 1 .. q PROVE FALSE
    OBVIOUS
  <2>1. s[b] >= Cont
    OBVIOUS
  <2> QED BY <1>1, <1>2, <2>1, ContAssumption DEF Bytes
<1>4. q < b
  BY <1>1, <1>3
<1> QED BY <1>4 DEF b

(* Powers below the modulus are those of the bytes of a word.             *)
LEMMA WordBytes ==
    ASSUME NEW k \in Nat
    PROVE  Power[k] < Modulus <=> k < Sov(Modulus - 1)
<1> DEFINE w == Modulus - 1
           n == Sov(w)
<1>1. w \in Nat /\ Modulus = w + 1 /\ w >= 1 /\ Modulus \in Nat
  BY IntLimitAssumption DEF Modulus
<1> HIDE DEF w
<1>2. n \in Nat /\ n >= 1 /\ w < Power[n] /\ (n = 1 \/ w >= Power[n - 1])
  BY <1>1, SovFits
<1> HIDE DEF n
<1>3. Power[k] \in Nat /\ Power[n] \in Nat
  BY <1>2, PowerFacts
<1>4. ASSUME k < n PROVE Power[k] < Modulus
  <2>1. n - 1 \in Nat /\ k =< n - 1
    BY <1>2, <1>4
  <2>2. Power[k] =< Power[n - 1] /\ Power[n - 1] \in Nat
    BY <2>1, PowerGrows, PowerFacts
  <2>3. CASE n = 1
    <3>1. k = 0 /\ Power[k] = 1
      BY <2>1, <2>3, PowerFacts
    <3> QED BY <1>1, <3>1
  <2>4. CASE w >= Power[n - 1]
    BY <1>1, <1>3, <2>2, <2>4
  <2> QED BY <1>2, <2>3, <2>4
<1>5. ASSUME ~ (k < n) PROVE ~ (Power[k] < Modulus)
  <2>1. Power[n] =< Power[k]
    BY <1>2, <1>5, PowerGrows
  <2> QED BY <1>1, <1>2, <1>3, <2>1
<1> QED BY <1>4, <1>5 DEF n, w

ByteFrom(s, n) == s[Len(s) - n + 1]

LEMMA NumbersUnfold ==
    ASSUME NEW s \in Seq(Bytes)
    PROVE  \A n \in 0 .. Len(s) :
               /\ Numbers(s)[n] \in Nat
               /\ Numbers(s)[n] =
                      IF n = 0 THEN 0
                      ELSE (ByteFrom(s, n) % Cont)
                           + (IF ByteFrom(s, n) < Cont THEN 0 ELSE Cont * Numbers(s)[n - 1])
<1> DEFINE N == Len(s)
           D == [0 .. N -> Nat]
           Turn(f, n) == IF n = 0 THEN 0
                         ELSE (ByteFrom(s, n) % Cont)
                              + (IF ByteFrom(s, n) < Cont THEN 0 ELSE Cont * f[n - 1])
           F == [n \in 0 .. N |-> [f \in D |-> Turn(f, n)]]
<1>1. N \in Nat
  OBVIOUS
<1>2. ASSUME NEW n \in 0 .. N, NEW f \in D PROVE Turn(f, n) \in Nat
  <2>1. CASE n = 0
    BY <2>1
  <2>2. CASE n # 0
    <3> DEFINE b == ByteFrom(s, n)
               x == f[n - 1]
    <3>1. b \in Bytes
      <4>1. N - n + 1 \in 1 .. N
        BY <1>1, <2>2
      <4> QED BY <4>1 DEF ByteFrom
    <3>2. n - 1 \in 0 .. N
      BY <1>1, <2>2
    <3>3. x \in Nat
      BY <3>2
    <3>4. b \in Nat
      BY <3>1, ContAssumption DEF Bytes
    <3> HIDE DEF b, x
    <3>5. b % Cont \in Nat
      BY <3>4, ContAssumption
    <3>6. Cont * x \in Nat
      BY <3>3, ContAssumption
    <3>7. (b % Cont) + (IF b < Cont THEN 0 ELSE Cont * x) \in Nat
      BY <3>5, <3>6
    <3> QED BY <2>2, <3>7 DEF b, x
  <2> QED BY <2>1, <2>2
<1>3. \A n \in 0 .. N, f, g \in D :
          (\A k \in 0 .. n - 1 : f[k] = g[k]) => Turn(f, n) = Turn(g, n)
  <2> SUFFICES ASSUME NEW n \in 0 .. N, NEW f \in D, NEW g \in D,
                      \A k \in 0 .. n - 1 : f[k] = g[k], n # 0
               PROVE  f[n - 1] = g[n - 1]
    OBVIOUS
  <2>1. n - 1 \in 0 .. n - 1
    BY <1>1
  <2> QED BY <2>1
<1> HIDE DEF Turn
<1>4. F \in [0 .. N -> [[0 .. N -> Nat] -> Nat]]
  BY <1>2
<1>5. \A n \in 0 .. N, f, g \in [0 .. N -> Nat] :
          (\A k \in 0 .. n - 1 : f[k] = g[k]) => F[n][f] = F[n][g]
  BY <1>3
<1>6. Recursive(F, N, Nat)
  <2> HIDE DEF F
  <2> QED BY <1>4, <1>5 DEF Recursive
<1>7. Exists(F, N, Nat)
  <2> HIDE DEF F, N
  <2>1. 0 \in Nat
    OBVIOUS
  <2> QED BY <1>1, <1>6, <2>1, Recursion
<1>8. \E f \in D : f = [n \in 0 .. N |-> Turn(f, n)]
  <2>1. PICK f \in D : \A n \in 0 .. N : f[n] = F[n][f]
    BY <1>7 DEF Exists
  <2>2. \A n \in 0 .. N : f[n] = Turn(f, n)
    BY <2>1
  <2>3. f = [n \in 0 .. N |-> Turn(f, n)]
    BY <2>2
  <2> QED BY <2>3
<1> DEFINE number == CHOOSE f : f = [n \in 0 .. N |-> Turn(f, n)]
<1>9. number = [n \in 0 .. N |-> Turn(number, n)]
  BY <1>8
<1>10. Numbers(s) = number
  BY DEF Numbers, Turn, ByteFrom
<1> HIDE DEF number
<1>11. \A n \in 0 .. N : number[n] = Turn(number, n)
  BY <1>9
<1>12. \A n \in 0 .. N : number[n] \in Nat
  <2> DEFINE T == {n \in Nat : n \in 0 .. N => number[n] \in Nat}
  <2>1. 0 \in T
    BY <1>11 DEF Turn
  <2>2. ASSUME NEW n \in Nat, n \in T PROVE n + 1 \in T
    <3> SUFFICES ASSUME n + 1 \in 0 .. N PROVE number[n + 1] \in Nat
      OBVIOUS
    <3> DEFINE g == [k \in 0 .. N |-> IF k = n THEN number[n] ELSE 0]
    <3>1. n \in 0 .. N /\ number[n] \in Nat
      BY <1>1, <2>2
    <3>2. g \in D /\ g[n] = number[n]
      BY <3>1
    <3> HIDE DEF g
    <3>3. Turn(g, n + 1) \in Nat
      BY <1>2, <3>2
    <3>4. (n + 1) - 1 = n
      OBVIOUS
    <3>5. Turn(g, n + 1) = Turn(number, n + 1)
      BY <3>2, <3>4 DEF Turn
    <3> QED BY <1>11, <3>3, <3>5
  <2>3. Nat \subseteq T
    <3> HIDE DEF T
    <3> QED BY <2>1, <2>2, Induct
  <2> QED BY <1>1, <2>3
<1> QED BY <1>10, <1>11, <1>12 DEF Turn

(* v is a word, the rest of the number at its weight, and what was lost.   *)
Splits(v, w, p, x) == \E k \in Nat : v = w + p * x + Modulus * k

(* A varint is read up to q: the bytes go on, and the number is the word   *)
(* so far, what is behind q, and what was lost.                            *)
Sofar(s, p, q, w) ==
    /\ q \in p .. Len(s) /\ \A r \in p + 1 .. q : s[r] >= Cont
    /\ w \in 0 .. Modulus - 1
    /\ Splits(Numbers(s)[Len(s) - p], w, Power[q - p], Numbers(s)[Len(s) - q])

LEMMA SplitsTurn ==
    ASSUME NEW v, NEW w \in Nat, NEW p \in Nat, NEW t, NEW b \in Nat, NEW x \in Nat,
           Splits(v, w, p, t), t = b + Cont * x
    PROVE  /\ (w + b * p) % Modulus \in 0 .. Modulus - 1
           /\ Splits(v, (w + b * p) % Modulus, Cont * p, x)
<1> DEFINE m == Modulus
           c == Cont
<1>a. m \in Nat \ {0} /\ c \in Nat
  BY IntLimitAssumption, ContAssumption DEF Modulus
<1>b. PICK k \in Nat : v = w + p * (b + c * x) + m * k
  BY DEF Splits
<1> HIDE DEF m, c
<1> DEFINE u == w + b * p
           r == u % m
           q == u \div m
<1>1. u \in Nat
  <2>1. b * p \in Nat
    BY <1>a
  <2> DEFINE y == b * p
  <2> HIDE DEF y
  <2>2. y \in Nat => w + y \in Nat
    BY <1>a
  <2> QED BY <1>a, <2>1, <2>2 DEF y
<1>2. p * (b + c * x) = b * p + (c * p) * x
  <2>1. p * (b + c * x) = p * b + p * (c * x)
    <3> DEFINE y == c * x
    <3>1. y \in Nat
      BY <1>a
    <3> HIDE DEF y
    <3>2. p * (b + y) = p * b + p * y
      BY <1>a, <3>1
    <3> QED BY <1>a, <3>2 DEF y
  <2>2. p * (c * x) = (c * p) * x /\ p * b = b * p
    BY <1>a
  <2> QED BY <1>a, <2>1, <2>2
<1>3. q \in Nat /\ r \in 0 .. m - 1 /\ u = m * q + r
  <2> HIDE DEF u
  <2> QED BY <1>a, <1>1, Division
<1>4. m * (q + k) = m * q + m * k /\ q + k \in Nat
  <2> HIDE DEF q
  <2> QED BY <1>a, <1>3
<1> DEFINE d == (c * p) * x
           f == m * q
           g == m * k
           h == m * (q + k)
<1>5. d \in Nat /\ f \in Nat /\ g \in Nat /\ h \in Nat
  <2>1. d \in Nat /\ g \in Nat
    BY <1>a
  <2> HIDE DEF q, d, g
  <2>2. f \in Nat /\ h \in Nat
    BY <1>a, <1>3
  <2> QED BY <1>a, <2>1, <2>2
<1>6. w + p * (b + c * x) + m * k = (w + b * p) + d + g
  <2> DEFINE y == b * p
             z == p * (b + c * x)
  <2>1. z = y + d /\ y \in Nat
    BY <1>a, <1>2
  <2> HIDE DEF y, z, d, g
  <2>2. w + z + g = (w + y) + d + g
    BY <1>a, <1>5, <2>1
  <2> QED BY <1>a, <2>2 DEF y, z, d, g
<1> HIDE DEF d, f, g, h, u, r, q
<1>7. u + d + g = r + d + h
  <2>1. u = f + r /\ h = f + g
    BY <1>a, <1>3, <1>4 DEF f, g, h
  <2>2. r \in Nat
    BY <1>a, <1>3
  <2> QED BY <1>a, <1>1, <1>5, <2>1, <2>2
<1>8. w + p * (b + c * x) + m * k = r + (c * p) * x + m * (q + k)
  BY <1>a, <1>6, <1>7 DEF u, d, h
<1>9. q + k \in Nat /\ v = r + (c * p) * x + m * (q + k)
  BY <1>b, <1>4, <1>8
<1> DEFINE l == q + k
<1>10. l \in Nat /\ v = r + (c * p) * x + m * l
  BY <1>9
<1> HIDE DEF l
<1>11. Splits(v, r, c * p, x)
  BY <1>10 DEF Splits, m
<1> QED BY <1>3, <1>11 DEF r, u, c, m

LEMMA SofarStarts ==
    ASSUME NEW s \in Seq(Bytes), NEW p \in 0 .. Len(s)
    PROVE  Sofar(s, p, p, 0)
<1> DEFINE x == Numbers(s)[Len(s) - p]
<1>1. x \in Nat
  <2>1. Len(s) - p \in 0 .. Len(s)
    OBVIOUS
  <2> QED BY <2>1, NumbersUnfold
<1>2. Power[p - p] = 1
  BY PowerFacts
<1>3. Modulus \in Nat \ {0}
  BY IntLimitAssumption DEF Modulus
<1> HIDE DEF x
<1>4. x = 0 + 1 * x + Modulus * 0
  BY <1>1, <1>3
<1>5. 0 \in Nat /\ x = 0 + Power[p - p] * x + Modulus * 0
  BY <1>2, <1>4
<1>6. 0 \in 0 .. Modulus - 1
  BY <1>3
<1>7. Splits(x, 0, Power[p - p], x)
  BY <1>5 DEF Splits
<1> QED BY <1>6, <1>7 DEF Sofar, x

(* What the next byte makes of the word.                                   *)
TurnedWord(s, p, q, w) == (w + (s[q + 1] % Cont) * Power[q - p]) % Modulus

LEMMA SofarByte ==
    ASSUME NEW s \in Seq(Bytes), NEW p \in Nat, NEW q \in p .. Len(s) - 1, NEW w, Sofar(s, p, q, w)
    PROVE  /\ TurnedWord(s, p, q, w) \in 0 .. Modulus - 1
           /\ Splits(Numbers(s)[Len(s) - p], TurnedWord(s, p, q, w), Cont * Power[q - p],
                     IF s[q + 1] < Cont THEN 0 ELSE Numbers(s)[Len(s) - (q + 1)])
<1> DEFINE N == Len(s)
           v == Numbers(s)[N - p]
           pw == Power[q - p]
           y == Numbers(s)[N - q]
           z == Numbers(s)[N - (q + 1)]
           x == IF s[q + 1] < Cont THEN 0 ELSE z
           b == s[q + 1] % Cont
<1>1. Splits(v, w, pw, y)
  BY DEF Sofar
<1>2. w \in Nat /\ Modulus \in Nat \ {0} /\ Cont \in Nat
  BY IntLimitAssumption, ContAssumption DEF Sofar, Modulus
<1>3. pw \in Nat
  <2>1. q - p \in Nat
    OBVIOUS
  <2> QED BY <2>1, PowerFacts
<1>4. z \in Nat
  <2>1. N - (q + 1) \in 0 .. N
    OBVIOUS
  <2> QED BY <2>1, NumbersUnfold
<1>5. x \in Nat
  BY <1>4
<1>6. b \in Nat
  <2> DEFINE a == s[q + 1]
  <2>1. a \in Bytes
    OBVIOUS
  <2>2. a \in Nat
    BY <2>1, ContAssumption DEF Bytes
  <2> HIDE DEF a
  <2>3. a % Cont \in Nat
    BY <2>2, ContAssumption
  <2> QED BY <2>3 DEF a
<1>7. y = b + (IF s[q + 1] < Cont THEN 0 ELSE Cont * z)
  <2> DEFINE n == N - q
  <2>1. n \in 0 .. N /\ n # 0 /\ N - n + 1 = q + 1 /\ n - 1 = N - (q + 1)
    OBVIOUS
  <2>2. y = (ByteFrom(s, n) % Cont)
            + (IF ByteFrom(s, n) < Cont THEN 0 ELSE Cont * Numbers(s)[n - 1])
    BY <2>1, NumbersUnfold
  <2>3. ByteFrom(s, n) = s[q + 1]
    BY <2>1 DEF ByteFrom
  <2> QED BY <2>1, <2>2, <2>3
<1>8. y = b + Cont * x
  <2> DEFINE t == s[q + 1] < Cont
  <2>1. CASE t
    <3>1. Cont * 0 = 0 /\ b + 0 = b
      BY <1>2, <1>6
    <3> QED BY <1>7, <2>1, <3>1
  <2>2. CASE ~ t
    BY <1>7, <2>2
  <2> QED BY <2>1, <2>2
<1>9. TurnedWord(s, p, q, w) = (w + b * pw) % Modulus
  BY DEF TurnedWord
<1> HIDE DEF v, pw, y, z, x, b
<1>10. /\ (w + b * pw) % Modulus \in 0 .. Modulus - 1
       /\ Splits(v, (w + b * pw) % Modulus, Cont * pw, x)
  BY <1>1, <1>2, <1>3, <1>5, <1>6, <1>8, SplitsTurn
<1> QED BY <1>9, <1>10 DEF v, pw, x, z

LEMMA SofarGoesOn ==
    ASSUME NEW s \in Seq(Bytes), NEW p \in Nat, NEW q \in p .. Len(s) - 1, NEW w,
           Sofar(s, p, q, w), ~ (s[q + 1] < Cont)
    PROVE  Sofar(s, p, q + 1, TurnedWord(s, p, q, w))
<1>1. q + 1 \in p .. Len(s)
  OBVIOUS
<1>2. ASSUME NEW r \in p + 1 .. q + 1 PROVE s[r] >= Cont
  <2>1. CASE r = q + 1
    <3>1. s[q + 1] \in Bytes
      OBVIOUS
    <3> QED BY <2>1, <3>1, ContAssumption DEF Bytes
  <2>2. CASE r # q + 1
    <3>1. r \in p + 1 .. q
      BY <2>2
    <3> QED BY <3>1 DEF Sofar
  <2> QED BY <2>1, <2>2
<1>3. Power[(q + 1) - p] = Cont * Power[q - p]
  <2>1. q - p \in Nat /\ (q + 1) - p = (q - p) + 1
    OBVIOUS
  <2> QED BY <2>1, PowerFacts
<1> DEFINE u == TurnedWord(s, p, q, w)
<1>4. /\ u \in 0 .. Modulus - 1
      /\ Splits(Numbers(s)[Len(s) - p], u, Power[(q + 1) - p], Numbers(s)[Len(s) - (q + 1)])
  BY <1>3, SofarByte
<1> HIDE DEF u
<1>5. Sofar(s, p, q + 1, u)
  BY <1>1, <1>2, <1>4 DEF Sofar
<1> QED BY <1>5 DEF u

LEMMA Remainder ==
    ASSUME NEW m \in Nat \ {0}, NEW w \in 0 .. m - 1, NEW k \in Nat
    PROVE  (w + m * k) % m = w
<1> DEFINE v == w + m * k
           g == m * k
<1>1. v \in Nat
  <2>1. g \in Nat
    OBVIOUS
  <2> HIDE DEF g
  <2>2. w + g \in Nat
    BY <2>1
  <2> QED BY <2>2 DEF g
<1>2. v = m * k + w
  <2>1. g \in Nat
    OBVIOUS
  <2> HIDE DEF g
  <2>2. w + g = g + w
    BY <2>1
  <2> QED BY <2>2 DEF g
<1> HIDE DEF v
<1>3. v \div m = k
  BY <1>1, <1>2, DivisionIs
<1>4. v = m * (v \div m) + (v % m) /\ v % m \in 0 .. m - 1
  BY <1>1, Division
<1> DEFINE r == v % m
<1>5. g \in Nat
  OBVIOUS
<1>6. v = g + r /\ v = g + w /\ r \in Nat
  BY <1>2, <1>3, <1>4
<1> HIDE DEF r, g
<1>7. r = w
  BY <1>5, <1>6
<1> QED BY <1>7 DEF r, v

LEMMA SofarEnds ==
    ASSUME NEW s \in Seq(Bytes), NEW p \in Nat, NEW q \in p .. Len(s) - 1, NEW w,
           Sofar(s, p, q, w), s[q + 1] < Cont, Power[q - p] < Modulus
    PROVE  /\ HasVarint(s, p) /\ BehindVarint(s, p) = q + 1
           /\ Value(s, p) = TurnedWord(s, p, q, w)
<1>1. LastBytes(s, p) # {} /\ BehindVarint(s, p) = q + 1
  BY VarintEnds DEF Sofar
<1>2. HasVarint(s, p)
  <2> DEFINE n == Sov(Modulus - 1)
  <2>1. q - p \in Nat /\ q - p < n
    BY WordBytes
  <2>2. n \in Nat
    <3>1. Modulus - 1 \in Nat
      BY IntLimitAssumption DEF Modulus
    <3> QED BY <3>1, SovType
  <2> HIDE DEF n
  <2>3. (q + 1) - p =< n
    BY <2>1, <2>2
  <2> QED BY <1>1, <2>3 DEF HasVarint, n
<1>3. Modulus \in Nat \ {0}
  BY IntLimitAssumption DEF Modulus
<1> DEFINE u == TurnedWord(s, p, q, w)
           c == Cont * Power[q - p]
<1>4. PICK l \in Nat : Numbers(s)[Len(s) - p] = u + c * 0 + Modulus * l
  <2>1. Splits(Numbers(s)[Len(s) - p], u, c, 0)
    BY SofarByte
  <2> HIDE DEF u, c
  <2> QED BY <2>1 DEF Splits
<1>5. u \in 0 .. Modulus - 1
  BY SofarByte
<1>6. c \in Nat
  <2>1. q - p \in Nat
    OBVIOUS
  <2>2. Power[q - p] \in Nat
    BY <2>1, PowerFacts
  <2> QED BY <2>2, ContAssumption
<1> HIDE DEF u, c
<1>7. u + c * 0 = u
  BY <1>3, <1>5, <1>6
<1>8. Numbers(s)[Len(s) - p] = u + Modulus * l
  BY <1>4, <1>7
<1>9. Value(s, p) = u
  BY <1>3, <1>5, <1>8, Remainder DEF Value
<1> QED BY <1>1, <1>2, <1>9 DEF u

LEMMA SofarFails ==
    ASSUME NEW s \in Seq(Bytes), NEW p \in Nat, NEW q, NEW w, NEW e \in Nat, Sofar(s, p, q, w),
           ~ (Power[q - p] < Modulus) \/ q >= e
    PROVE  ~ (HasVarint(s, p) /\ BehindVarint(s, p) =< e)
<1> SUFFICES ASSUME HasVarint(s, p), BehindVarint(s, p) =< e PROVE FALSE
  OBVIOUS
<1>1. q \in p .. Len(s) /\ q \in Nat /\ q - p \in Nat
  BY DEF Sofar
<1>2. q < BehindVarint(s, p)
  BY <1>1, VarintBehind DEF Sofar
<1>3. BehindVarint(s, p) \in Nat /\ BehindVarint(s, p) - p =< Sov(Modulus - 1)
  BY VarintLies
<1> DEFINE b == BehindVarint(s, p)
           n == Sov(Modulus - 1)
<1>4. n \in Nat
  <2>1. Modulus - 1 \in Nat
    BY IntLimitAssumption DEF Modulus
  <2> QED BY <2>1, SovType
<1>5. q < b /\ b \in Nat /\ b - p =< n /\ b =< e
  BY <1>2, <1>3
<1> HIDE DEF b, n
<1>6. q - p < n /\ ~ (q >= e)
  BY <1>1, <1>4, <1>5
<1>7. Power[q - p] < Modulus
  BY <1>1, <1>6, WordBytes DEF n
<1> QED BY <1>6, <1>7

----------------------------------------------------------------------------
(* The chains of n bytes, from those that are shorter.                     *)
Begins(chain, s, n, p) ==
    n = 0 \/ \E k \in 1 .. n : /\ IsScalar(s, p, p + k) \/ IsGroup(chain, s, p, p + k)
                               /\ chain[n - k][p + k]

LEMMA GroupFromShorter ==
    ASSUME NEW s \in Seq(Bytes), NEW p \in Nat, NEW n \in Nat, NEW k \in 1 .. n, NEW f, NEW g,
           \A j \in 0 .. n - 1 : f[j] = g[j], IsGroup(f, s, p, p + k)
    PROVE  IsGroup(g, s, p, p + k)
<1> DEFINE b == BehindVarint(s, p)
<1>1. HasVarint(s, p) /\ TypeAt(s, p) = 3
  BY DEF IsGroup
<1>2. PICK r \in b .. (p + k) - 1 : EndsGroup(s, r, p + k) /\ f[r - b][b]
  BY DEF IsGroup
<1>3. b \in Nat /\ b >= p + 1
  BY <1>1, VarintLies
<1> HIDE DEF b
<1>4. r - b \in 0 .. n - 1
  BY <1>2, <1>3
<1>5. f[r - b] = g[r - b]
  BY <1>4
<1>6. r \in b .. (p + k) - 1 /\ EndsGroup(s, r, p + k) /\ g[r - b][b]
  BY <1>2, <1>5
<1> QED BY <1>1, <1>6 DEF IsGroup, b

LEMMA BeginsFromShorter ==
    ASSUME NEW s \in Seq(Bytes), NEW p \in Nat, NEW n \in Nat, NEW f, NEW g,
           \A j \in 0 .. n - 1 : f[j] = g[j], Begins(f, s, n, p)
    PROVE  Begins(g, s, n, p)
<1> SUFFICES ASSUME n # 0 PROVE Begins(g, s, n, p)
  BY DEF Begins
<1>1. PICK k \in 1 .. n : /\ IsScalar(s, p, p + k) \/ IsGroup(f, s, p, p + k)
                          /\ f[n - k][p + k]
  BY DEF Begins
<1>2. n - k \in 0 .. n - 1
  OBVIOUS
<1>3. g[n - k][p + k]
  BY <1>1, <1>2
<1>4. IsScalar(s, p, p + k) \/ IsGroup(g, s, p, p + k)
  BY <1>1, GroupFromShorter
<1> QED BY <1>3, <1>4 DEF Begins

LEMMA ChainsUnfold ==
    ASSUME NEW s \in Seq(Bytes), NEW n \in 0 .. Len(s), NEW p \in 0 .. Len(s) - n
    PROVE  Chains(s)[n][p] <=> Begins(Chains(s), s, n, p)
<1> DEFINE N == Len(s)
           D == UNION {[0 .. k -> BOOLEAN] : k \in Nat}
           Turn(f, m) == [x \in 0 .. N - m |-> Begins(f, s, m, x)]
           F == [m \in 0 .. N |-> [f \in [0 .. N -> D] |-> Turn(f, m)]]
<1>1. N \in Nat
  OBVIOUS
<1>2. ASSUME NEW m \in 0 .. N, NEW f PROVE Turn(f, m) \in D
  <2>1. N - m \in Nat
    BY <1>1
  <2>2. \A x : Begins(f, s, m, x) \in BOOLEAN
    BY DEF Begins
  <2>3. Turn(f, m) \in [0 .. N - m -> BOOLEAN]
    BY <2>2
  <2> HIDE DEF Turn
  <2> QED BY <2>1, <2>3
<1>3. ASSUME NEW m \in 0 .. N, NEW f, NEW g, \A j \in 0 .. m - 1 : f[j] = g[j]
      PROVE  Turn(f, m) = Turn(g, m)
  <2>1. \A x \in 0 .. N - m : Begins(f, s, m, x) <=> Begins(g, s, m, x)
    <3> SUFFICES ASSUME NEW x \in 0 .. N - m PROVE Begins(f, s, m, x) <=> Begins(g, s, m, x)
      OBVIOUS
    <3>1. m \in Nat /\ x \in Nat
      OBVIOUS
    <3>2. \A j \in 0 .. m - 1 : g[j] = f[j]
      BY <1>3
    <3>3. Begins(f, s, m, x) => Begins(g, s, m, x)
      BY <1>3, <3>1, BeginsFromShorter
    <3>4. Begins(g, s, m, x) => Begins(f, s, m, x)
      BY <3>1, <3>2, BeginsFromShorter
    <3> QED BY <3>3, <3>4
  <2>2. \A x : Begins(f, s, m, x) \in BOOLEAN /\ Begins(g, s, m, x) \in BOOLEAN
    BY DEF Begins
  <2>3. \A x \in 0 .. N - m : Begins(f, s, m, x) = Begins(g, s, m, x)
    BY <2>1, <2>2
  <2> QED BY <2>3
<1> HIDE DEF Turn
<1>4. F \in [0 .. N -> [[0 .. N -> D] -> D]]
  <2> HIDE DEF D
  <2> QED BY <1>2
<1>5. \A m \in 0 .. N, f, g \in [0 .. N -> D] :
          (\A k \in 0 .. m - 1 : f[k] = g[k]) => F[m][f] = F[m][g]
  BY <1>3
<1>6. Recursive(F, N, D)
  <2> HIDE DEF F, D
  <2> QED BY <1>4, <1>5 DEF Recursive
<1>7. PICK d : d \in D
  BY <1>2
<1>8. Exists(F, N, D)
  <2> HIDE DEF F, N, D
  <2> QED BY <1>1, <1>6, <1>7, Recursion
<1>9. \E f : f = [m \in 0 .. N |-> Turn(f, m)]
  <2>1. PICK f \in [0 .. N -> D] : \A m \in 0 .. N : f[m] = F[m][f]
    BY <1>8 DEF Exists
  <2>2. \A m \in 0 .. N : f[m] = Turn(f, m)
    BY <2>1
  <2>3. f = [m \in 0 .. N |-> Turn(f, m)]
    <3> HIDE DEF D
    <3> QED BY <2>2
  <2> QED BY <2>3
<1> DEFINE chain == CHOOSE f : f = [m \in 0 .. N |-> Turn(f, m)]
<1>10. chain = [m \in 0 .. N |-> Turn(chain, m)]
  BY <1>9
<1>11. Chains(s) = chain
  BY DEF Chains, Turn, Begins
<1> HIDE DEF chain
<1>12. chain[n] = Turn(chain, n)
  BY <1>10
<1>13. chain[n][p] = Begins(chain, s, n, p)
  BY <1>12 DEF Turn
<1> QED BY <1>11, <1>13

LEMMA ChainRule ==
    ASSUME NEW s \in Seq(Bytes), NEW q \in 0 .. Len(s), NEW p \in 0 .. q
    PROVE  IsChain(s, p, q) <=> p = q \/ \E r \in p + 1 .. q : IsItem(s, p, r) /\ IsChain(s, r, q)
<1> DEFINE n == q - p
           C == Chains(s)
<1>1. n \in 0 .. Len(s) /\ p \in 0 .. Len(s) - n /\ (n = 0 <=> p = q)
  OBVIOUS
<1>2. C[n][p] <=> Begins(C, s, n, p)
  BY <1>1, ChainsUnfold
<1>3. ASSUME NEW k \in 1 .. n, IsScalar(s, p, p + k) \/ IsGroup(C, s, p, p + k), C[n - k][p + k]
      PROVE  \E r \in p + 1 .. q : IsItem(s, p, r) /\ IsChain(s, r, q)
  <2>1. p + k \in p + 1 .. q /\ q - (p + k) = n - k
    OBVIOUS
  <2>2. IsItem(s, p, p + k) /\ IsChain(s, p + k, q)
    BY <1>3, <2>1 DEF IsItem, IsChain
  <2> QED BY <2>1, <2>2
<1>4. ASSUME NEW r \in p + 1 .. q, IsItem(s, p, r), IsChain(s, r, q)
      PROVE  Begins(C, s, n, p)
  <2> DEFINE k == r - p
  <2>1. k \in 1 .. n /\ p + k = r /\ n - k = q - r
    OBVIOUS
  <2> HIDE DEF k
  <2>2. (IsScalar(s, p, p + k) \/ IsGroup(C, s, p, p + k)) /\ C[n - k][p + k]
    BY <1>4, <2>1 DEF IsItem, IsChain
  <2> QED BY <2>1, <2>2 DEF Begins
<1>5. n = 0 => Begins(C, s, n, p)
  BY DEF Begins
<1> HIDE DEF n, C
<1>6. IsChain(s, p, q) <=> Begins(C, s, n, p)
  BY <1>2 DEF IsChain, n, C
<1>7. Begins(C, s, n, p) => n = 0 \/ \E r \in p + 1 .. q : IsItem(s, p, r) /\ IsChain(s, r, q)
  BY <1>3 DEF Begins
<1> QED BY <1>1, <1>4, <1>5, <1>6, <1>7

LEMMA ValueType ==
    ASSUME NEW s \in Seq(Bytes), NEW p \in 0 .. Len(s)
    PROVE  Value(s, p) \in 0 .. Modulus - 1 /\ Value(s, p) \in Nat /\ TypeAt(s, p) \in 0 .. 7
<1> DEFINE x == Numbers(s)[Len(s) - p]
<1>1. Len(s) - p \in 0 .. Len(s)
  OBVIOUS
<1>2. x \in Nat
  BY <1>1, NumbersUnfold
<1>3. Modulus \in Nat \ {0}
  BY IntLimitAssumption DEF Modulus
<1> HIDE DEF x
<1> DEFINE v == x % Modulus
<1>4. v \in 0 .. Modulus - 1 /\ v \in Nat
  BY <1>2, <1>3
<1>5. Value(s, p) = v
  BY DEF Value, x
<1> HIDE DEF v
<1>6. v % 8 \in 0 .. 7
  BY <1>4
<1> QED BY <1>4, <1>5, <1>6 DEF TypeAt

(* An item begins with a tag, and is not empty.                            *)
LEMMA ScalarLies ==
    ASSUME NEW s \in Seq(Bytes), NEW p \in Nat, NEW q, IsScalar(s, p, q)
    PROVE  /\ HasVarint(s, p) /\ TypeAt(s, p) \in {0, 1, 2, 5}
           /\ q \in Nat /\ BehindVarint(s, p) =< q /\ p < q
           /\ TypeAt(s, p) \in {0, 2} => HasVarint(s, BehindVarint(s, p))
                                         /\ BehindVarint(s, BehindVarint(s, p)) =< q
<1> DEFINE b == BehindVarint(s, p)
           t == TypeAt(s, p)
<1>1. HasVarint(s, p) /\ b \in p + 1 .. Len(s) /\ b \in Nat /\ b > p
  <2>1. HasVarint(s, p)
    BY DEF IsScalar
  <2>2. b \in p + 1 .. Len(s)
    BY <2>1, VarintLies
  <2> QED BY <2>1, <2>2
<1>2. \/ t = 0 /\ HasVarint(s, b) /\ q = BehindVarint(s, b)
      \/ t = 1 /\ q = b + 8
      \/ t = 2 /\ HasVarint(s, b) /\ q = BehindContent(s, p)
      \/ t = 5 /\ q = b + 4
  BY DEF IsScalar
<1> DEFINE c == BehindVarint(s, b)
<1>3. HasVarint(s, b) => c \in Nat /\ c > b
  <2> SUFFICES ASSUME HasVarint(s, b) PROVE c \in Nat /\ c > b
    OBVIOUS
  <2>1. c \in b + 1 .. Len(s)
    <3> HIDE DEF b
    <3> QED BY <1>1, VarintLies
  <2> QED BY <1>1, <2>1
<1>4. BehindContent(s, p) = c + Value(s, b)
  BY DEF BehindContent, ContentAt, LengthAt
<1>5. Value(s, b) \in Nat
  <2>1. b \in 0 .. Len(s)
    BY <1>1
  <2> HIDE DEF b
  <2> QED BY <2>1, ValueType
<1> DEFINE x == Value(s, b)
<1> HIDE DEF b, c, t, x
<1>6. CASE t = 0 /\ HasVarint(s, b) /\ q = c
  BY <1>1, <1>3, <1>6 DEF b, c, t
<1>7. CASE t = 1 /\ q = b + 8
  BY <1>1, <1>7 DEF b, t
<1>8. CASE t = 2 /\ HasVarint(s, b) /\ q = c + x
  <2>1. q \in Nat /\ c =< q /\ b =< q /\ p < q
    BY <1>1, <1>3, <1>5, <1>8 DEF x
  <2> QED BY <1>1, <1>8, <2>1 DEF b, c, t
<1>9. CASE t = 5 /\ q = b + 4
  BY <1>1, <1>9 DEF b, t
<1> QED BY <1>2, <1>4, <1>6, <1>7, <1>8, <1>9 DEF c, x

LEMMA ItemLies ==
    ASSUME NEW s \in Seq(Bytes), NEW p \in Nat, NEW q \in Nat, IsItem(s, p, q)
    PROVE  /\ HasVarint(s, p) /\ TypeAt(s, p) \in {0, 1, 2, 3, 5}
           /\ BehindVarint(s, p) =< q /\ p < q
           /\ TypeAt(s, p) # 3 => IsScalar(s, p, q)
           /\ TypeAt(s, p) = 3 => IsGroup(Chains(s), s, p, q)
<1>1. CASE IsScalar(s, p, q)
  BY <1>1, ScalarLies
<1>2. CASE IsGroup(Chains(s), s, p, q)
  <2> DEFINE b == BehindVarint(s, p)
  <2>1. HasVarint(s, p) /\ TypeAt(s, p) = 3
    BY <1>2 DEF IsGroup
  <2>2. PICK r \in b .. q - 1 : TRUE
    BY <1>2 DEF IsGroup
  <2>3. b \in p + 1 .. Len(s)
    BY <2>1, VarintLies
  <2> HIDE DEF b
  <2>4. b =< q /\ p < q
    BY <2>2, <2>3
  <2> QED BY <1>2, <2>1, <2>4 DEF b
<1> QED BY <1>1, <1>2 DEF IsItem

(* The content of a group is a chain up to the tag that ends it.           *)
LEMMA GroupIs ==
    ASSUME NEW s \in Seq(Bytes), NEW p \in Nat, NEW q \in Nat
    PROVE  IsGroup(Chains(s), s, p, q) <=>
               /\ HasVarint(s, p) /\ TypeAt(s, p) = 3
               /\ \E r \in BehindVarint(s, p) .. q - 1 :
                      EndsGroup(s, r, q) /\ IsChain(s, BehindVarint(s, p), r)
BY DEF IsGroup, IsChain

LEMMA ScalarsAgree ==
    ASSUME NEW s, NEW p, NEW q, NEW x, IsScalar(s, p, q), IsScalar(s, p, x)
    PROVE  q = x
<1>1. CASE TypeAt(s, p) = 0
  BY <1>1 DEF IsScalar
<1>2. CASE TypeAt(s, p) = 1
  BY <1>2 DEF IsScalar
<1>3. CASE TypeAt(s, p) = 2
  BY <1>3 DEF IsScalar
<1>4. CASE TypeAt(s, p) = 5
  BY <1>4 DEF IsScalar
<1> QED BY <1>1, <1>2, <1>3, <1>4 DEF IsScalar

----------------------------------------------------------------------------
(* The grammar is not ambiguous: items that begin together end together,   *)
(* and a chain can be cut where another one ends.                          *)
Once(s, p) ==
    \A q \in p + 1 .. Len(s), x \in p + 1 .. Len(s) : IsItem(s, p, q) /\ IsItem(s, p, x) => q = x

Cuts(s, p) ==
    \A a \in p .. Len(s), b \in p .. Len(s) :
        a =< b /\ IsChain(s, p, a) /\ IsChain(s, p, b) => IsChain(s, a, b)

(* No item begins where a group ends.                                      *)
LEMMA ClosesFirst ==
    ASSUME NEW s \in Seq(Bytes), NEW b \in 0 .. Len(s), NEW r \in b .. Len(s), NEW t \in b .. Len(s),
           NEW q, Cuts(s, b), IsChain(s, b, r), IsChain(s, b, t), EndsGroup(s, r, q)
    PROVE  t =< r
<1> SUFFICES ASSUME r < t PROVE FALSE
  OBVIOUS
<1>1. IsChain(s, r, t)
  BY DEF Cuts
<1>2. PICK x \in r + 1 .. t : IsItem(s, r, x)
  <2>1. t \in 0 .. Len(s) /\ r \in 0 .. t /\ r # t
    OBVIOUS
  <2> QED BY <1>1, <2>1, ChainRule
<1>3. TypeAt(s, r) \in {0, 1, 2, 3, 5}
  <2>1. r \in Nat /\ x \in Nat
    OBVIOUS
  <2> QED BY <1>2, <2>1, ItemLies
<1> QED BY <1>3 DEF EndsGroup

LEMMA OnceStep ==
    ASSUME NEW s \in Seq(Bytes), NEW p \in 0 .. Len(s), \A x \in p + 1 .. Len(s) : Cuts(s, x)
    PROVE  Once(s, p)
<1> SUFFICES ASSUME NEW q \in p + 1 .. Len(s), NEW x \in p + 1 .. Len(s),
                    IsItem(s, p, q), IsItem(s, p, x)
             PROVE  q = x
  BY DEF Once
<1>1. p \in Nat /\ q \in Nat /\ x \in Nat
  OBVIOUS
<1>2. CASE TypeAt(s, p) # 3
  <2>1. IsScalar(s, p, q) /\ IsScalar(s, p, x)
    BY <1>1, <1>2, ItemLies
  <2> QED BY <2>1, ScalarsAgree
<1>3. CASE TypeAt(s, p) = 3
  <2> DEFINE b == BehindVarint(s, p)
  <2>1. IsGroup(Chains(s), s, p, q) /\ IsGroup(Chains(s), s, p, x)
    BY <1>1, <1>3, ItemLies
  <2>2. PICK r \in b .. q - 1 : EndsGroup(s, r, q) /\ IsChain(s, b, r)
    BY <1>1, <2>1, GroupIs
  <2>3. PICK t \in b .. x - 1 : EndsGroup(s, t, x) /\ IsChain(s, b, t)
    BY <1>1, <2>1, GroupIs
  <2>4. b \in p + 1 .. Len(s)
    <3>1. HasVarint(s, p)
      BY <1>1, ItemLies
    <3> QED BY <1>1, <3>1, VarintLies
  <2> HIDE DEF b
  <2>5. Cuts(s, b)
    BY <2>4
  <2>6. b \in 0 .. Len(s) /\ r \in b .. Len(s) /\ t \in b .. Len(s)
    BY <2>2, <2>3, <2>4
  <2>7. t =< r
    BY <2>2, <2>3, <2>5, <2>6, ClosesFirst
  <2>8. r =< t
    BY <2>2, <2>3, <2>5, <2>6, ClosesFirst
  <2>9. r = t
    BY <2>6, <2>7, <2>8
  <2> QED BY <2>2, <2>3, <2>9 DEF EndsGroup
<1> QED BY <1>2, <1>3

LEMMA CutsStep ==
    ASSUME NEW s \in Seq(Bytes), NEW p \in 0 .. Len(s), Once(s, p),
           \A x \in p + 1 .. Len(s) : Cuts(s, x)
    PROVE  Cuts(s, p)
<1> SUFFICES ASSUME NEW a \in p .. Len(s), NEW b \in p .. Len(s),
                    a =< b, IsChain(s, p, a), IsChain(s, p, b)
             PROVE  IsChain(s, a, b)
  BY DEF Cuts
<1>1. CASE a = p
  BY <1>1
<1>2. CASE a # p
  <2>1. a \in 0 .. Len(s) /\ b \in 0 .. Len(s) /\ p \in 0 .. a /\ p \in 0 .. b /\ b # p
    BY <1>2
  <2>2. PICK r \in p + 1 .. a : IsItem(s, p, r) /\ IsChain(s, r, a)
    BY <1>2, <2>1, ChainRule
  <2>3. PICK t \in p + 1 .. b : IsItem(s, p, t) /\ IsChain(s, t, b)
    BY <2>1, ChainRule
  <2>4. r \in p + 1 .. Len(s) /\ t \in p + 1 .. Len(s) /\ a \in r .. Len(s) /\ b \in t .. Len(s)
    OBVIOUS
  <2>5. r = t
    BY <2>2, <2>3, <2>4 DEF Once
  <2>6. Cuts(s, r)
    BY <2>4
  <2> QED BY <2>2, <2>3, <2>4, <2>5, <2>6 DEF Cuts
<1> QED BY <1>1, <1>2

LEMMA Unambiguous ==
    ASSUME NEW s \in Seq(Bytes), NEW p \in 0 .. Len(s)
    PROVE  Once(s, p) /\ Cuts(s, p)
<1> DEFINE N == Len(s)
           T == {m \in Nat : \A x \in 0 .. N : x + m >= N => Once(s, x) /\ Cuts(s, x)}
<1>1. N \in Nat
  OBVIOUS
<1>2. ASSUME NEW x \in 0 .. N, \A y \in x + 1 .. N : Cuts(s, y)
      PROVE  Once(s, x) /\ Cuts(s, x)
  <2>1. Once(s, x)
    BY <1>2, OnceStep
  <2> QED BY <1>2, <2>1, CutsStep
<1>3. 0 \in T
  <2> SUFFICES ASSUME NEW x \in 0 .. N, x + 0 >= N PROVE Once(s, x) /\ Cuts(s, x)
    OBVIOUS
  <2>1. \A y \in x + 1 .. N : Cuts(s, y)
    BY <1>1
  <2> QED BY <1>2, <2>1
<1>4. ASSUME NEW m \in Nat, m \in T PROVE m + 1 \in T
  <2> SUFFICES ASSUME NEW x \in 0 .. N, x + (m + 1) >= N PROVE Once(s, x) /\ Cuts(s, x)
    OBVIOUS
  <2>1. \A y \in x + 1 .. N : Cuts(s, y)
    <3> SUFFICES ASSUME NEW y \in x + 1 .. N PROVE Cuts(s, y)
      OBVIOUS
    <3>1. y \in 0 .. N /\ y + m >= N
      BY <1>1
    <3> QED BY <1>4, <3>1
  <2> QED BY <1>2, <2>1
<1>5. Nat \subseteq T
  <2> HIDE DEF T
  <2> QED BY <1>3, <1>4, Induct
<1>6. p + N >= N /\ p \in 0 .. N
  BY <1>1
<1> QED BY <1>1, <1>5, <1>6

(* Chains can be joined, and grow by an item.                              *)
LEMMA ChainsJoin ==
    ASSUME NEW s \in Seq(Bytes), NEW q \in 0 .. Len(s), NEW b \in 0 .. q, NEW p \in 0 .. b,
           IsChain(s, p, b), IsChain(s, b, q)
    PROVE  IsChain(s, p, q)
<1> DEFINE T == {m \in Nat : \A x \in 0 .. b : x + m >= b /\ IsChain(s, x, b) => IsChain(s, x, q)}
<1>1. 0 \in T
  <2> SUFFICES ASSUME NEW x \in 0 .. b, x + 0 >= b, IsChain(s, x, b) PROVE IsChain(s, x, q)
    OBVIOUS
  <2>1. x = b
    OBVIOUS
  <2> QED BY <2>1
<1>2. ASSUME NEW m \in Nat, m \in T PROVE m + 1 \in T
  <2> SUFFICES ASSUME NEW x \in 0 .. b, x + (m + 1) >= b, IsChain(s, x, b) PROVE IsChain(s, x, q)
    OBVIOUS
  <2>1. CASE x = b
    BY <2>1
  <2>2. CASE x # b
    <3>1. b \in 0 .. Len(s) /\ x \in 0 .. b /\ x \in 0 .. q
      OBVIOUS
    <3>2. PICK r \in x + 1 .. b : IsItem(s, x, r) /\ IsChain(s, r, b)
      BY <2>2, <3>1, ChainRule
    <3>3. r \in 0 .. b /\ r + m >= b /\ r \in x + 1 .. q
      OBVIOUS
    <3>4. IsChain(s, r, q)
      BY <1>2, <3>2, <3>3
    <3> QED BY <3>1, <3>2, <3>3, <3>4, ChainRule
  <2> QED BY <2>1, <2>2
<1>3. Nat \subseteq T
  <2> HIDE DEF T
  <2> QED BY <1>1, <1>2, Induct
<1>4. p + b >= b /\ b \in Nat
  OBVIOUS
<1> QED BY <1>3, <1>4

LEMMA ChainGrows ==
    ASSUME NEW s \in Seq(Bytes), NEW p \in 0 .. Len(s), NEW b \in p .. Len(s),
           NEW q \in b + 1 .. Len(s), IsChain(s, p, b), IsItem(s, b, q)
    PROVE  IsChain(s, p, q) /\ Beginnings(s, p, q) = Beginnings(s, p, b) \cup {b}
<1>1. /\ q \in 0 .. Len(s) /\ b \in 0 .. q /\ p \in 0 .. b /\ q \in 0 .. q /\ q \in b + 1 .. q
      /\ b \in 0 .. Len(s) /\ b # q
  OBVIOUS
<1>2. IsChain(s, b, q)
  <2>1. IsChain(s, q, q)
    BY <1>1, ChainRule
  <2> QED BY <1>1, <2>1, ChainRule
<1>3. IsChain(s, p, q)
  BY <1>1, <1>2, ChainsJoin
<1>4. ASSUME NEW r \in p .. q - 1, IsChain(s, p, r) PROVE r =< b
  <2> SUFFICES ASSUME b < r PROVE FALSE
    OBVIOUS
  <2>1. r \in 0 .. Len(s) /\ b \in 0 .. r /\ r \in p .. Len(s) /\ b # r /\ b =< r
    OBVIOUS
  <2>2. IsChain(s, b, r)
    <3>1. Cuts(s, p)
      BY Unambiguous
    <3> QED BY <1>4, <2>1, <3>1 DEF Cuts
  <2>3. PICK x \in b + 1 .. r : IsItem(s, b, x)
    BY <2>1, <2>2, ChainRule
  <2>4. x \in b + 1 .. Len(s) /\ x < q
    OBVIOUS
  <2>5. Once(s, b)
    BY <1>1, Unambiguous
  <2>6. x = q
    BY <2>3, <2>4, <2>5 DEF Once
  <2> QED BY <2>4, <2>6
<1>5. Beginnings(s, p, q) \subseteq Beginnings(s, p, b) \cup {b}
  <2> SUFFICES ASSUME NEW r \in Beginnings(s, p, q), r # b PROVE r \in Beginnings(s, p, b)
    OBVIOUS
  <2>1. r \in p .. q - 1 /\ IsChain(s, p, r)
    BY DEF Beginnings
  <2>2. r \in p .. b - 1
    BY <1>4, <2>1
  <2> QED BY <2>1, <2>2 DEF Beginnings
<1>6. Beginnings(s, p, b) \cup {b} \subseteq Beginnings(s, p, q)
  BY DEF Beginnings
<1> QED BY <1>3, <1>5, <1>6

(* Where a chain has come, an item begins, if it goes on.                  *)
LEMMA ChainGoesOn ==
    ASSUME NEW s \in Seq(Bytes), NEW p \in 0 .. Len(s), NEW e \in p .. Len(s), NEW b \in p .. e - 1,
           IsChain(s, p, b), IsChain(s, p, e)
    PROVE  b \in Beginnings(s, p, e) /\ \E q \in b + 1 .. e : IsItem(s, b, q)
<1>1. e \in 0 .. Len(s) /\ b \in 0 .. e /\ b \in p .. Len(s) /\ b =< e /\ b # e
  OBVIOUS
<1>2. IsChain(s, b, e)
  <2>1. Cuts(s, p)
    BY Unambiguous
  <2> QED BY <1>1, <2>1 DEF Cuts
<1>3. \E q \in b + 1 .. e : IsItem(s, b, q)
  BY <1>1, <1>2, ChainRule
<1> QED BY <1>3 DEF Beginnings

----------------------------------------------------------------------------
(* The group that is open at p ends at x; the d groups that are open at p  *)
(* end, the last of them at q.                                             *)
CloseOne(s, p, x) == \E r \in p .. Len(s) : IsChain(s, p, r) /\ EndsGroup(s, r, x)

Closes(s, d, p, q) ==
    \E c \in [0 .. d -> 0 .. q] :
        c[0] = p /\ c[d] = q /\ \A k \in 0 .. d - 1 : CloseOne(s, c[k], c[k + 1])

LEMMA CloseLies ==
    ASSUME NEW s \in Seq(Bytes), NEW p \in Nat, NEW x, CloseOne(s, p, x)
    PROVE  /\ p \in 0 .. Len(s) /\ x \in p + 1 .. Len(s) /\ x \in Nat
           /\ HasVarint(s, p) /\ BehindVarint(s, p) =< x
           /\ TypeAt(s, p) \in 0 .. 5
           /\ TypeAt(s, p) = 4 <=> EndsGroup(s, p, x)
           /\ TypeAt(s, p) = 4 \/ \E t \in p + 1 .. x - 1 : IsItem(s, p, t) /\ CloseOne(s, t, x)
<1>1. PICK r \in p .. Len(s) : IsChain(s, p, r) /\ EndsGroup(s, r, x)
  BY DEF CloseOne
<1>2. HasVarint(s, r) /\ TypeAt(s, r) = 4 /\ x = BehindVarint(s, r)
  BY <1>1 DEF EndsGroup
<1>3. r \in Nat /\ x \in r + 1 .. Len(s)
  <2>1. r \in Nat
    OBVIOUS
  <2> QED BY <1>2, <2>1, VarintLies
<1>4. p \in 0 .. Len(s) /\ x \in p + 1 .. Len(s) /\ x \in Nat
  BY <1>3
<1>5. CASE r = p
  <2>1. EndsGroup(s, p, x) /\ BehindVarint(s, p) =< x
    BY <1>1, <1>2, <1>4, <1>5
  <2> QED BY <1>2, <1>4, <1>5, <2>1
<1>6. CASE r # p
  <2>1. r \in 0 .. Len(s) /\ p \in 0 .. r
    OBVIOUS
  <2>2. PICK t \in p + 1 .. r : IsItem(s, p, t) /\ IsChain(s, t, r)
    BY <1>1, <1>6, <2>1, ChainRule
  <2>3. HasVarint(s, p) /\ BehindVarint(s, p) =< t /\ TypeAt(s, p) \in {0, 1, 2, 3, 5}
    <3>1. t \in Nat
      OBVIOUS
    <3> QED BY <2>2, <3>1, ItemLies
  <2>4. CloseOne(s, t, x)
    <3>1. r \in t .. Len(s)
      OBVIOUS
    <3> QED BY <1>1, <2>2, <3>1 DEF CloseOne
  <2>5. t \in p + 1 .. x - 1
    BY <1>3
  <2>6. BehindVarint(s, p) =< x
    <3> DEFINE b == BehindVarint(s, p)
    <3>1. b \in Nat
      BY <2>3, VarintLies
    <3> HIDE DEF b
    <3>2. b =< t
      BY <2>3 DEF b
    <3>3. b =< x
      BY <1>4, <2>5, <3>1, <3>2
    <3> QED BY <3>3 DEF b
  <2>7. TypeAt(s, p) # 4 /\ ~ EndsGroup(s, p, x)
    BY <2>3 DEF EndsGroup
  <2> QED BY <1>4, <2>2, <2>3, <2>4, <2>5, <2>6, <2>7
<1> QED BY <1>5, <1>6

LEMMA ClosesNone ==
    ASSUME NEW s, NEW p \in Nat, NEW q \in Nat
    PROVE  Closes(s, 0, p, q) <=> p = q
<1>1. ASSUME p = q PROVE Closes(s, 0, p, q)
  <2> DEFINE c == [k \in 0 .. 0 |-> q]
  <2>1. c \in [0 .. 0 -> 0 .. q] /\ c[0] = p /\ c[0] = q /\ 0 .. 0 - 1 = {}
    BY <1>1
  <2> HIDE DEF c
  <2> QED BY <2>1 DEF Closes
<1> QED BY <1>1 DEF Closes

LEMMA ClosesMore ==
    ASSUME NEW s \in Seq(Bytes), NEW d \in Nat, NEW p \in Nat, NEW q \in 0 .. Len(s)
    PROVE  Closes(s, d + 1, p, q) <=> \E x \in 0 .. q : CloseOne(s, p, x) /\ Closes(s, d, x, q)
<1>1. ASSUME Closes(s, d + 1, p, q)
      PROVE  \E x \in 0 .. q : CloseOne(s, p, x) /\ Closes(s, d, x, q)
  <2>1. PICK c \in [0 .. d + 1 -> 0 .. q] :
            c[0] = p /\ c[d + 1] = q /\ \A k \in 0 .. (d + 1) - 1 : CloseOne(s, c[k], c[k + 1])
    BY <1>1 DEF Closes
  <2> DEFINE f == [k \in 0 .. d |-> c[k + 1]]
  <2>2. \A k \in 0 .. d : k + 1 \in 0 .. d + 1
    OBVIOUS
  <2>3. f \in [0 .. d -> 0 .. q]
    BY <2>2
  <2>4. f[0] = c[1] /\ f[d] = q /\ c[1] \in 0 .. q
    BY <2>1
  <2>5. ASSUME NEW k \in 0 .. d - 1 PROVE CloseOne(s, f[k], f[k + 1])
    <3>1. k \in 0 .. d /\ k + 1 \in 0 .. d /\ k + 1 \in 0 .. (d + 1) - 1
      OBVIOUS
    <3>2. f[k] = c[k + 1] /\ f[k + 1] = c[k + 1 + 1]
      BY <3>1
    <3> HIDE DEF f
    <3> QED BY <2>1, <3>1, <3>2
  <2> HIDE DEF f
  <2>6. Closes(s, d, c[1], q)
    BY <2>3, <2>4, <2>5 DEF Closes
  <2>7. CloseOne(s, p, c[1])
    <3>1. 0 \in 0 .. (d + 1) - 1 /\ 0 + 1 = 1
      OBVIOUS
    <3> QED BY <2>1, <3>1
  <2> QED BY <2>4, <2>6, <2>7
<1>2. ASSUME NEW x \in 0 .. q, CloseOne(s, p, x), Closes(s, d, x, q)
      PROVE  Closes(s, d + 1, p, q)
  <2>1. PICK c \in [0 .. d -> 0 .. q] :
            c[0] = x /\ c[d] = q /\ \A k \in 0 .. d - 1 : CloseOne(s, c[k], c[k + 1])
    BY <1>2 DEF Closes
  <2> DEFINE f == [k \in 0 .. d + 1 |-> IF k = 0 THEN p ELSE c[k - 1]]
  <2>2. p \in 0 .. q
    <3>1. x \in p + 1 .. Len(s)
      BY <1>2, CloseLies
    <3> QED BY <3>1
  <2>3. \A k \in 0 .. d + 1 : k # 0 => k - 1 \in 0 .. d
    OBVIOUS
  <2>4. f \in [0 .. d + 1 -> 0 .. q]
    BY <2>2, <2>3
  <2>5. f[0] = p /\ f[d + 1] = q
    BY <2>1
  <2>6. ASSUME NEW k \in 0 .. (d + 1) - 1 PROVE CloseOne(s, f[k], f[k + 1])
    <3>1. k \in 0 .. d + 1 /\ k + 1 \in 0 .. d + 1 /\ k + 1 # 0 /\ (k + 1) - 1 = k
      OBVIOUS
    <3>2. f[k] = (IF k = 0 THEN p ELSE c[k - 1]) /\ f[k + 1] = c[k]
      BY <3>1
    <3> HIDE DEF f
    <3>3. CASE k = 0
      BY <1>2, <2>1, <3>2, <3>3
    <3>4. CASE k # 0
      <4>1. k - 1 \in 0 .. d - 1 /\ (k - 1) + 1 = k
        BY <3>4
      <4>2. CloseOne(s, c[k - 1], c[k])
        BY <2>1, <4>1
      <4> QED BY <3>2, <3>4, <4>2
    <3> QED BY <3>3, <3>4
  <2> HIDE DEF f
  <2> QED BY <2>4, <2>5, <2>6 DEF Closes
<1> QED BY <1>1, <1>2

(* Where the group that is open at p ends, from what lies at p: behind an  *)
(* item nothing has changed,                                               *)
LEMMA CloseBehindItem ==
    ASSUME NEW s \in Seq(Bytes), NEW p \in 0 .. Len(s), NEW e \in p + 1 .. Len(s), IsItem(s, p, e),
           NEW x
    PROVE  CloseOne(s, p, x) <=> CloseOne(s, e, x)
<1>1. p \in Nat /\ e \in Nat
  OBVIOUS
<1>2. TypeAt(s, p) # 4
  BY <1>1, ItemLies
<1>3. ASSUME CloseOne(s, p, x) PROVE CloseOne(s, e, x)
  <2>1. x \in p + 1 .. Len(s)
    BY <1>1, <1>3, CloseLies
  <2>2. PICK t \in p + 1 .. x - 1 : IsItem(s, p, t) /\ CloseOne(s, t, x)
    BY <1>1, <1>2, <1>3, CloseLies
  <2>3. t \in p + 1 .. Len(s)
    BY <2>1
  <2>4. Once(s, p)
    BY Unambiguous
  <2>5. t = e
    BY <2>2, <2>3, <2>4 DEF Once
  <2> QED BY <2>2, <2>5
<1>4. ASSUME CloseOne(s, e, x) PROVE CloseOne(s, p, x)
  <2>1. PICK r \in e .. Len(s) : IsChain(s, e, r) /\ EndsGroup(s, r, x)
    BY <1>4 DEF CloseOne
  <2>2. r \in 0 .. Len(s) /\ p \in 0 .. r /\ e \in p + 1 .. r /\ r \in p .. Len(s)
    OBVIOUS
  <2>3. IsChain(s, p, r)
    BY <2>1, <2>2, ChainRule
  <2> QED BY <2>1, <2>2, <2>3 DEF CloseOne
<1> QED BY <1>3, <1>4

(* and nothing ends behind an item that does not fit.                      *)
LEMMA CloseBehindScalar ==
    ASSUME NEW s \in Seq(Bytes), NEW p \in 0 .. Len(s), NEW e, IsScalar(s, p, e), NEW x
    PROVE  CloseOne(s, p, x) <=> CloseOne(s, e, x)
<1>1. p \in Nat /\ e \in Nat /\ p < e /\ TypeAt(s, p) \in {0, 1, 2, 5}
  <2>1. p \in Nat
    OBVIOUS
  <2> QED BY <2>1, ScalarLies
<1>2. CASE e =< Len(s)
  <2>1. e \in p + 1 .. Len(s)
    BY <1>1, <1>2
  <2>2. IsItem(s, p, e)
    BY DEF IsItem
  <2> QED BY <2>1, <2>2, CloseBehindItem
<1>3. CASE e > Len(s)
  <2>1. ~ CloseOne(s, e, x)
    <3>1. e .. Len(s) = {}
      BY <1>1, <1>3
    <3> QED BY <3>1 DEF CloseOne
  <2>2. ~ CloseOne(s, p, x)
    <3> SUFFICES ASSUME CloseOne(s, p, x) PROVE FALSE
      OBVIOUS
    <3>1. x \in p + 1 .. Len(s)
      BY <1>1, CloseLies
    <3>2. PICK t \in p + 1 .. x - 1 : IsItem(s, p, t)
      BY <1>1, CloseLies
    <3>3. t \in Nat /\ t =< Len(s)
      BY <3>1
    <3>4. IsScalar(s, p, t)
      BY <1>1, <3>2, <3>3, ItemLies
    <3>5. t = e
      BY <3>4, ScalarsAgree
    <3> QED BY <1>1, <1>3, <3>3, <3>5
  <2> QED BY <2>1, <2>2
<1>4. Len(s) \in Nat
  OBVIOUS
<1> QED BY <1>1, <1>2, <1>3, <1>4

(* A group that begins at p ends first.                                    *)
LEMMA GroupIsClosed ==
    ASSUME NEW s \in Seq(Bytes), NEW p \in Nat, NEW q \in Nat, HasVarint(s, p), TypeAt(s, p) = 3
    PROVE  IsItem(s, p, q) <=> CloseOne(s, BehindVarint(s, p), q)
<1> DEFINE b == BehindVarint(s, p)
<1>1. b \in Nat
  BY VarintLies
<1>2. ASSUME IsItem(s, p, q) PROVE CloseOne(s, b, q)
  <2>1. IsGroup(Chains(s), s, p, q)
    BY <1>2, ItemLies
  <2>2. PICK r \in b .. q - 1 : EndsGroup(s, r, q) /\ IsChain(s, b, r)
    BY <2>1, GroupIs
  <2> HIDE DEF b
  <2>3. r \in Nat
    BY <1>1
  <2>4. q \in r + 1 .. Len(s)
    BY <2>2, <2>3, VarintLies DEF EndsGroup
  <2>5. r \in b .. Len(s)
    BY <1>1, <2>4
  <2> QED BY <2>2, <2>5 DEF CloseOne
<1>3. ASSUME CloseOne(s, b, q) PROVE IsItem(s, p, q)
  <2> HIDE DEF b
  <2>1. PICK r \in b .. Len(s) : IsChain(s, b, r) /\ EndsGroup(s, r, q)
    BY <1>3 DEF CloseOne
  <2>2. r \in Nat
    BY <1>1
  <2>3. q \in r + 1 .. Len(s)
    BY <2>1, <2>2, VarintLies DEF EndsGroup
  <2>4. r \in b .. q - 1
    BY <1>1, <2>3
  <2>5. IsGroup(Chains(s), s, p, q)
    BY <2>1, <2>4, GroupIs DEF b
  <2> QED BY <2>5 DEF IsItem
<1> QED BY <1>2, <1>3

(* What skip knows of the item at o when d groups are open: before it      *)
(* reads the tag at p, and when it has passed to p.                        *)
Passed(s, o, d, p) == \A q \in o + 1 .. Len(s) : IsItem(s, o, q) <=> Closes(s, d, p, q)

Awaits(s, o, d, p) == p \in Nat /\ p >= o /\ IF d = 0 THEN p = o ELSE Passed(s, o, d, p)

LEMMA AwaitsClose ==
    ASSUME NEW s \in Seq(Bytes), NEW o \in 0 .. Len(s), NEW d \in Nat, d > 0, NEW p,
           Awaits(s, o, d, p), NEW q \in o + 1 .. Len(s)
    PROVE  IsItem(s, o, q) <=> \E x \in 0 .. q : CloseOne(s, p, x) /\ Closes(s, d - 1, x, q)
<1>1. IsItem(s, o, q) <=> Closes(s, d, p, q)
  BY DEF Awaits, Passed
<1>2. d - 1 \in Nat /\ (d - 1) + 1 = d /\ q \in 0 .. Len(s)
  OBVIOUS
<1>3. p \in Nat
  BY DEF Awaits
<1>4. Closes(s, (d - 1) + 1, p, q) <=> \E x \in 0 .. q : CloseOne(s, p, x) /\ Closes(s, d - 1, x, q)
  BY <1>2, <1>3, ClosesMore
<1> QED BY <1>1, <1>2, <1>4

(* The item goes on with the tag at p, whatever is open.                   *)
LEMMA AwaitsLies ==
    ASSUME NEW s \in Seq(Bytes), NEW o \in 0 .. Len(s), NEW d \in Nat, NEW p, Awaits(s, o, d, p),
           NEW q \in o + 1 .. Len(s), IsItem(s, o, q)
    PROVE  /\ p \in 0 .. Len(s) /\ HasVarint(s, p) /\ BehindVarint(s, p) =< q
           /\ TypeAt(s, p) \in 0 .. 5 /\ (TypeAt(s, p) = 4 => d > 0)
           /\ TypeAt(s, p) \in {0, 2} =>
                  /\ HasVarint(s, BehindVarint(s, p))
                  /\ BehindVarint(s, BehindVarint(s, p)) =< q
<1> DEFINE b == BehindVarint(s, p)
           c == BehindVarint(s, b)
<1>1. p \in Nat
  BY DEF Awaits
<1>2. ASSUME NEW t \in p + 1 .. q, IsItem(s, p, t), TypeAt(s, p) \in {0, 2}
      PROVE  HasVarint(s, b) /\ c =< q
  <2>1. t \in Nat
    BY <1>1
  <2>2. IsScalar(s, p, t)
    BY <1>1, <1>2, <2>1, ItemLies
  <2>3. HasVarint(s, p) /\ HasVarint(s, b) /\ c =< t
    BY <1>1, <1>2, <2>1, <2>2, ScalarLies
  <2>4. b \in Nat
    BY <1>1, <2>3, VarintLies
  <2>5. c \in Nat
    <3> HIDE DEF b
    <3> QED BY <2>3, <2>4, VarintLies
  <2> HIDE DEF c
  <2>6. c =< q
    BY <2>1, <2>3, <2>5
  <2> QED BY <2>3, <2>6
<1>3. CASE d = 0
  <2>1. p = o
    BY <1>3 DEF Awaits
  <2>2. IsItem(s, p, q) /\ q \in Nat /\ q \in p + 1 .. q
    BY <2>1
  <2>3. HasVarint(s, p) /\ b =< q /\ TypeAt(s, p) \in {0, 1, 2, 3, 5}
    BY <1>1, <2>2, ItemLies
  <2>4. TypeAt(s, p) \in 0 .. 5 /\ TypeAt(s, p) # 4
    BY <2>3
  <2> QED BY <1>2, <2>1, <2>2, <2>3, <2>4
<1>4. CASE d # 0
  <2>1. d > 0
    BY <1>4
  <2>2. PICK x \in 0 .. q : CloseOne(s, p, x)
    BY <2>1, AwaitsClose
  <2>3. p \in 0 .. Len(s) /\ x \in p + 1 .. Len(s) /\ HasVarint(s, p) /\ b =< x
        /\ TypeAt(s, p) \in 0 .. 5
    BY <1>1, <2>2, CloseLies
  <2>4. b \in Nat
    BY <1>1, <2>3, VarintLies
  <2>5. b =< q
    <3> HIDE DEF b
    <3> QED BY <2>3, <2>4
  <2>6. ASSUME TypeAt(s, p) \in {0, 2} PROVE HasVarint(s, b) /\ c =< q
    <3>1. TypeAt(s, p) # 4
      BY <2>6
    <3>2. PICK t \in p + 1 .. x - 1 : IsItem(s, p, t)
      BY <1>1, <2>2, <3>1, CloseLies
    <3>3. t \in p + 1 .. q
      BY <1>1
    <3> HIDE DEF b, c
    <3> QED BY <1>2, <2>6, <3>2, <3>3
  <2> QED BY <2>1, <2>3, <2>5, <2>6
<1> QED BY <1>3, <1>4

LEMMA AwaitsScalar ==
    ASSUME NEW s \in Seq(Bytes), NEW o \in 0 .. Len(s), NEW d \in Nat, NEW p \in 0 .. Len(s),
           Awaits(s, o, d, p), NEW e, IsScalar(s, p, e)
    PROVE  Passed(s, o, d, e) /\ e \in Nat /\ e > o
<1>1. p \in Nat /\ p >= o
  BY DEF Awaits
<1>2. e \in Nat /\ p < e
  BY <1>1, ScalarLies
<1>3. SUFFICES ASSUME NEW q \in o + 1 .. Len(s) PROVE IsItem(s, o, q) <=> Closes(s, d, e, q)
  BY <1>1, <1>2 DEF Passed
<1>4. CASE d = 0
  <2>1. p = o
    BY <1>4 DEF Awaits
  <2>2. IsItem(s, o, q) <=> e = q
    <3>1. ASSUME IsItem(s, p, q) PROVE e = q
      <4>1. q \in Nat
        OBVIOUS
      <4>2. TypeAt(s, p) # 3
        BY <1>1, ScalarLies
      <4>3. IsScalar(s, p, q)
        BY <1>1, <3>1, <4>1, <4>2, ItemLies
      <4> QED BY <4>3, ScalarsAgree
    <3>2. e = q => IsItem(s, p, q)
      BY DEF IsItem
    <3> QED BY <2>1, <3>1, <3>2
  <2>3. Closes(s, 0, e, q) <=> e = q
    <3>1. q \in Nat
      OBVIOUS
    <3> QED BY <1>2, <3>1, ClosesNone
  <2> QED BY <1>4, <2>2, <2>3
<1>5. CASE d # 0
  <2>1. d > 0 /\ d - 1 \in Nat /\ (d - 1) + 1 = d /\ q \in 0 .. Len(s)
    BY <1>5
  <2>2. IsItem(s, o, q) <=> \E x \in 0 .. q : CloseOne(s, p, x) /\ Closes(s, d - 1, x, q)
    BY <2>1, AwaitsClose
  <2>3. Closes(s, (d - 1) + 1, e, q) <=> \E x \in 0 .. q : CloseOne(s, e, x) /\ Closes(s, d - 1, x, q)
    BY <1>2, <2>1, ClosesMore
  <2>4. \A x : CloseOne(s, p, x) <=> CloseOne(s, e, x)
    BY CloseBehindScalar
  <2> QED BY <2>1, <2>2, <2>3, <2>4
<1> QED BY <1>4, <1>5

LEMMA AwaitsGroup ==
    ASSUME NEW s \in Seq(Bytes), NEW o \in 0 .. Len(s), NEW d \in Nat, NEW p \in 0 .. Len(s),
           Awaits(s, o, d, p), HasVarint(s, p), TypeAt(s, p) = 3
    PROVE  Passed(s, o, d + 1, BehindVarint(s, p))
<1> DEFINE b == BehindVarint(s, p)
<1>1. p \in Nat /\ b \in p + 1 .. Len(s) /\ b \in Nat
  BY VarintLies
<1>2. \A x \in Nat : IsItem(s, p, x) <=> CloseOne(s, b, x)
  BY <1>1, GroupIsClosed
<1> HIDE DEF b
<1>3. SUFFICES ASSUME NEW q \in o + 1 .. Len(s)
               PROVE  IsItem(s, o, q) <=> Closes(s, d + 1, b, q)
  BY DEF Passed, b
<1>4. q \in 0 .. Len(s) /\ q \in Nat
  OBVIOUS
<1>5. Closes(s, d + 1, b, q) <=> \E y \in 0 .. q : CloseOne(s, b, y) /\ Closes(s, d, y, q)
  BY <1>1, <1>4, ClosesMore
<1>6. CASE d = 0
  <2>1. p = o
    BY <1>6 DEF Awaits
  <2>2. \A y \in 0 .. q : Closes(s, 0, y, q) <=> y = q
    BY <1>4, ClosesNone
  <2>3. IsItem(s, o, q) <=> CloseOne(s, b, q)
    BY <1>2, <1>4, <2>1
  <2>4. q \in 0 .. q
    BY <1>4
  <2> QED BY <1>5, <1>6, <2>2, <2>3, <2>4
<1>7. CASE d # 0
  <2>1. d > 0 /\ d - 1 \in Nat /\ (d - 1) + 1 = d
    BY <1>7
  <2>2. IsItem(s, o, q) <=> \E x \in 0 .. q : CloseOne(s, p, x) /\ Closes(s, d - 1, x, q)
    BY <2>1, AwaitsClose
  <2>3. ASSUME NEW x \in 0 .. q, CloseOne(s, p, x), Closes(s, d - 1, x, q)
        PROVE  \E y \in 0 .. q : CloseOne(s, b, y) /\ Closes(s, d, y, q)
    <3>1. TypeAt(s, p) # 4
      OBVIOUS
    <3>2. PICK y \in p + 1 .. x - 1 : IsItem(s, p, y) /\ CloseOne(s, y, x)
      BY <1>1, <2>3, <3>1, CloseLies
    <3>3. y \in 0 .. q /\ y \in Nat
      OBVIOUS
    <3>4. Closes(s, (d - 1) + 1, y, q)
      BY <1>4, <2>1, <2>3, <3>2, <3>3, ClosesMore
    <3> QED BY <1>2, <2>1, <3>2, <3>3, <3>4
  <2>4. ASSUME NEW y \in 0 .. q, CloseOne(s, b, y), Closes(s, d, y, q)
        PROVE  \E x \in 0 .. q : CloseOne(s, p, x) /\ Closes(s, d - 1, x, q)
    <3>1. y \in Nat /\ y \in b + 1 .. Len(s)
      BY <1>1, <2>4, CloseLies
    <3>2. IsItem(s, p, y)
      BY <1>2, <2>4, <3>1
    <3>3. y \in p + 1 .. Len(s)
      BY <1>1, <3>1
    <3>4. PICK x \in 0 .. q : CloseOne(s, y, x) /\ Closes(s, d - 1, x, q)
      <4>1. Closes(s, (d - 1) + 1, y, q)
        BY <2>1, <2>4
      <4> QED BY <1>4, <2>1, <3>1, <4>1, ClosesMore
    <3>5. CloseOne(s, p, x)
      BY <3>2, <3>3, <3>4, CloseBehindItem
    <3> QED BY <3>4, <3>5
  <2> QED BY <1>5, <2>2, <2>3, <2>4
<1> QED BY <1>6, <1>7

LEMMA AwaitsGroupEnd ==
    ASSUME NEW s \in Seq(Bytes), NEW o \in 0 .. Len(s), NEW d \in Nat, NEW p \in 0 .. Len(s),
           Awaits(s, o, d, p), HasVarint(s, p), TypeAt(s, p) = 4, d > 0
    PROVE  Passed(s, o, d - 1, BehindVarint(s, p))
<1> DEFINE b == BehindVarint(s, p)
<1>1. p \in Nat /\ b \in p + 1 .. Len(s)
  BY VarintLies
<1>2. SUFFICES ASSUME NEW q \in o + 1 .. Len(s)
               PROVE  IsItem(s, o, q) <=> Closes(s, d - 1, b, q)
  BY DEF Passed
<1>3. IsItem(s, o, q) <=> \E x \in 0 .. q : CloseOne(s, p, x) /\ Closes(s, d - 1, x, q)
  BY AwaitsClose
<1>4. \A x : CloseOne(s, p, x) => x = b
  BY <1>1, CloseLies DEF EndsGroup
<1>5. CloseOne(s, p, b)
  <2>1. EndsGroup(s, p, b)
    BY DEF EndsGroup
  <2>2. IsChain(s, p, p) /\ p \in p .. Len(s)
    <3>1. p \in 0 .. p
      OBVIOUS
    <3> QED BY <3>1, ChainRule
  <2> HIDE DEF b
  <2> QED BY <2>1, <2>2 DEF CloseOne
<1>6. Closes(s, d - 1, b, q) => b \in 0 .. q
  <2> HIDE DEF b
  <2> SUFFICES ASSUME Closes(s, d - 1, b, q) PROVE b \in 0 .. q
    OBVIOUS
  <2>1. PICK c \in [0 .. d - 1 -> 0 .. q] : c[0] = b
    BY DEF Closes
  <2>2. 0 \in 0 .. d - 1
    OBVIOUS
  <2> QED BY <2>1, <2>2
<1> HIDE DEF b
<1> QED BY <1>3, <1>4, <1>5, <1>6

(* When no group is open any more, the item has been passed.               *)
LEMMA ItemPassed ==
    ASSUME NEW s \in Seq(Bytes), NEW o \in 0 .. Len(s), NEW p \in Nat, Passed(s, o, 0, p)
    PROVE  \A q \in o + 1 .. Len(s) : IsItem(s, o, q) <=> q = p
<1> SUFFICES ASSUME NEW q \in o + 1 .. Len(s) PROVE IsItem(s, o, q) <=> q = p
  OBVIOUS
<1>1. q \in Nat
  OBVIOUS
<1>2. Closes(s, 0, p, q) <=> p = q
  BY <1>1, ClosesNone
<1> QED BY <1>2 DEF Passed

----------------------------------------------------------------------------
LEMMA MaxIs ==
    ASSUME NEW S, NEW x \in S, S \subseteq Int, \A y \in S : y =< x
    PROVE  Max(S) = x
<1>1. \E z \in S : \A y \in S : z >= y
  OBVIOUS
<1>2. Max(S) \in S /\ \A y \in S : Max(S) >= y
  <2> DEFINE m == CHOOSE z \in S : \A y \in S : z >= y
  <2>1. m \in S /\ \A y \in S : m >= y
    BY <1>1
  <2> QED BY <2>1 DEF Max
<1> DEFINE m == Max(S)
<1>3. m \in Int /\ x \in Int /\ m =< x /\ x =< m
  BY <1>2
<1> HIDE DEF m
<1>4. m = x
  BY <1>3
<1> QED BY <1>4 DEF m

(* The message has been decoded up to b, with the authority a.             *)
Outer(s, m, a, b) ==
    /\ b \in 0 .. Len(s) /\ IsChain(s, 0, b)
    /\ \A r \in Beginnings(s, 0, b) : IsField(s, m, r)
    /\ a = Meaning(s, m, b)

(* The field at b is the message whose content is decoded, from f to e.    *)
Encloses(s, m, b, f, e) ==
    /\ HasVarint(s, b) /\ IsNumbered(s, b) /\ TypeAt(s, b) = 2 /\ IsKnown(s, m, b, "message")
    /\ HasVarint(s, LengthAt(s, b)) /\ f = ContentAt(s, b) /\ e = BehindContent(s, b)

Inner(s, m, a, f, e) ==
    \E x \in 0 .. Len(s) : Outer(s, m, a, x) /\ Encloses(s, m, x, f, e)

(* The slice from f to e has been decoded up to b.                         *)
DecodedTo(s, m, a, f, e, b) ==
    IF f > 0 THEN IsParams(s, f, b) /\ Inner(s, m, a, f, e)
    ELSE Outer(s, m, a, b) /\ e = Len(s)

LEMMA NoBeginnings ==
    ASSUME NEW s \in Seq(Bytes), NEW p \in 0 .. Len(s)
    PROVE  Beginnings(s, p, p) = {} /\ IsChain(s, p, p)
<1>1. p \in 0 .. p /\ p .. p - 1 = {}
  OBVIOUS
<1>2. IsChain(s, p, p)
  BY <1>1, ChainRule
<1> QED BY <1>1, <1>2 DEF Beginnings

LEMMA DecodingStarts ==
    ASSUME NEW s \in Seq(Bytes), NEW m
    PROVE  DecodedTo(s, m, <<>>, 0, Len(s), 0)
<1>1. 0 \in 0 .. Len(s)
  OBVIOUS
<1>2. Beginnings(s, 0, 0) = {} /\ IsChain(s, 0, 0)
  BY <1>1, NoBeginnings
<1>3. Namings(s, m, 0) = {}
  BY <1>2 DEF Namings
<1>4. Outer(s, m, <<>>, 0)
  BY <1>1, <1>2, <1>3 DEF Outer, Meaning
<1> QED BY <1>4 DEF DecodedTo

(* In a message of the grammar, an item begins where decoding has come.    *)
LEMMA DecodingGoesOn ==
    ASSUME NEW s \in Seq(Bytes), NEW m, NEW a, NEW f \in Nat, NEW e \in f .. Len(s),
           NEW b \in f .. e - 1, DecodedTo(s, m, a, f, e, b), IsMessage(s, m)
    PROVE  /\ IsNumbered(s, b) /\ (f = 0 => IsField(s, m, b))
           /\ \E q \in b + 1 .. e : IsItem(s, b, q)
<1> DEFINE N == Len(s)
<1>1. N \in Nat /\ N \in 0 .. N /\ 0 \in 0 .. N
  OBVIOUS
<1>2. ASSUME NEW x \in 0 .. N - 1, IsChain(s, 0, x)
      PROVE  IsField(s, m, x) /\ \E q \in x + 1 .. N : IsItem(s, x, q)
  <2>1. IsChain(s, 0, N) /\ \A r \in Beginnings(s, 0, N) : IsField(s, m, r)
    BY DEF IsMessage
  <2>2. x \in Beginnings(s, 0, N) /\ \E q \in x + 1 .. N : IsItem(s, x, q)
    BY <1>1, <1>2, <2>1, ChainGoesOn
  <2> QED BY <2>1, <2>2
<1>3. CASE f = 0
  <2>1. e = N /\ IsChain(s, 0, b) /\ b \in 0 .. N - 1
    BY <1>3 DEF DecodedTo, Outer
  <2>2. IsField(s, m, b) /\ \E q \in b + 1 .. N : IsItem(s, b, q)
    BY <1>2, <2>1
  <2>3. IsNumbered(s, b)
    BY <2>2 DEF IsField
  <2> QED BY <2>1, <2>2, <2>3
<1>4. CASE f # 0
  <2>1. IsParams(s, f, b) /\ Inner(s, m, a, f, e)
    BY <1>4 DEF DecodedTo
  <2>2. PICK x \in 0 .. N : Outer(s, m, a, x) /\ Encloses(s, m, x, f, e)
    BY <2>1 DEF Inner
  <2>3. HasVarint(s, x) /\ IsKnown(s, m, x, "message") /\ f = ContentAt(s, x) /\ e = BehindContent(s, x)
    BY <2>2 DEF Encloses
  <2>4. x \in 0 .. N - 1
    <3>1. x \in Nat
      OBVIOUS
    <3>2. BehindVarint(s, x) \in x + 1 .. N
      BY <2>3, <3>1, VarintLies
    <3> QED BY <3>1, <3>2
  <2>5. IsField(s, m, x)
    BY <1>2, <2>2, <2>4 DEF Outer
  <2>6. IsParams(s, f, e)
    BY <2>3, <2>5 DEF IsField
  <2>7. IsChain(s, f, b) /\ IsChain(s, f, e) /\ \A r \in Beginnings(s, f, e) : IsNumbered(s, r)
    BY <2>1, <2>6 DEF IsParams
  <2>8. b \in Beginnings(s, f, e) /\ \E q \in b + 1 .. e : IsItem(s, b, q)
    <3>1. f \in 0 .. N
      OBVIOUS
    <3> QED BY <2>7, <3>1, ChainGoesOn
  <2> QED BY <1>4, <2>7, <2>8
<1> QED BY <1>3, <1>4

(* Behind an item, what has been decoded has grown by it.                  *)
LEMMA MeaningGrows ==
    ASSUME NEW s \in Seq(Bytes), NEW m, NEW b \in 0 .. Len(s), NEW q,
           Beginnings(s, 0, q) = Beginnings(s, 0, b) \cup {b}
    PROVE  Meaning(s, m, q) = IF IsKnown(s, m, b, "string")
                              THEN SubSeq(s, ContentAt(s, b) + 1, BehindContent(s, b))
                              ELSE Meaning(s, m, b)
<1>1. CASE IsKnown(s, m, b, "string")
  <2> DEFINE S == Namings(s, m, q)
  <2>1. b \in S
    BY <1>1 DEF Namings
  <2>2. S \subseteq Int /\ \A y \in S : y =< b
    <3> SUFFICES ASSUME NEW y \in S PROVE y \in Int /\ y =< b
      OBVIOUS
    <3>1. y \in Beginnings(s, 0, b) \/ y = b
      BY DEF Namings
    <3>2. y \in 0 .. b - 1 \/ y = b
      BY <3>1 DEF Beginnings
    <3> QED BY <3>2
  <2> HIDE DEF S
  <2>3. Max(S) = b /\ S # {}
    BY <2>1, <2>2, MaxIs
  <2> QED BY <1>1, <2>3 DEF Meaning, S
<1>2. CASE ~ IsKnown(s, m, b, "string")
  <2>1. Namings(s, m, q) = Namings(s, m, b)
    BY <1>2 DEF Namings
  <2> QED BY <1>2, <2>1 DEF Meaning
<1> QED BY <1>1, <1>2

LEMMA OuterGrows ==
    ASSUME NEW s \in Seq(Bytes), NEW m, NEW a, NEW b \in 0 .. Len(s), NEW q \in b + 1 .. Len(s),
           Outer(s, m, a, b), IsItem(s, b, q), IsField(s, m, b)
    PROVE  Outer(s, m, IF IsKnown(s, m, b, "string")
                       THEN SubSeq(s, ContentAt(s, b) + 1, BehindContent(s, b)) ELSE a, q)
<1>1. IsChain(s, 0, b) /\ (\A r \in Beginnings(s, 0, b) : IsField(s, m, r)) /\ a = Meaning(s, m, b)
  BY DEF Outer
<1>2. IsChain(s, 0, q) /\ Beginnings(s, 0, q) = Beginnings(s, 0, b) \cup {b}
  <2>1. 0 \in 0 .. Len(s) /\ b \in 0 .. Len(s)
    OBVIOUS
  <2> QED BY <1>1, <2>1, ChainGrows
<1>3. \A r \in Beginnings(s, 0, q) : IsField(s, m, r)
  BY <1>1, <1>2
<1>4. Meaning(s, m, q) = IF IsKnown(s, m, b, "string")
                         THEN SubSeq(s, ContentAt(s, b) + 1, BehindContent(s, b)) ELSE a
  BY <1>1, <1>2, MeaningGrows
<1>5. q \in 0 .. Len(s)
  OBVIOUS
<1> QED BY <1>2, <1>3, <1>4, <1>5 DEF Outer

LEMMA UnknownDecoded ==
    ASSUME NEW s \in Seq(Bytes), NEW m, NEW a, NEW f \in Nat, NEW e \in f .. Len(s),
           NEW b \in f .. e, NEW q \in b + 1 .. e, DecodedTo(s, m, a, f, e, b), IsItem(s, b, q),
           IsNumbered(s, b), f = 0 => NumberAt(s, b) \notin DOMAIN Schema[m]
    PROVE  DecodedTo(s, m, a, f, e, q)
<1>1. b \in 0 .. Len(s) /\ q \in b + 1 .. Len(s) /\ f \in 0 .. Len(s) /\ b \in f .. Len(s)
  OBVIOUS
<1>2. CASE f = 0
  <2>1. Outer(s, m, a, b) /\ e = Len(s)
    BY <1>2 DEF DecodedTo
  <2>2. \A kind : ~ IsKnown(s, m, b, kind)
    BY <1>2 DEF IsKnown
  <2>3. IsField(s, m, b)
    BY <2>2 DEF IsField
  <2>4. Outer(s, m, a, q)
    BY <1>1, <2>1, <2>2, <2>3, OuterGrows
  <2> QED BY <1>2, <2>1, <2>4 DEF DecodedTo
<1>3. CASE f # 0
  <2>1. IsParams(s, f, b) /\ Inner(s, m, a, f, e)
    BY <1>3 DEF DecodedTo
  <2>2. IsChain(s, f, q) /\ Beginnings(s, f, q) = Beginnings(s, f, b) \cup {b}
    BY <1>1, <2>1, ChainGrows DEF IsParams
  <2>3. IsParams(s, f, q)
    BY <2>1, <2>2 DEF IsParams
  <2> QED BY <1>3, <2>1, <2>3 DEF DecodedTo
<1> QED BY <1>2, <1>3

(* A field that is known has a length.                                     *)
LEMMA LengthDelimited ==
    ASSUME NEW s, NEW b, HasVarint(s, b), TypeAt(s, b) = 2, HasVarint(s, LengthAt(s, b))
    PROVE  IsScalar(s, b, BehindContent(s, b)) /\ IsItem(s, b, BehindContent(s, b))
BY DEF IsScalar, IsItem, LengthAt

LEMMA StringDecoded ==
    ASSUME NEW s \in Seq(Bytes), NEW m, NEW a, NEW e \in 0 .. Len(s),
           NEW b \in 0 .. e, NEW q \in b + 1 .. e, DecodedTo(s, m, a, 0, e, b),
           HasVarint(s, b), TypeAt(s, b) = 2, HasVarint(s, LengthAt(s, b)),
           q = BehindContent(s, b), IsNumbered(s, b), IsKnown(s, m, b, "string")
    PROVE  DecodedTo(s, m, SubSeq(s, ContentAt(s, b) + 1, q), 0, e, q)
<1>1. Outer(s, m, a, b) /\ e = Len(s)
  BY DEF DecodedTo
<1>2. IsItem(s, b, q)
  BY LengthDelimited
<1>3. ~ IsKnown(s, m, b, "message")
  BY DEF IsKnown
<1>4. IsField(s, m, b)
  BY <1>3 DEF IsField
<1>5. Outer(s, m, SubSeq(s, ContentAt(s, b) + 1, q), q)
  BY <1>1, <1>2, <1>4, OuterGrows
<1> QED BY <1>1, <1>5 DEF DecodedTo

LEMMA ParamsEntered ==
    ASSUME NEW s \in Seq(Bytes), NEW m, NEW a, NEW e \in 0 .. Len(s), NEW b \in 0 .. e,
           DecodedTo(s, m, a, 0, e, b), NEW f \in 1 .. Len(s), NEW q, Encloses(s, m, b, f, q)
    PROVE  DecodedTo(s, m, a, f, q, f)
<1>1. Outer(s, m, a, b) /\ b \in 0 .. Len(s)
  BY DEF DecodedTo
<1>2. Inner(s, m, a, f, q)
  BY <1>1 DEF Inner
<1>3. IsParams(s, f, f)
  <2>1. f \in 0 .. Len(s)
    OBVIOUS
  <2>2. Beginnings(s, f, f) = {} /\ IsChain(s, f, f)
    BY <2>1, NoBeginnings
  <2> QED BY <2>2 DEF IsParams
<1>4. f > 0
  OBVIOUS
<1> QED BY <1>2, <1>3, <1>4 DEF DecodedTo

LEMMA ParamsLeft ==
    ASSUME NEW s \in Seq(Bytes), NEW m, NEW a, NEW f \in 1 .. Len(s), NEW e \in f .. Len(s),
           DecodedTo(s, m, a, f, e, e)
    PROVE  DecodedTo(s, m, a, 0, Len(s), e)
<1>1. IsParams(s, f, e) /\ Inner(s, m, a, f, e)
  BY DEF DecodedTo
<1>2. PICK x \in 0 .. Len(s) : Outer(s, m, a, x) /\ Encloses(s, m, x, f, e)
  BY <1>1 DEF Inner
<1>3. /\ HasVarint(s, x) /\ IsNumbered(s, x) /\ TypeAt(s, x) = 2 /\ IsKnown(s, m, x, "message")
      /\ HasVarint(s, LengthAt(s, x)) /\ f = ContentAt(s, x) /\ e = BehindContent(s, x)
  BY <1>2 DEF Encloses
<1>4. IsScalar(s, x, e) /\ IsItem(s, x, e)
  BY <1>3, LengthDelimited
<1>5. ~ IsKnown(s, m, x, "string")
  BY <1>3 DEF IsKnown
<1>6. IsField(s, m, x)
  BY <1>1, <1>3, <1>5 DEF IsField
<1>7. e \in x + 1 .. Len(s)
  <2>1. x \in Nat
    OBVIOUS
  <2>2. x < e
    BY <1>4, <2>1, ScalarLies
  <2> QED BY <2>1, <2>2
<1>8. Outer(s, m, a, e)
  BY <1>2, <1>4, <1>5, <1>6, <1>7, OuterGrows
<1> QED BY <1>8 DEF DecodedTo
=============================================================================
