--------------------------- MODULE ProtoWireProofs ---------------------------
(***************************************************************************)
(* Theorems about ProtoWire: for every word size, every message and every  *)
(* byte string the encoder stays inside the buffer that Size made for it,  *)
(* and fills it; the decoder stays inside the slice it was given, gives    *)
(* back what was encoded, and accepts what the grammar calls a message.    *)
(***************************************************************************)
EXTENDS WireFormatProofs

USE ContAssumption, IntLimitAssumption, FieldLimitAssumption

(* While a field is read it begins in the slice, and skip has not gone     *)
(* back behind the place where it began.                                   *)
FieldInSlice ==
    /\ pc \notin {"start", "field"} \cup MarshalSteps \cup Results => preIndex \in from .. end
    /\ pc \in {"skip", "skipTag", "skipSwitch", "skipValue", "skipLength", "skipContent"} =>
           preIndex =< pos

(* Until Unmarshal is called its slice is not set.                         *)
NotStarted == pc \in {"start"} \cup MarshalSteps => from = 0 /\ pos = 0

IInv == TypeOK /\ NeverPanics /\ FieldInSlice /\ NotStarted

(* Together with what the encoder keeps.                                   *)
CodecInv == IInv /\ MInv

----------------------------------------------------------------------------
(* Words.  The sum of two ints from 0 on is right or negative.             *)
LEMMA SumOfInts ==
    ASSUME NEW x \in Nat, x < 2 * IntLimit
    PROVE  /\ ToInt(x) \in Int
           /\ ToInt(x) >= 0 => ToInt(x) = x
  BY DEF ToInt, Signed

LEMMA IntIsInt ==
    ASSUME NEW x \in Int
    PROVE  ToInt(x) \in Int
  BY DEF ToInt, Signed

LEMMA LengthType ==
    ASSUME TypeOK
    PROVE  /\ Length \in Int
           /\ Length >= 0 => Length < IntLimit
           /\ WireType \in 0 .. 7
  BY DEF TypeOK, Length, ToInt, Signed, Modulus, WireType

LEMMA DataType ==
    ASSUME TypeOK
    PROVE  data \in Seq(Bytes) /\ Len(data) \in Nat /\ Len(data) + 8 < IntLimit
  BY DEF TypeOK, MarshalTypeOK

LEMMA InputKept ==
    ASSUME TypeOK, UNCHANGED input
    PROVE  MarshalTypeOK'
  BY DEF TypeOK, MarshalTypeOK, input

LEMMA SliceType ==
    ASSUME TypeOK, pc \notin {"start"} \cup MarshalSteps
    PROVE  end \in from .. Len(data) /\ from \in Nat
  BY DEF TypeOK

(* A turn of the loop over bytes keeps the varint within a word.           *)
LEMMA VarintType ==
    ASSUME NEW b \in Bytes, NEW w \in 0 .. Modulus - 1, NEW h \in Nat \ {0}
    PROVE  /\ (w + (b % Cont) * h) % Modulus \in 0 .. Modulus - 1
           /\ Cont * h \in Nat \ {0}
<1>1. Modulus \in Nat \ {0}
  BY DEF Modulus
<1>2. b % Cont \in Nat
  BY DEF Bytes
<1>3. (b % Cont) * h \in Nat
  BY <1>2
<1>4. Cont * h \in Nat \ {0}
  BY SMT
<1>5. w + (b % Cont) * h \in Nat
  BY <1>1, <1>3
<1> QED BY <1>1, <1>4, <1>5

(* What LengthFits lets through lies between here and the slice's end.     *)
LEMMA FittingLength ==
    ASSUME IInv, pc = "content", LengthFits
    PROVE  PostIndex \in pos .. end /\ pos \in from .. end
<1>1. pos \in from .. end /\ from \in Nat /\ end \in from .. Len(data)
  BY SliceType DEF IInv, TypeOK, MarshalSteps
<1>2. Length \in 0 .. IntLimit - 1 /\ Len(data) \in Nat /\ Len(data) < IntLimit
  BY LengthType, DataType DEF IInv, LengthFits
<1> DEFINE sum == pos - from + Length
<1>3. sum \in Nat /\ sum < 2 * IntLimit
  BY <1>1, <1>2
<1>4. ToInt(sum) \in Int /\ (ToInt(sum) >= 0 => ToInt(sum) = sum)
  BY <1>3, SumOfInts
<1>5. PostIndex = from + ToInt(sum) /\ PostIndex >= from /\ PostIndex =< end
  BY DEF PostIndex, LengthFits
<1> HIDE DEF sum
<1>6. ToInt(sum) = sum
  BY <1>1, <1>4, <1>5
<1> QED BY <1>1, <1>2, <1>5, <1>6 DEF sum

LEMMA MovedType ==
    ASSUME IInv, NEW n \in Int
    PROVE  Moved(n) \in Int
<1>1. pos - preIndex + n \in Int /\ preIndex \in Nat
  BY DEF IInv, TypeOK
<1> QED BY <1>1, IntIsInt DEF Moved

----------------------------------------------------------------------------
LEMMA Initial == Init => CodecInv
<1> SUFFICES ASSUME Init PROVE CodecInv
  OBVIOUS
<1>1. MInv /\ pc \in {"start", "size"} /\ origin \in {"encoder", "wire"}
  <2>1. CASE origin = "encoder"
    BY <2>1, MarshalInitial DEF Init, InitMarshal
  <2>2. CASE origin = "wire"
    <3>1. data \in Seq(Bytes) /\ Len(data) + 8 < IntLimit
      BY <2>2, InputsAssumption DEF Init
    <3>2. Len(Schema[message]) \in 0 .. 2 /\ message \in DOMAIN Schema
      BY <2>2 DEF Init, Schema, MsgUpdateParams, MsgUpdateParamsResponse, GenesisState,
         QueryParamsRequest, QueryParamsResponse, Module, Params
    <3> QED BY <2>2, <3>1, <3>2 DEF Init, MInv, MarshalTypeOK, FillsBuffer, RoomIsExact
  <2> QED BY <2>1, <2>2 DEF Init
<1>2. MarshalTypeOK
  BY <1>1 DEF MInv
<1> QED BY <1>1, <1>2 DEF Init, CodecInv, IInv, TypeOK, NeverPanics, FieldInSlice, NotStarted,
       Results, Modulus, MarshalSteps, AfterVarint

(* The encoder leaves the decoder alone, and the other way round.          *)
LEMMA EncodeStep == CodecInv /\ Encode => CodecInv'
<1> SUFFICES ASSUME CodecInv, Encode PROVE CodecInv'
  OBVIOUS
<1>1. Marshal /\ UNCHANGED decoding
  BY DEF Encode, MarshalTx, MarshalParams, MarshalGenesis, MarshalQuery, MarshalModule
<1>2. MInv'
  BY <1>1, MarshalStep DEF CodecInv
<1>3. MarshalTypeOK' /\ pc' # "panicked"
  BY <1>2 DEF MInv
<1>4. pc \in MarshalSteps /\ pc' \in MarshalSteps
  BY <1>1, <1>3 DEF Marshal, MakeBuffer, OmitField, PutContent, PutVarintByte, PutLastByte, PutTag,
     Return, Put, MarshalSteps
<1> QED BY <1>1, <1>2, <1>3, <1>4 DEF CodecInv, IInv, TypeOK, NeverPanics, FieldInSlice, NotStarted,
       decoding, MarshalSteps, Results, AfterVarint

LEMMA DecodeSteps ==
    ASSUME Decode
    PROVE  \/ StartUnmarshal
           \/ BeginField \/ ReadByte \/ RejectTag \/ ReadLength \/ StartSkip
           \/ RejectLength \/ SetAuthority \/ EnterParams \/ LeaveParams \/ EndOfMessage
           \/ SkipTx \/ SkipParams \/ SkipGenesis \/ SkipQuery \/ SkipModule
BY DEF Decode, Unmarshal,
   UnmarshalTx, UnmarshalParams, UnmarshalGenesis, UnmarshalQuery, UnmarshalModule

LEMMA DecodeKeepsEncoder == CodecInv /\ Decode /\ IInv' => CodecInv'
<1> SUFFICES ASSUME CodecInv, Decode, IInv' PROVE CodecInv'
  OBVIOUS
<1>1. UNCHANGED input
  BY DecodeSteps DEF StartUnmarshal, BeginField, ReadByte, RejectTag, ReadLength, StartSkip,
     RejectLength, SetAuthority, EnterParams, LeaveParams, EndOfMessage,
     SkipTx, SkipParams, SkipGenesis, SkipQuery, SkipModule, SkipStep
<1>2. pc' \notin MarshalSteps
  <2>1. CASE ReadByte
    BY <2>1 DEF ReadByte, AfterVarint, MarshalSteps
  <2>2. CASE SkipTx \/ SkipParams \/ SkipGenesis \/ SkipQuery \/ SkipModule
    <3>1. SkipLoop \/ SkipItem \/ SkipContent \/ SkipEnd
      BY <2>2 DEF SkipTx, SkipParams, SkipGenesis, SkipQuery, SkipModule, SkipStep
    <3> QED BY <3>1 DEF SkipLoop, SkipItem, SkipContent, SkipEnd, StartVarint, MarshalSteps
  <2>3. CASE StartUnmarshal \/ BeginField \/ RejectTag \/ ReadLength \/ StartSkip
             \/ RejectLength \/ SetAuthority \/ EnterParams \/ LeaveParams \/ EndOfMessage
    BY <2>3 DEF StartUnmarshal, BeginField, RejectTag, ReadLength, StartSkip, RejectLength,
       SetAuthority, EnterParams, LeaveParams, EndOfMessage, Reject, Sliced, StartVarint,
       MarshalSteps
  <2> QED BY <2>1, <2>2, <2>3, DecodeSteps
<1>3. MarshalTypeOK' /\ pc' # "panicked"
  BY DEF IInv, TypeOK, NeverPanics
<1> QED BY <1>1, <1>2, <1>3 DEF CodecInv, MInv, FillsBuffer, RoomIsExact, input, MarshalSteps

LEMMA StartStep == CodecInv /\ StartUnmarshal => IInv'
<1> SUFFICES ASSUME CodecInv, StartUnmarshal PROVE IInv'
  OBVIOUS
<1>1. Len(data) \in Nat
  BY DataType DEF CodecInv, IInv
<1> QED BY <1>1 DEF StartUnmarshal, CodecInv, IInv, TypeOK, MarshalTypeOK, NeverPanics, FieldInSlice,
       NotStarted, MarshalSteps, Results, AfterVarint, input, varint

LEMMA ReadByteStep == IInv /\ ReadByte => IInv'
<1> SUFFICES ASSUME IInv, ReadByte PROVE IInv'
  OBVIOUS
<1>kept. MarshalTypeOK'
  BY InputKept DEF ReadByte, IInv
<1>slice. end \in from .. Len(data) /\ from \in Nat /\ Len(data) \in Nat
  BY SliceType, DataType DEF ReadByte, AfterVarint, MarshalSteps, IInv
<1>1. pc \in {"tag", "length", "skipTag", "skipValue", "skipLength"}
  BY DEF ReadByte, AfterVarint
<1>2. weight \in Nat /\ Modulus \in Nat /\ pos \in Int /\ end \in Int
  BY <1>slice DEF IInv, TypeOK, Modulus
<1>3. CASE weight >= Modulus \/ pos >= end
  BY <1>2, <1>1, <1>3, <1>kept, <1>slice DEF ReadByte, IInv, TypeOK, NotStarted, MarshalSteps, NeverPanics, FieldInSlice, Results,
     AfterVarint, input, slice, varint
<1>4. CASE weight < Modulus /\ pos < end
  <2>1. InBounds
    <3>1. pos < Len(data) /\ Len(data) \in Nat
      BY <1>4, <1>slice, <1>2
    <3> QED BY <1>1, <3>1 DEF InBounds, InSkip, IInv, TypeOK, FieldInSlice, Results, MarshalSteps
  <2>2. Byte \in Bytes
    BY <2>1, <1>1, DataType DEF Byte, InBounds, InSkip, IInv, TypeOK, FieldInSlice, Results, MarshalSteps
  <2>3. wire' \in 0 .. Modulus - 1 /\ weight' \in Nat \ {0}
    <3>1. /\ wire' = (wire + (Byte % Cont) * weight) % Modulus
          /\ weight' = Cont * weight
      BY <1>2, <1>4 DEF ReadByte
    <3>2. wire \in 0 .. Modulus - 1 /\ weight \in Nat \ {0}
      BY DEF IInv, TypeOK
    <3> QED BY <2>2, <3>1, <3>2, VarintType
  <2>4. pos' = pos + 1 /\ (pc' = AfterVarint[pc] \/ pc' = pc)
    BY <1>2, <1>4, <2>1 DEF ReadByte
  <2>5. UNCHANGED <<input, slice, preIndex, fieldNum, depth, authority>>
    BY DEF ReadByte
  <2>6. /\ pc = "tag" => AfterVarint[pc] = "switch"
        /\ pc = "length" => AfterVarint[pc] = "content"
        /\ pc = "skipTag" => AfterVarint[pc] = "skipSwitch"
        /\ pc = "skipValue" => AfterVarint[pc] = "skipEnd"
        /\ pc = "skipLength" => AfterVarint[pc] = "skipContent"
    BY <1>kept, <1>1 DEF AfterVarint
  <2> QED BY <1>1, <1>2, <1>4, <1>kept, <1>slice, <2>3, <2>4, <2>5, <2>6 DEF IInv, TypeOK,
         NeverPanics, FieldInSlice, NotStarted, MarshalSteps, Results, AfterVarint, input, slice
<1> QED BY <1>2, <1>3, <1>4

LEMMA UnmarshalStep ==
    IInv /\ (BeginField \/ RejectTag \/ ReadLength \/ StartSkip \/ RejectLength
             \/ LeaveParams \/ EndOfMessage) => IInv'
<1> SUFFICES ASSUME IInv,
                    BeginField \/ RejectTag \/ ReadLength \/ StartSkip \/ RejectLength
                    \/ LeaveParams \/ EndOfMessage
             PROVE  IInv'
  OBVIOUS
<1> USE DEF IInv, TypeOK, NeverPanics, FieldInSlice, NotStarted, MarshalSteps, Results, AfterVarint,
        input, slice, varint
<1>0. Len(data) \in Nat /\ Modulus \in Nat \ {0}
  BY DataType DEF Modulus
<1>kept. MarshalTypeOK'
  BY InputKept DEF BeginField, RejectTag, ReadLength, StartSkip, RejectLength, LeaveParams,
     EndOfMessage, IInv
<1>1. CASE BeginField
  BY <1>0, <1>kept, <1>1 DEF BeginField, StartVarint
<1>2. CASE RejectTag
  BY <1>kept, <1>2 DEF RejectTag, Reject
<1>3. CASE ReadLength
  <2>1. FieldNumber \in Nat
    BY <1>kept, <1>3 DEF ReadLength, TagOk, FieldNumber, Signed
  <2> QED BY <1>0, <1>kept, <1>3, <2>1 DEF ReadLength, StartVarint
<1>4. CASE StartSkip
  BY <1>kept, <1>4 DEF StartSkip
<1>5. CASE RejectLength
  BY <1>kept, <1>5 DEF RejectLength, Reject
<1>6. CASE LeaveParams
  BY <1>0, <1>kept, <1>6 DEF LeaveParams, InParams
<1>7. CASE EndOfMessage
  BY <1>kept, <1>7 DEF EndOfMessage, InParams
<1> QED BY <1>1, <1>2, <1>3, <1>4, <1>5, <1>6, <1>7

LEMMA ContentStep == IInv /\ (SetAuthority \/ EnterParams) => IInv'
<1> SUFFICES ASSUME IInv, SetAuthority \/ EnterParams PROVE IInv'
  OBVIOUS
<1>kept. MarshalTypeOK'
  BY InputKept DEF SetAuthority, EnterParams, IInv
<1>1. pc = "content" /\ LengthFits
  BY DEF SetAuthority, EnterParams
<1>2. PostIndex \in pos .. end /\ pos \in from .. end
  BY <1>1, FittingLength
<1>3. from \in Nat /\ end \in from .. Len(data) /\ data \in Seq(Bytes) /\ Len(data) \in Nat
  BY <1>1, DataType, SliceType DEF IInv, MarshalSteps
<1>4. Sliced = "field"
  BY <1>2, <1>3 DEF Sliced
<1> USE DEF IInv, TypeOK, NeverPanics, FieldInSlice, NotStarted, MarshalSteps, Results, input, slice, varint
<1>5. CASE SetAuthority
  <2>1. SubSeq(data, pos + 1, PostIndex) \in Seq(Bytes)
    BY <1>2, <1>3, SubSeqProperties
  <2>2. /\ authority' \in Seq(Bytes) /\ pos' = PostIndex /\ pc' = "field"
        /\ UNCHANGED <<origin, from, end, preIndex, wire, weight, fieldNum, depth, data>>
    BY <1>4, <1>5, <2>1 DEF SetAuthority
  <2> QED BY <1>1, <1>2, <1>3, <1>kept, <2>2
<1>6. CASE EnterParams
  BY <1>2, <1>3, <1>4, <1>6, <1>kept DEF EnterParams
<1> QED BY <1>5, <1>6

LEMMA SkipSteps == IInv /\ SkipStep => IInv'
<1> SUFFICES ASSUME IInv, SkipStep PROVE IInv'
  OBVIOUS
<1>0. UNCHANGED <<input, slice, preIndex, fieldNum, authority>> /\ Modulus \in Nat \ {0}
  BY DEF SkipStep, Modulus
<1>kept. MarshalTypeOK'
  BY <1>0, InputKept DEF IInv
<1>moved. \A n \in Int : Moved(n) \in Int
  BY MovedType
<1>length. Length \in Int
  BY LengthType DEF IInv
<1> USE DEF IInv, TypeOK, NeverPanics, FieldInSlice, NotStarted, MarshalSteps, Results, AfterVarint, input, slice, varint
<1>1. CASE SkipLoop
  BY <1>0, <1>kept, <1>1 DEF SkipLoop, StartVarint
<1>2. CASE SkipItem
  <2>0. (IF WireType = 1 THEN 8 ELSE 4) \in Int
    OBVIOUS
  <2>1. Moved(IF WireType = 1 THEN 8 ELSE 4) \in Int
    BY <1>moved, <2>0
  <2>2. (WireType = 3 \/ (WireType = 4 /\ depth > 0)) => DepthAfter \in Nat
    BY DEF DepthAfter
  <2>3. /\ pc' \in {"skipValue", "skipLength", "skipEnd", "rejected"}
        /\ pos' = pos \/ (pos' = Moved(IF WireType = 1 THEN 8 ELSE 4) /\ pc' = "skipEnd")
        /\ depth' = depth \/ (depth' = DepthAfter /\ (WireType = 3 \/ (WireType = 4 /\ depth > 0)))
        /\ (wire' = 0 /\ weight' = 1) \/ (wire' = wire /\ weight' = weight)
    BY <1>2 DEF SkipItem, StartVarint
  <2>4. pos' \in Int /\ depth' \in Nat /\ wire' \in 0 .. Modulus - 1 /\ weight' \in Nat \ {0}
    <3>1. pos' \in Int
      BY <1>0, <2>1, <2>3
    <3>2. depth' \in Nat
      BY <1>0, <2>2, <2>3
    <3> QED BY <1>0, <2>3, <3>1, <3>2
  <2>5. pc = "skipSwitch"
    BY <1>2 DEF SkipItem
  <2>6. pos' \in Int
    BY <1>0, <2>1, <2>3
  <2> QED BY <1>0, <2>3, <2>4, <2>5, <2>6, <1>kept
<1>3. CASE SkipContent
  <2>1. Moved(Length) \in Int
    BY <1>moved, <1>length
  <2> QED BY <1>0, <1>3, <2>1, <1>kept DEF SkipContent
<1>4. CASE SkipEnd
  <2>1. Resumed \in Int
    BY IntIsInt DEF Resumed
  <2> QED BY <1>0, <1>4, <2>1, <1>kept DEF SkipEnd, SkipFits, PositionAfterSkip
<1> QED BY <1>1, <1>2, <1>3, <1>4 DEF SkipStep

LEMMA NextStep == CodecInv /\ [Next]_vars => CodecInv'
<1> SUFFICES ASSUME CodecInv, [Next]_vars PROVE CodecInv'
  OBVIOUS
<1>0. IInv
  BY DEF CodecInv
<1>1. CASE Encode
  BY <1>1, EncodeStep
<1>2. CASE Decode
  <2>1. CASE ReadByte
    BY <1>0, <1>2, <2>1, ReadByteStep, DecodeKeepsEncoder
  <2>2. CASE BeginField \/ RejectTag \/ ReadLength \/ StartSkip \/ RejectLength
             \/ LeaveParams \/ EndOfMessage
    BY <1>0, <1>2, <2>2, UnmarshalStep, DecodeKeepsEncoder
  <2>3. CASE SetAuthority \/ EnterParams
    BY <1>0, <1>2, <2>3, ContentStep, DecodeKeepsEncoder
  <2>4. CASE SkipTx \/ SkipParams \/ SkipGenesis \/ SkipQuery \/ SkipModule
    BY <1>0, <1>2, <2>4, SkipSteps, DecodeKeepsEncoder
       DEF SkipTx, SkipParams, SkipGenesis, SkipQuery, SkipModule
  <2>5. CASE StartUnmarshal
    BY <1>2, <2>5, StartStep, DecodeKeepsEncoder
  <2> QED BY <1>2, <2>1, <2>2, <2>3, <2>4, <2>5, DecodeSteps
<1>3. CASE UNCHANGED vars
  BY <1>3 DEF vars, decoding, marshalVars, CodecInv, IInv, TypeOK, MarshalTypeOK, NeverPanics,
     FieldInSlice, NotStarted, MInv, FillsBuffer, RoomIsExact, Needed, SizeOfField, Kind, Field
<1> QED BY <1>1, <1>2, <1>3 DEF Next

----------------------------------------------------------------------------
(* What the encoder wrote is decoded field by field.  Behind the first n   *)
(* fields the decoder has the value of the string, if it is one of them.   *)
Gained(n) == IF \E k \in 1 .. n : Schema[message][k] = "string" THEN value ELSE <<>>

Behind(n) == pos = Needed(n) /\ authority = Gained(n)

(* The varint is right but for what is left of the length behind j bytes.  *)
LengthRead(n) ==
    \E j \in 0 .. Prefix(n) - 1 :
        /\ pos = Needed(n - 1) + 1 + j /\ weight = Power[j]
        /\ wire + weight * Rest(LengthOf(n), j) = LengthOf(n)

In(n) ==
    /\ ~ Absent(n) /\ preIndex = Needed(n - 1) /\ authority = Gained(n - 1)
    /\ pc = "tag" => pos = Needed(n - 1) /\ wire = 0 /\ weight = 1
    /\ pc = "switch" => pos = Needed(n - 1) + 1 /\ wire = Tag(n)
    /\ pc = "length" => fieldNum = n /\ LengthRead(n)
    /\ pc = "content" =>
        fieldNum = n /\ pos = Needed(n - 1) + 1 + Prefix(n) /\ wire = LengthOf(n)

Decoding ==
    /\ pc \in {"field", "tag", "switch", "length", "content", "accepted"}
    /\ FieldsIn(data, 0) /\ Len(data) = Needed(Fields)
    /\ pc = "field" =>
        /\ IF InParams THEN pos = end ELSE end = Len(data)
        /\ \E n \in 0 .. Fields : Behind(n)
    /\ pc \in {"tag", "switch", "length", "content"} =>
        /\ from = 0 /\ end = Len(data)
        /\ \E n \in 1 .. Fields : In(n)
    /\ pc = "accepted" => authority = value

Recovers ==
    origin = "encoder" =>
        /\ Encoded
        /\ IF pc \in MarshalSteps THEN authority = <<>> ELSE Decoding

LEMMA SmallRemainder ==
    ASSUME NEW v \in Nat, NEW q \in Nat \ {0}, v < q
    PROVE  v % q = v /\ v \div q = 0
<1>1. v = q * 0 + v
  OBVIOUS
<1>2. v \div q = 0
  BY <1>1, DivisionIs
<1>3. v % q \in 0 .. q - 1 /\ v = q * (v \div q) + (v % q)
  BY Division
<1> QED BY <1>2, <1>3

LEMMA SmallIsInt ==
    ASSUME NEW x \in Nat, x < IntLimit
    PROVE  ToInt(x) = x
BY DEF ToInt, Signed

(* A tag says a field of the schema and its wire type.                     *)
LEMMA TagFacts ==
    ASSUME NEW n \in 1 .. 2, wire = Tag(n)
    PROVE  WireType = 2 /\ FieldNumber = n
<1>1. wire % 8 = 2 /\ wire \div 8 = n
  BY DEF Tag
<1>2. n % (2 * FieldLimit) = n
  <2>1. 2 * FieldLimit \in Nat \ {0} /\ n < 2 * FieldLimit /\ n \in Nat
    OBVIOUS
  <2> QED BY <2>1, SmallRemainder
<1>3. FieldNumber = Signed(n, FieldLimit)
  BY <1>1, <1>2 DEF FieldNumber
<1>4. Signed(n, FieldLimit) = n
  BY DEF Signed
<1> QED BY <1>1, <1>3, <1>4 DEF WireType

LEMMA GainedFacts ==
    ASSUME NEW n \in Nat \ {0}
    PROVE  /\ Gained(n - 1) \in {value, <<>>} /\ Gained(0) = <<>>
           /\ Gained(n) = IF Schema[message][n] = "string" THEN value ELSE Gained(n - 1)
           /\ Absent(n) => Gained(n) = Gained(n - 1)
<1>1. Gained(n - 1) \in {value, <<>>} /\ Gained(0) = <<>>
  BY DEF Gained
<1>2. Gained(n) = IF Schema[message][n] = "string" THEN value ELSE Gained(n - 1)
  <2>1. \A k : k \in 1 .. n <=> k \in 1 .. n - 1 \/ k = n
    OBVIOUS
  <2> QED BY <2>1 DEF Gained
<1>3. Absent(n) => Gained(n) = Gained(n - 1)
  BY <1>1, <1>2 DEF Absent, Omitted
<1> QED BY <1>1, <1>2, <1>3

(* Behind n fields but not at the end there is a next one.                 *)
LEMMA NextField ==
    ASSUME MarshalTypeOK, NEW n \in 0 .. Fields, Needed(n) < Needed(Fields)
    PROVE  \E m \in 1 .. Fields :
               ~ Absent(m) /\ Needed(m - 1) = Needed(n) /\ Gained(m - 1) = Gained(n)
<1>0. PICK f \in 0 .. 2 : f = Fields
  BY FieldsType
<1>1. \A k \in 1 .. Fields : Absent(k) => Needed(k) = Needed(k - 1) /\ Gained(k) = Gained(k - 1)
  <2> SUFFICES ASSUME NEW k \in 1 .. Fields, Absent(k)
               PROVE  Needed(k) = Needed(k - 1) /\ Gained(k) = Gained(k - 1)
    OBVIOUS
  <2>1. k \in Nat \ {0}
    OBVIOUS
  <2> QED BY <2>1, LayoutType, GainedFacts
<1>2. Needed(n) \in Nat
  BY NeededType DEF Fields
<1>3. n # Fields
  BY <1>2
<1>4. (n = 0 /\ f = 1) \/ (n = 0 /\ f = 2) \/ (n = 1 /\ f = 2)
  BY <1>0, <1>3
<1>5. n + 1 \in 1 .. Fields /\ (n + 1) - 1 = n
  BY <1>0, <1>4
<1>6. CASE ~ Absent(n + 1)
  BY <1>5, <1>6
<1>7. CASE Absent(n + 1)
  <2>1. Needed(n + 1) = Needed(n)
    BY <1>1, <1>5, <1>7
  <2>2. n + 1 # Fields
    BY <1>2, <2>1
  <2>3. n = 0 /\ f = 2
    BY <1>0, <1>4, <2>2
  <2>4. 2 \in 1 .. Fields /\ 2 - 1 = n + 1
    BY <1>0, <2>3
  <2>5. ~ Absent(2)
    <3> SUFFICES ASSUME Absent(2) PROVE FALSE
      OBVIOUS
    <3>1. Needed(2) = Needed(2 - 1)
      BY <1>1, <2>4
    <3>2. Needed(Fields) = Needed(n)
      BY <1>0, <2>1, <2>3, <3>1
    <3> QED BY <1>2, <3>2
  <2>6. Gained(n + 1) = Gained(n)
    BY <1>1, <1>5, <1>7
  <2> QED BY <2>1, <2>4, <2>5, <2>6
<1> QED BY <1>6, <1>7

(* Behind all the fields the decoder has the value.                        *)
LEMMA AllGained ==
    ASSUME MarshalTypeOK, NEW n \in 0 .. Fields, Needed(n) = Needed(Fields),
           HasField(message, "string") \/ value = <<>>
    PROVE  Gained(n) = value
<1>0. PICK f \in 0 .. 2 : f = Fields /\ DOMAIN Schema[message] = 1 .. f
  BY FieldsType
<1>1. CASE value = <<>>
  BY <1>1 DEF Gained
<1>2. CASE value # <<>>
  <2>1. PICK k \in 1 .. Fields : Schema[message][k] = "string"
    BY <1>0, <1>2 DEF HasField
  <2>2. ~ Absent(k)
    BY <1>2, <2>1 DEF Absent, Omitted
  <2>3. /\ Needed(k - 1) \in Nat /\ Needed(k) > Needed(k - 1) /\ k - 1 \in 0 .. Fields
        /\ k \in 0 .. Fields /\ Needed(k) \in Nat
    <3>1. /\ Needed(k) = Needed(k - 1) + 1 + Prefix(k) + LengthOf(k)
          /\ Needed(k - 1) \in Nat /\ Prefix(k) \in Nat /\ LengthOf(k) \in Nat
          /\ k - 1 \in 0 .. Fields
      BY <2>2, LayoutType
    <3>2. k \in 0 .. Fields
      BY <1>0
    <3> QED BY <3>1, <3>2
  <2>4. ~ (n =< k - 1)
    <3> SUFFICES ASSUME n =< k - 1 PROVE FALSE
      OBVIOUS
    <3>1. Needed(n) =< Needed(k - 1)
      BY <2>3, NeededGrows
    <3>2. Needed(k) =< Needed(Fields) /\ Needed(Fields) \in Nat
      <4>1. Fields \in 0 .. Fields /\ k =< Fields
        BY <1>0
      <4> QED BY <2>3, <4>1, NeededGrows
    <3> QED BY <2>3, <3>1, <3>2
  <2>5. k \in 1 .. n
    BY <1>0, <2>4
  <2> QED BY <2>1, <2>5 DEF Gained
<1> QED BY <1>1, <1>2

----------------------------------------------------------------------------
(* The steps of the decoder on what the encoder wrote.                     *)
Recovering == CodecInv /\ origin = "encoder" /\ Encoded /\ Decoding

LEMMA RecoveringType ==
    ASSUME Recovering
    PROVE  /\ MarshalTypeOK /\ data \in Seq(Bytes) /\ Len(data) \in Nat /\ Len(data) + 8 < IntLimit
           /\ Len(data) = Needed(Fields) /\ FieldsIn(data, 0)
           /\ Fields \in 0 .. 2 /\ DOMAIN Schema[message] = 1 .. Fields
           /\ pc \in {"field", "tag", "switch", "length", "content", "accepted"}
<1>1. TypeOK /\ MarshalTypeOK
  BY DEF Recovering, CodecInv, IInv, TypeOK
<1> QED BY <1>1, DataType, FieldsType DEF Recovering, Decoding

(* What is decoded does not change while it is decoded.                    *)
LEMMA InputStays ==
    ASSUME Recovering, UNCHANGED input, pc' \notin MarshalSteps
    PROVE  /\ Encoded' /\ FieldsIn(data, 0)' /\ (Len(data) = Needed(Fields))'
           /\ Fields' = Fields /\ data' = data /\ value' = value /\ message' = message
           /\ \A n : /\ Needed(n)' = Needed(n) /\ Prefix(n)' = Prefix(n)
                     /\ LengthOf(n)' = LengthOf(n) /\ Gained(n)' = Gained(n)
                     /\ Absent(n)' <=> Absent(n)
<1>1. UNCHANGED <<message, value>> /\ data' = data /\ value' = value /\ message' = message
  BY DEF input
<1>2. \A n : Gained(n)' = Gained(n)
  BY <1>1 DEF Gained
<1>3. Encoded'
  BY <1>1 DEF Encoded, Recovering, MarshalSteps, HasField
<1>4. FieldsIn(data, 0)' /\ (Len(data) = Needed(Fields))'
  BY <1>1, LayoutKept DEF Recovering, Decoding
<1> QED BY <1>1, <1>2, <1>3, <1>4, LayoutKept

(* Where the field that is read lies.                                      *)
LEMMA FieldLies ==
    ASSUME Recovering, NEW n \in 1 .. Fields, In(n)
    PROVE  /\ n \in 1 .. 2 /\ n \in DOMAIN Schema[message] /\ FieldIn(data, n)
           /\ FieldOf(n) \in Seq(Bytes) /\ LengthOf(n) \in Nat
           /\ Prefix(n) \in Nat /\ Prefix(n) >= 1
           /\ Needed(n - 1) \in Nat /\ Needed(n) \in Nat
           /\ Needed(n) = Needed(n - 1) + 1 + Prefix(n) + LengthOf(n)
           /\ Needed(n) =< Len(data)
<1>1. MarshalTypeOK /\ Len(data) = Needed(Fields) /\ FieldsIn(data, 0) /\ Fields \in 0 .. 2
  BY RecoveringType
<1>2. ~ Absent(n)
  BY DEF In
<1>3. n \in 0 .. Fields /\ Fields \in 0 .. Fields /\ n =< Fields /\ n \in 0 + 1 .. Fields
  BY <1>1
<1>4. Needed(n) =< Needed(Fields)
  BY <1>1, <1>3, NeededGrows
<1>5. FieldIn(data, n)
  BY <1>1, <1>2, <1>3 DEF FieldsIn
<1> QED BY <1>1, <1>2, <1>4, <1>5, LayoutType

LEMMA StartRecovers ==
    ASSUME CodecInv, origin = "encoder", Recovers, StartUnmarshal
    PROVE  Encoded' /\ Decoding'
<1>1. pc = "returned" /\ authority = <<>> /\ Encoded
  BY DEF StartUnmarshal, Recovers, Decoding, MarshalSteps
<1>2. /\ FieldsIn(data, 0) /\ Len(data) = Needed(Fields) /\ from = 0 /\ pos = 0
  BY <1>1 DEF Encoded, CodecInv, IInv, NotStarted, MarshalSteps
<1>3. /\ pc' = "field" /\ end' = Len(data) /\ UNCHANGED <<message, data, value, from, pos, authority>>
  BY DEF StartUnmarshal, input
<1>4. /\ FieldsIn(data, 0)' /\ (Len(data) = Needed(Fields))'
  BY <1>2, <1>3, LayoutKept
<1>5. Behind(0)'
  <2>1. Needed(0)' = 0
    BY DEF Needed
  <2>2. Gained(0)' = <<>>
    BY DEF Gained
  <2> QED BY <1>1, <1>2, <1>3, <2>1, <2>2 DEF Behind
<1>6. 0 \in 0 .. Fields'
  <2>1. Fields' = Fields /\ MarshalTypeOK
    BY <1>3, LayoutKept DEF CodecInv, IInv, TypeOK
  <2> QED BY <2>1, FieldsType
<1>7. (IF InParams THEN pos = end ELSE end = Len(data))'
  BY <1>2, <1>3 DEF InParams
<1>8. Encoded'
  BY <1>1, <1>3 DEF Encoded, HasField
<1> QED BY <1>3, <1>4, <1>5, <1>6, <1>7, <1>8 DEF Decoding

LEMMA BeginRecovers ==
    ASSUME Recovering, BeginField
    PROVE  Encoded' /\ Decoding'
<1>1. /\ pc = "field" /\ pos < end /\ pc' = "tag" /\ preIndex' = pos /\ wire' = 0 /\ weight' = 1
      /\ UNCHANGED input /\ UNCHANGED <<from, end, pos, authority>>
  BY DEF BeginField, StartVarint, slice
<1>2. TypeOK
  BY DEF Recovering, CodecInv, IInv
<1>3. end \in Int /\ pos \in Int /\ from \in Nat
  BY <1>1, <1>2, SliceType, DataType DEF TypeOK, MarshalSteps
<1>4. ~ InParams /\ end = Len(data)
  BY <1>1, <1>3 DEF Recovering, Decoding
<1>5. from = 0
  BY <1>3, <1>4 DEF InParams
<1>6. PICK n \in 0 .. Fields : Behind(n)
  BY <1>1 DEF Recovering, Decoding
<1>7. Needed(n) < Needed(Fields)
  BY <1>1, <1>4, <1>6, RecoveringType DEF Behind
<1>8. PICK m \in 1 .. Fields :
          ~ Absent(m) /\ Needed(m - 1) = Needed(n) /\ Gained(m - 1) = Gained(n)
  BY <1>7, NextField, RecoveringType
<1>9. /\ Encoded' /\ FieldsIn(data, 0)' /\ (Len(data) = Needed(Fields))'
      /\ Fields' = Fields /\ data' = data /\ (Absent(m)' <=> Absent(m))
      /\ Needed(m - 1)' = Needed(m - 1) /\ Gained(m - 1)' = Gained(m - 1)
  BY <1>1, InputStays DEF MarshalSteps
<1>10. In(m)'
  BY <1>1, <1>6, <1>8, <1>9 DEF In, Behind
<1>11. (\E k \in 1 .. Fields : In(k))'
  BY <1>8, <1>9, <1>10
<1> QED BY <1>1, <1>4, <1>5, <1>9, <1>11 DEF Decoding

(* A turn of the loop over bytes that reads one.                           *)
LEMMA ByteRead ==
    ASSUME ReadByte, weight \in Nat, weight < Modulus, pos \in Int, end \in Int, pos < end, InBounds
    PROVE  /\ wire' = (wire + (Byte % Cont) * weight) % Modulus
           /\ weight' = Cont * weight /\ pos' = pos + 1
           /\ pc' = IF Byte < Cont THEN AfterVarint[pc] ELSE pc
<1>1. ~ (weight >= Modulus \/ pos >= end)
  BY DEF Modulus
<1> QED BY <1>1 DEF ReadByte

(* The tag is one byte, and it is accepted as the field's.                 *)
LEMMA TagRecovers ==
    ASSUME Recovering, ReadByte, pc = "tag"
    PROVE  Encoded' /\ Decoding'
<1>0. TypeOK /\ from = 0 /\ end = Len(data)
  BY DEF Recovering, CodecInv, IInv, Decoding
<1>1. PICK n \in 1 .. Fields : In(n)
  BY DEF Recovering, Decoding
<1>2. /\ n \in 1 .. 2 /\ FieldIn(data, n) /\ Prefix(n) >= 1 /\ Prefix(n) \in Nat
      /\ LengthOf(n) \in Nat /\ Needed(n - 1) \in Nat
      /\ Needed(n) = Needed(n - 1) + 1 + Prefix(n) + LengthOf(n) /\ Needed(n) =< Len(data)
  BY <1>1, FieldLies
<1>3. ~ Absent(n) /\ preIndex = Needed(n - 1) /\ authority = Gained(n - 1)
      /\ pos = Needed(n - 1) /\ wire = 0 /\ weight = 1
  BY <1>1 DEF In
<1>4. Len(data) \in Nat /\ Len(data) + 8 < IntLimit
  BY RecoveringType
<1>5. weight < Modulus /\ pos < end /\ pos \in Nat /\ Tag(n) < Modulus /\ Tag(n) \in Nat
      /\ Modulus \in Nat \ {0}
  <2>1. Needed(n - 1) + 2 =< Len(data)
    BY <1>2, <1>4
  <2>2. Len(data) >= 2 /\ IntLimit >= 11 /\ Modulus >= 22
    BY <1>2, <1>4, <2>1 DEF Modulus
  <2>3. Tag(n) \in Nat /\ Tag(n) =< 18
    BY <1>2 DEF Tag
  <2> QED BY <1>0, <1>2, <1>3, <1>4, <2>1, <2>2, <2>3 DEF Modulus
<1>6. InBounds /\ Byte = Tag(n)
  <2>1. InBounds
    BY <1>0, <1>4, <1>5 DEF InBounds, InSkip
  <2>2. data[pos + 1] = Tag(n)
    BY <1>2, <1>3 DEF FieldIn, TagIn
  <2> QED BY <2>1, <2>2 DEF Byte
<1>7. Tag(n) < Cont /\ Tag(n) % Cont = Tag(n)
  <2>1. Tag(n) < Cont
    BY <1>2, ContAssumption DEF Tag
  <2> QED BY <1>5, <2>1, SmallRemainder
<1>8. wire' = Tag(n)
  <2>1. wire' = (wire + (Byte % Cont) * weight) % Modulus
    BY <1>0, <1>3, <1>4, <1>5, <1>6, ByteRead
  <2>2. wire + (Byte % Cont) * weight = Tag(n)
    BY <1>3, <1>5, <1>6, <1>7
  <2> QED BY <1>5, <2>1, <2>2, SmallRemainder
<1>9. pos' = pos + 1 /\ pc' = "switch"
  <2>1. AfterVarint["tag"] = "switch"
    BY DEF AfterVarint
  <2>2. pos' = pos + 1 /\ pc' = IF Byte < Cont THEN AfterVarint[pc] ELSE pc
    BY <1>0, <1>3, <1>4, <1>5, <1>6, ByteRead
  <2> QED BY <1>6, <1>7, <2>1, <2>2
<1>10. UNCHANGED input /\ UNCHANGED <<from, end, preIndex, authority>>
  BY DEF ReadByte, slice
<1>11. /\ Encoded' /\ FieldsIn(data, 0)' /\ (Len(data) = Needed(Fields))'
       /\ Fields' = Fields /\ data' = data /\ (Absent(n)' <=> Absent(n))
       /\ Needed(n - 1)' = Needed(n - 1) /\ Gained(n - 1)' = Gained(n - 1)
  BY <1>9, <1>10, InputStays DEF MarshalSteps
<1>12. In(n)'
  BY <1>3, <1>8, <1>9, <1>10, <1>11 DEF In, Tag
<1>13. (\E k \in 1 .. Fields : In(k))'
  BY <1>11, <1>12
<1> QED BY <1>0, <1>9, <1>10, <1>11, <1>13 DEF Decoding

LEMMA ReadLengthRecovers ==
    ASSUME Recovering, ReadLength
    PROVE  Encoded' /\ Decoding'
<1>0. /\ pc = "switch" /\ fieldNum' = FieldNumber /\ pc' = "length" /\ wire' = 0 /\ weight' = 1
      /\ UNCHANGED input /\ UNCHANGED <<from, end, pos, preIndex, authority>>
  BY DEF ReadLength, StartVarint, slice
<1>1. PICK n \in 1 .. Fields : In(n)
  BY <1>0 DEF Recovering, Decoding
<1>2. from = 0 /\ end = Len(data)
  BY <1>0 DEF Recovering, Decoding
<1>3. /\ n \in 1 .. 2 /\ Prefix(n) >= 1 /\ Prefix(n) \in Nat /\ LengthOf(n) \in Nat
      /\ Needed(n - 1) \in Nat
  BY <1>1, FieldLies
<1>4. ~ Absent(n) /\ preIndex = Needed(n - 1) /\ authority = Gained(n - 1)
      /\ pos = Needed(n - 1) + 1 /\ wire = Tag(n)
  BY <1>0, <1>1 DEF In
<1>5. fieldNum' = n
  BY <1>0, <1>3, <1>4, TagFacts
<1>6. /\ Encoded' /\ FieldsIn(data, 0)' /\ (Len(data) = Needed(Fields))'
      /\ Fields' = Fields /\ data' = data /\ (Absent(n)' <=> Absent(n))
      /\ Needed(n - 1)' = Needed(n - 1) /\ Gained(n - 1)' = Gained(n - 1)
      /\ Prefix(n)' = Prefix(n) /\ LengthOf(n)' = LengthOf(n)
  BY <1>0, InputStays DEF MarshalSteps
<1>7. LengthRead(n)'
  <2>1. 0 \in 0 .. Prefix(n) - 1
    BY <1>3
  <2>2. Power[0] = 1 /\ Rest(LengthOf(n), 0) = LengthOf(n)
    BY <1>3, PowerFacts, RestFacts
  <2>3. pos' = Needed(n - 1) + 1 + 0 /\ weight' = Power[0]
        /\ wire' + weight' * Rest(LengthOf(n), 0) = LengthOf(n)
    BY <1>0, <1>3, <1>4, <2>2
  <2>4. \E j \in 0 .. Prefix(n) - 1 :
            /\ pos' = Needed(n - 1) + 1 + j /\ weight' = Power[j]
            /\ wire' + weight' * Rest(LengthOf(n), j) = LengthOf(n)
    BY <2>1, <2>3
  <2> QED BY <1>6, <2>4 DEF LengthRead, Rest
<1>8. In(n)'
  BY <1>0, <1>4, <1>5, <1>6, <1>7 DEF In
<1>9. (\E k \in 1 .. Fields : In(k))'
  BY <1>6, <1>8
<1> QED BY <1>0, <1>2, <1>6, <1>9 DEF Decoding

(* Reading the next byte of a length leaves one byte less of it to come.   *)
LEMMA VarintTurn ==
    ASSUME NEW v \in Nat, NEW j \in Nat, NEW w \in Nat,
           w + Power[j] * Rest(v, j) = v
    PROVE  LET u == w + (Rest(v, j) % Cont) * Power[j]
           IN  u \in Nat /\ u + Power[j + 1] * Rest(v, j + 1) = v
<1>1. Cont \in Nat \ {0} /\ Power[j] \in Nat /\ Power[j + 1] = Cont * Power[j]
  BY PowerFacts
<1>2. Rest(v, j) \in Nat /\ Rest(v, j + 1) = Rest(v, j) \div Cont
  BY RestFacts
<1> DEFINE p == Power[j]
           r == Rest(v, j)
           q == Rest(v, j + 1)
           d == r % Cont
<1>3. p \in Nat /\ Power[j + 1] = Cont * p /\ r \in Nat /\ q = r \div Cont /\ Cont \in Nat \ {0}
  BY <1>1, <1>2
<1>4. q \in Nat /\ d \in Nat /\ r = Cont * q + d
  <2> HIDE DEF r, q
  <2>1. r \div Cont \in Nat /\ r % Cont \in 0 .. Cont - 1 /\ r = Cont * (r \div Cont) + (r % Cont)
    BY <1>3, Division
  <2> QED BY <1>3, <2>1
<1>5. w + p * r = v
  OBVIOUS
<1> HIDE DEF p, r, q, d
<1>6. p * r = (Cont * p) * q + d * p
  <2>1. p * r = p * (Cont * q) + p * d
    <3> DEFINE c == Cont * q
    <3>1. c \in Nat /\ r = c + d /\ p \in Nat /\ d \in Nat
      BY <1>3, <1>4
    <3> HIDE DEF c
    <3>2. p * (c + d) = p * c + p * d
      BY <3>1
    <3> QED BY <3>1, <3>2 DEF c
  <2>2. p * (Cont * q) = (Cont * p) * q /\ p * d = d * p
    BY <1>3, <1>4
  <2> QED BY <2>1, <2>2
<1>7. d * p \in Nat /\ (Cont * p) * q \in Nat
  BY <1>3, <1>4
<1>8. (w + d * p) + (Cont * p) * q = v /\ w + d * p \in Nat
  BY <1>5, <1>6, <1>7
<1> QED BY <1>3, <1>8 DEF p, r, q, d

LEMMA LengthRecovers ==
    ASSUME Recovering, ReadByte, pc = "length"
    PROVE  Encoded' /\ Decoding'
<1>0. TypeOK /\ from = 0 /\ end = Len(data)
  BY DEF Recovering, CodecInv, IInv, Decoding
<1>1. PICK n \in 1 .. Fields : In(n)
  BY DEF Recovering, Decoding
<1> DEFINE v == LengthOf(n)
           s == Needed(n - 1) + 1
<1>2. /\ FieldIn(data, n) /\ Prefix(n) >= 1 /\ Prefix(n) \in Nat /\ v \in Nat /\ s \in Nat /\ s >= 1
      /\ s + Prefix(n) + v =< Len(data) /\ Prefix(n) = Sov(v)
  <2>1. /\ FieldIn(data, n) /\ Prefix(n) >= 1 /\ Prefix(n) \in Nat /\ v \in Nat
        /\ Needed(n - 1) \in Nat /\ Needed(n) \in Nat
        /\ Needed(n) = Needed(n - 1) + 1 + Prefix(n) + v /\ Needed(n) =< Len(data)
    BY <1>1, FieldLies
  <2> QED BY <2>1 DEF Prefix
<1>needed. Needed(n - 1) \in Nat
  BY <1>1, FieldLies
<1>3. ~ Absent(n) /\ preIndex = Needed(n - 1) /\ authority = Gained(n - 1) /\ fieldNum = n
      /\ LengthRead(n)
  BY <1>1 DEF In
<1>4. PICK j \in 0 .. Prefix(n) - 1 :
          pos = s + j /\ weight = Power[j] /\ wire + weight * Rest(v, j) = v
  BY <1>3 DEF LengthRead
<1>5. Len(data) \in Nat /\ Len(data) + 8 < IntLimit /\ wire \in Nat
  BY <1>0, RecoveringType DEF TypeOK, Modulus
<1>6. data[s + 1 + j] = VarintByte(v, j)
  <2>1. data[Needed(n - 1) + 2 + j] = VarintByte(v, j)
    BY <1>2 DEF FieldIn, LengthIn
  <2>2. Needed(n - 1) + 2 + j = s + 1 + j
    BY <1>1, FieldLies
  <2> QED BY <2>1, <2>2
<1> HIDE DEF v, s
<1>7. j \in Nat /\ j + 1 \in Nat /\ j + 1 =< Prefix(n) /\ pos \in Nat /\ pos + 1 = s + 1 + j
      /\ pos < end /\ Modulus \in Nat \ {0} /\ v < IntLimit /\ v < Modulus
  BY <1>0, <1>2, <1>4, <1>5 DEF Modulus
<1>8. weight \in Nat /\ weight < Modulus
  <2>1. Power[j] \in Nat
    BY <1>7, PowerFacts
  <2>2. j = 0 => Power[j] = 1 /\ 1 < Modulus
    BY PowerFacts DEF Modulus
  <2>3. j # 0 => Power[j] =< v
    <3> SUFFICES ASSUME j # 0 PROVE Power[j] =< v
      OBVIOUS
    <3>1. Prefix(n) - 1 \in Nat /\ j =< Prefix(n) - 1 /\ Prefix(n) # 1
      BY <1>2, <1>7
    <3>2. Power[j] =< Power[Prefix(n) - 1] /\ Power[Prefix(n) - 1] \in Nat
      BY <1>7, <3>1, PowerGrows, PowerFacts
    <3>3. v >= Power[Prefix(n) - 1]
      BY <1>2, <3>1, SovFits
    <3> QED BY <1>2, <2>1, <3>2, <3>3
  <2> QED BY <1>2, <1>4, <1>7, <2>1, <2>2, <2>3
<1>9. InBounds /\ Byte = VarintByte(v, j)
  <2>1. InBounds
    BY <1>0, <1>7 DEF InBounds, InSkip
  <2> QED BY <1>6, <1>7, <2>1 DEF Byte
<1>10. /\ wire' = (wire + (Byte % Cont) * weight) % Modulus
       /\ weight' = Cont * weight /\ pos' = pos + 1
       /\ pc' = IF Byte < Cont THEN AfterVarint[pc] ELSE pc
  BY <1>0, <1>5, <1>7, <1>8, <1>9, ByteRead
<1>11. UNCHANGED input /\ UNCHANGED <<from, end, preIndex, fieldNum, authority>>
  BY DEF ReadByte, slice
<1>12. Byte % Cont = Rest(v, j) % Cont /\ (Byte < Cont <=> ~ (j + 1 < Prefix(n)))
  BY <1>2, <1>7, <1>9, ByteFacts
<1> DEFINE u == wire + (Rest(v, j) % Cont) * Power[j]
<1>13. u \in Nat /\ u + Power[j + 1] * Rest(v, j + 1) = v
  BY <1>2, <1>4, <1>5, <1>7, VarintTurn
<1>14. Power[j + 1] = Cont * Power[j] /\ Power[j + 1] \in Nat /\ Rest(v, j + 1) \in Nat
  BY <1>2, <1>7, PowerFacts, RestFacts
<1>15. wire' = u /\ weight' = Power[j + 1]
  <2>1. wire' = u % Modulus
    BY <1>4, <1>10, <1>12
  <2> HIDE DEF u
  <2>2. Power[j + 1] * Rest(v, j + 1) \in Nat
    BY <1>14
  <2>3. u < Modulus
    BY <1>2, <1>7, <1>13, <2>2
  <2>4. wire' = u
    BY <1>7, <1>13, <2>1, <2>3, SmallRemainder
  <2> QED BY <1>4, <1>10, <1>14, <2>4
<1> HIDE DEF u
<1>16. pc' = "length" \/ pc' = "content"
  <2>1. AfterVarint["length"] = "content"
    BY DEF AfterVarint
  <2> QED BY <1>10, <2>1
<1>17. /\ Encoded' /\ FieldsIn(data, 0)' /\ (Len(data) = Needed(Fields))'
       /\ Fields' = Fields /\ data' = data /\ (Absent(n)' <=> Absent(n))
       /\ Needed(n - 1)' = Needed(n - 1) /\ Gained(n - 1)' = Gained(n - 1)
       /\ Prefix(n)' = Prefix(n) /\ LengthOf(n)' = LengthOf(n)
  BY <1>11, <1>16, InputStays DEF MarshalSteps
<1>18. CASE j + 1 < Prefix(n)
  <2>1. pc' = "length"
    BY <1>10, <1>12, <1>18
  <2>2. j + 1 \in 0 .. Prefix(n) - 1
    BY <1>2, <1>7, <1>18
  <2>3. pos' = Needed(n - 1) + 1 + (j + 1)
    <3>1. s = Needed(n - 1) + 1 /\ pos = s + j /\ pos' = pos + 1
      BY <1>4, <1>10 DEF s
    <3> QED BY <1>2, <1>7, <3>1
  <2>4. \E k \in 0 .. Prefix(n) - 1 :
            /\ pos' = Needed(n - 1) + 1 + k /\ weight' = Power[k]
            /\ wire' + weight' * Rest(LengthOf(n), k) = LengthOf(n)
    BY <1>13, <1>15, <2>2, <2>3 DEF v
  <2>5. LengthRead(n)'
    BY <1>17, <2>4 DEF LengthRead, Rest
  <2>6. In(n)'
    BY <1>3, <1>11, <1>17, <2>1, <2>5 DEF In
  <2>7. (\E k \in 1 .. Fields : In(k))'
    BY <1>17, <2>6
  <2> QED BY <1>0, <1>11, <1>17, <2>1, <2>7 DEF Decoding
<1>19. CASE ~ (j + 1 < Prefix(n))
  <2>1. pc' = "content"
    <3>1. AfterVarint["length"] = "content"
      BY DEF AfterVarint
    <3>2. pc' = IF Byte < Cont THEN AfterVarint["length"] ELSE "length"
      BY <1>10
    <3>3. Byte < Cont
      BY <1>12, <1>19
    <3> QED BY <3>1, <3>2, <3>3
  <2>2. j + 1 = Prefix(n)
    BY <1>2, <1>7, <1>19
  <2>3. pos' = Needed(n - 1) + 1 + Prefix(n)
    <3>1. s = Needed(n - 1) + 1 /\ pos = s + j /\ pos' = pos + 1
      BY <1>4, <1>10 DEF s
    <3>2. Needed(n - 1) \in Nat /\ Prefix(n) = j + 1
      BY <1>needed, <2>2
    <3> DEFINE a == Needed(n - 1)
               b == Prefix(n)
    <3>3. a \in Nat /\ b = j + 1 /\ pos = a + 1 + j /\ pos' = pos + 1
      BY <3>1, <3>2
    <3> HIDE DEF a, b
    <3>4. pos' = a + 1 + b
      BY <1>7, <3>3
    <3> QED BY <3>4 DEF a, b
  <2>4. wire' = LengthOf(n)
    <3>1. v < Power[j + 1]
      BY <1>2, <2>2, SovFits
    <3>2. Rest(v, j + 1) = 0
      <4> DEFINE k == j + 1
      <4>1. v \in Nat /\ k \in Nat /\ v < Power[k]
        BY <1>2, <1>7, <3>1
      <4> HIDE DEF k
      <4>2. Rest(v, k) = 0
        BY <4>1, RestFacts
      <4> QED BY <4>2 DEF k
    <3>3. u = v
      <4> DEFINE p == Power[j + 1]
                 r == Rest(v, j + 1)
      <4>1. p \in Nat /\ u \in Nat /\ r = 0
        BY <1>13, <1>14, <3>2
      <4>2. u + p * r = v
        BY <1>13
      <4> HIDE DEF p, r
      <4>3. p * r = 0
        BY <4>1
      <4> QED BY <4>1, <4>2, <4>3
    <3> QED BY <1>15, <3>3 DEF v
  <2>5. In(n)'
    BY <1>3, <1>11, <1>17, <2>1, <2>3, <2>4 DEF In
  <2>6. (\E k \in 1 .. Fields : In(k))'
    BY <1>17, <2>5
  <2> QED BY <1>0, <1>11, <1>17, <2>1, <2>6 DEF Decoding
<1> QED BY <1>18, <1>19

(* The length fits, and the field's content ends where the field does.     *)
LEMMA ContentLies ==
    ASSUME Recovering, pc = "content", NEW n \in 1 .. Fields, In(n)
    PROVE  /\ LengthFits /\ PostIndex = Needed(n) /\ Sliced = "field"
           /\ Decoded = message /\ fieldNum = n
<1>1. from = 0 /\ end = Len(data)
  BY DEF Recovering, Decoding
<1>2. /\ Prefix(n) \in Nat /\ LengthOf(n) \in Nat /\ Needed(n - 1) \in Nat /\ Needed(n) \in Nat
      /\ Needed(n) = Needed(n - 1) + 1 + Prefix(n) + LengthOf(n) /\ Needed(n) =< Len(data)
  BY FieldLies
<1>3. Len(data) \in Nat /\ Len(data) + 8 < IntLimit
  BY RecoveringType
<1>4. pos = Needed(n - 1) + 1 + Prefix(n) /\ wire = LengthOf(n) /\ fieldNum = n
  BY DEF In
<1>5. Length = LengthOf(n)
  BY <1>2, <1>3, <1>4, SmallIsInt DEF Length
<1>6. pos - from + Length = Needed(n) /\ Needed(n) < IntLimit /\ pos \in Nat /\ pos =< Needed(n)
  <2> DEFINE a == Needed(n - 1)
             b == Prefix(n)
             c == LengthOf(n)
             d == Needed(n)
  <2>1. /\ pos = a + 1 + b /\ from = 0 /\ Length = c /\ d = a + 1 + b + c
        /\ a \in Nat /\ b \in Nat /\ c \in Nat /\ d \in Nat
    BY <1>1, <1>2, <1>4, <1>5
  <2>2. d < IntLimit
    BY <1>2, <1>3, IntLimitAssumption
  <2> HIDE DEF a, b, c, d
  <2>3. pos - from + Length = d /\ pos \in Nat /\ pos =< d
    BY <2>1
  <2> QED BY <2>2, <2>3 DEF d
<1>7. PostIndex = Needed(n)
  BY <1>1, <1>2, <1>6, SmallIsInt DEF PostIndex
<1>8. LengthFits
  BY <1>1, <1>2, <1>5, <1>7 DEF LengthFits
<1>9. Sliced = "field"
  BY <1>1, <1>2, <1>6, <1>7 DEF Sliced
<1>10. Decoded = message
  BY <1>1 DEF Decoded, InParams
<1> QED BY <1>4, <1>7, <1>8, <1>9, <1>10

LEMMA SetAuthorityRecovers ==
    ASSUME Recovering, SetAuthority
    PROVE  Encoded' /\ Decoding'
<1>0. pc = "content" /\ from = 0 /\ end = Len(data)
  BY DEF SetAuthority, Recovering, Decoding
<1>1. PICK n \in 1 .. Fields : In(n)
  BY <1>0 DEF Recovering, Decoding
<1>2. PostIndex = Needed(n) /\ Sliced = "field" /\ Decoded = message /\ fieldNum = n
  BY <1>0, <1>1, ContentLies
<1>3. /\ authority' = SubSeq(data, pos + 1, Needed(n)) /\ pos' = Needed(n) /\ pc' = "field"
      /\ Schema[message][n] = "string" /\ UNCHANGED input /\ UNCHANGED <<from, end>>
  BY <1>2 DEF SetAuthority, slice
<1>4. /\ FieldIn(data, n) /\ FieldOf(n) \in Seq(Bytes) /\ LengthOf(n) \in Nat
      /\ Prefix(n) \in Nat /\ Needed(n - 1) \in Nat
      /\ Needed(n) = Needed(n - 1) + 1 + Prefix(n) + LengthOf(n) /\ Needed(n) =< Len(data)
      /\ Needed(n) \in Nat
  BY <1>1, FieldLies
<1>5. pos = Needed(n - 1) + 1 + Prefix(n)
  BY <1>0, <1>1 DEF In
<1>6. data \in Seq(Bytes) /\ Len(data) \in Nat
  BY RecoveringType
<1>7. FieldOf(n) = value
  BY <1>3 DEF FieldOf, Content
<1>8. SubSeq(data, pos + 1, Needed(n)) = value
  <2> DEFINE t == SubSeq(data, pos + 1, Needed(n))
             L == LengthOf(n)
  <2>0. L = Len(FieldOf(n)) /\ L = Len(value)
    BY <1>7 DEF LengthOf
  <2>1. pos \in Nat /\ Needed(n) = pos + L /\ L \in Nat
    BY <1>4, <1>5
  <2>2. t \in Seq(Bytes) /\ Len(t) = L /\ \A k \in 1 .. L : t[k] = data[pos + k]
    <3> HIDE DEF L
    <3>1. pos + 1 \in 1 .. Len(data) + 1 /\ Needed(n) \in pos .. Len(data)
      BY <1>4, <1>6, <2>1
    <3>2. \A k \in pos + 1 .. Needed(n) : k \in 1 .. Len(data)
      BY <1>6, <2>1, <3>1
    <3>3. t = [k \in 1 .. L |-> data[k + (pos + 1) - 1]] /\ Len(t) = L /\ t \in Seq(Bytes)
      BY <1>6, <2>1, <3>1, <3>2, SubSeqProperties
    <3>4. \A k \in 1 .. L : t[k] = data[k + (pos + 1) - 1] /\ k + (pos + 1) - 1 = pos + k
      BY <2>1, <3>3
    <3> QED BY <3>3, <3>4
  <2>3. \A k \in 1 .. L : data[pos + k] = value[k]
    BY <1>4, <1>5, <1>7 DEF FieldIn, ContentIn
  <2>4. value \in Seq(Bytes) /\ Len(value) = L
    BY <1>4, <1>7, <2>0
  <2> HIDE DEF t, L
  <2>5. \A k \in 1 .. L : t[k] = value[k]
    BY <2>2, <2>3
  <2>6. t = value
    BY <2>2, <2>4, <2>5, SeqEqual
  <2> QED BY <2>6 DEF t
<1>9. Gained(n) = value
  <2>1. n \in Nat \ {0}
    BY <1>1
  <2> QED BY <1>3, <2>1, GainedFacts
<1>10. /\ Encoded' /\ FieldsIn(data, 0)' /\ (Len(data) = Needed(Fields))'
       /\ Fields' = Fields /\ data' = data /\ Needed(n)' = Needed(n) /\ Gained(n)' = Gained(n)
  BY <1>3, InputStays DEF MarshalSteps
<1>11. Behind(n)'
  BY <1>3, <1>8, <1>9, <1>10 DEF Behind
<1>12. (\E k \in 0 .. Fields : Behind(k))'
  <2>1. n \in 0 .. Fields'
    BY <1>10
  <2> QED BY <1>11, <2>1
<1>13. (IF InParams THEN pos = end ELSE end = Len(data))'
  BY <1>0, <1>3, <1>10 DEF InParams
<1> QED BY <1>3, <1>10, <1>12, <1>13 DEF Decoding

(* Params has no bytes: it is entered, and left, behind its field.         *)
LEMMA EnterParamsRecovers ==
    ASSUME Recovering, EnterParams
    PROVE  Encoded' /\ Decoding'
<1>0. pc = "content" /\ from = 0 /\ end = Len(data)
  BY DEF EnterParams, Recovering, Decoding
<1>1. PICK n \in 1 .. Fields : In(n)
  BY <1>0 DEF Recovering, Decoding
<1>2. PostIndex = Needed(n) /\ Sliced = "field" /\ Decoded = message /\ fieldNum = n
  BY <1>0, <1>1, ContentLies
<1>3. /\ from' = pos /\ end' = Needed(n) /\ pc' = "field" /\ Schema[message][n] = "message"
      /\ UNCHANGED input /\ UNCHANGED <<pos, authority>>
  BY <1>2 DEF EnterParams
<1>4. /\ FieldOf(n) \in Seq(Bytes) /\ LengthOf(n) \in Nat
      /\ Prefix(n) \in Nat /\ Prefix(n) >= 1 /\ Needed(n - 1) \in Nat
      /\ Needed(n) = Needed(n - 1) + 1 + Prefix(n) + LengthOf(n)
  BY <1>1, FieldLies
<1>5. pos = Needed(n - 1) + 1 + Prefix(n) /\ authority = Gained(n - 1)
  BY <1>0, <1>1 DEF In
<1>6. LengthOf(n) = 0
  BY <1>3 DEF LengthOf, FieldOf, Content
<1>7. pos = Needed(n) /\ pos > 0
  BY <1>4, <1>5, <1>6
<1>8. Gained(n) = Gained(n - 1)
  <2>1. n \in Nat \ {0}
    BY <1>1
  <2> QED BY <1>3, <2>1, GainedFacts
<1>9. /\ Encoded' /\ FieldsIn(data, 0)' /\ (Len(data) = Needed(Fields))'
      /\ Fields' = Fields /\ Needed(n)' = Needed(n) /\ Gained(n)' = Gained(n)
  BY <1>3, InputStays DEF MarshalSteps
<1>10. Behind(n)'
  BY <1>3, <1>5, <1>7, <1>8, <1>9 DEF Behind
<1>11. (\E k \in 0 .. Fields : Behind(k))'
  <2>1. n \in 0 .. Fields'
    BY <1>9
  <2> QED BY <1>10, <2>1
<1>12. (IF InParams THEN pos = end ELSE end = Len(data))'
  BY <1>3, <1>7 DEF InParams
<1> QED BY <1>3, <1>9, <1>11, <1>12 DEF Decoding

LEMMA LeaveParamsRecovers ==
    ASSUME Recovering, LeaveParams
    PROVE  Encoded' /\ Decoding'
<1>0. pc = "field" /\ InParams /\ pos = end
  BY DEF LeaveParams, Recovering, Decoding
<1>1. PICK n \in 0 .. Fields : Behind(n)
  BY <1>0 DEF Recovering, Decoding
<1>2. pos \in Int
  BY DEF Recovering, CodecInv, IInv, TypeOK
<1>3. /\ pc' = "field" /\ from' = 0 /\ end' = Len(data) /\ pos' = pos
      /\ UNCHANGED input /\ UNCHANGED authority
  <2>1. ~ (pos > end)
    BY <1>0, <1>2
  <2> QED BY <1>0, <2>1 DEF LeaveParams
<1>4. /\ Encoded' /\ FieldsIn(data, 0)' /\ (Len(data) = Needed(Fields))' /\ data' = data
      /\ Fields' = Fields /\ Needed(n)' = Needed(n) /\ Gained(n)' = Gained(n)
  BY <1>3, InputStays DEF MarshalSteps
<1>5. Behind(n)'
  BY <1>1, <1>3, <1>4 DEF Behind
<1>6. (\E k \in 0 .. Fields : Behind(k))'
  BY <1>4, <1>5
<1>7. (IF InParams THEN pos = end ELSE end = Len(data))'
  BY <1>3, <1>4 DEF InParams
<1> QED BY <1>3, <1>4, <1>6, <1>7 DEF Decoding

LEMMA EndRecovers ==
    ASSUME Recovering, EndOfMessage
    PROVE  Encoded' /\ Decoding'
<1>0. pc = "field" /\ ~ InParams /\ pos >= end /\ end = Len(data)
  BY DEF EndOfMessage, Recovering, Decoding
<1>1. PICK n \in 0 .. Fields : Behind(n)
  BY <1>0 DEF Recovering, Decoding
<1>2. TypeOK /\ MarshalTypeOK /\ Len(data) \in Nat /\ Len(data) = Needed(Fields)
  BY RecoveringType DEF Recovering, CodecInv, IInv
<1>3. pos = end /\ ~ (pos > end)
  <2>1. pos \in from .. end /\ from \in Nat /\ end \in Nat
    BY <1>0, <1>2 DEF TypeOK
  <2> QED BY <1>0, <2>1
<1>4. pc' = "accepted" /\ UNCHANGED input /\ UNCHANGED authority
  BY <1>3 DEF EndOfMessage
<1>5. authority = value
  <2>1. Needed(n) = Needed(Fields)
    BY <1>0, <1>1, <1>2, <1>3 DEF Behind
  <2>2. HasField(message, "string") \/ value = <<>>
    BY DEF Recovering, Encoded
  <2>3. Gained(n) = value
    BY <1>2, <2>1, <2>2, AllGained
  <2> QED BY <1>1, <2>3 DEF Behind
<1>6. /\ Encoded' /\ FieldsIn(data, 0)' /\ (Len(data) = Needed(Fields))' /\ value' = value
  BY <1>4, InputStays DEF MarshalSteps
<1> QED BY <1>4, <1>5, <1>6 DEF Decoding

(* Nothing that the encoder wrote is rejected or skipped.                  *)
LEMMA NothingRefused ==
    ASSUME Recovering
    PROVE  /\ ~ RejectTag /\ ~ StartSkip /\ ~ RejectLength /\ ~ SkipStep /\ ~ StartUnmarshal
           /\ ReadByte => pc \in {"tag", "length"}
<1>1. ~ RejectTag /\ ~ StartSkip
  <2> SUFFICES ASSUME pc = "switch" PROVE TagOk /\ Known /\ WireType = 2
    BY DEF RejectTag, StartSkip
  <2>1. PICK n \in 1 .. Fields : In(n)
    BY DEF Recovering, Decoding
  <2>2. n \in 1 .. 2 /\ n \in DOMAIN Schema[message] /\ wire = Tag(n)
    BY <2>1, FieldLies DEF In
  <2>3. WireType = 2 /\ FieldNumber = n
    BY <2>2, TagFacts
  <2>4. Decoded = message
    BY DEF Recovering, Decoding, Decoded, InParams
  <2> QED BY <2>2, <2>3, <2>4 DEF TagOk, Known
<1>2. ~ RejectLength
  BY ContentLies DEF RejectLength, Recovering, Decoding
<1>3. pc \in {"field", "tag", "switch", "length", "content", "accepted"}
  BY RecoveringType
<1>4. ~ SkipStep
  BY <1>3 DEF SkipStep, SkipLoop, SkipItem, SkipContent, SkipEnd
<1>5. ~ StartUnmarshal
  BY <1>3 DEF StartUnmarshal
<1>6. ReadByte => pc \in {"tag", "length"}
  BY <1>3 DEF ReadByte, AfterVarint
<1> QED BY <1>1, <1>2, <1>4, <1>5, <1>6

LEMMA DecodeRecovers ==
    ASSUME Recovering, Decode
    PROVE  Encoded' /\ Decoding'
<1>1. CASE BeginField
  BY <1>1, BeginRecovers
<1>2. CASE ReadByte
  BY <1>2, NothingRefused, TagRecovers, LengthRecovers
<1>3. CASE ReadLength
  BY <1>3, ReadLengthRecovers
<1>4. CASE SetAuthority
  BY <1>4, SetAuthorityRecovers
<1>5. CASE EnterParams
  BY <1>5, EnterParamsRecovers
<1>6. CASE LeaveParams
  BY <1>6, LeaveParamsRecovers
<1>7. CASE EndOfMessage
  BY <1>7, EndRecovers
<1>8. CASE RejectTag \/ StartSkip \/ RejectLength \/ StartUnmarshal
  BY <1>8, NothingRefused
<1>9. CASE SkipTx \/ SkipParams \/ SkipGenesis \/ SkipQuery \/ SkipModule
  BY <1>9, NothingRefused DEF SkipTx, SkipParams, SkipGenesis, SkipQuery, SkipModule
<1> QED BY <1>1, <1>2, <1>3, <1>4, <1>5, <1>6, <1>7, <1>8, <1>9, DecodeSteps

LEMMA RecoversStep == CodecInv /\ Recovers /\ [Next]_vars => Recovers'
<1> SUFFICES ASSUME CodecInv, Recovers, [Next]_vars, origin' = "encoder"
             PROVE  Encoded' /\ IF pc' \in MarshalSteps THEN authority' = <<>> ELSE Decoding'
  BY DEF Recovers
<1>1. CASE Encode
  <2>1. Marshal /\ UNCHANGED decoding
    BY <1>1 DEF Encode, MarshalTx, MarshalParams, MarshalGenesis, MarshalQuery, MarshalModule
  <2>2. MInv /\ MInv'
    BY <2>1, MarshalStep DEF CodecInv
  <2>3. pc \in MarshalSteps /\ pc' \in MarshalSteps
    BY <2>1, <2>2 DEF Marshal, MakeBuffer, OmitField, PutContent, PutVarintByte, PutLastByte, PutTag,
       Return, Put, MarshalSteps, MInv
  <2>4. origin = "encoder" /\ authority' = authority
    BY <2>1 DEF decoding
  <2>5. Encoded /\ authority = <<>>
    BY <2>3, <2>4 DEF Recovers
  <2>6. Encoded'
    BY <2>1, <2>2, <2>5, EncodedStep
  <2> QED BY <2>3, <2>4, <2>5, <2>6
<1>2. CASE Decode
  <2>1. UNCHANGED input
    BY <1>2, DecodeSteps DEF StartUnmarshal, BeginField, ReadByte, RejectTag, ReadLength, StartSkip,
       RejectLength, SetAuthority, EnterParams, LeaveParams, EndOfMessage,
       SkipTx, SkipParams, SkipGenesis, SkipQuery, SkipModule, SkipStep
  <2>2. origin = "encoder"
    BY <2>1 DEF input
  <2>3. CASE StartUnmarshal
    <3>1. Encoded' /\ Decoding'
      BY <2>2, <2>3, StartRecovers
    <3>2. pc' \notin MarshalSteps
      BY <2>3 DEF StartUnmarshal, MarshalSteps
    <3> QED BY <3>1, <3>2
  <2>4. CASE ~ StartUnmarshal
    <3>1. pc \notin MarshalSteps
      BY <1>2, <2>4, DecodeSteps DEF BeginField, ReadByte, RejectTag, ReadLength, StartSkip,
         RejectLength, SetAuthority, EnterParams, LeaveParams, EndOfMessage,
         SkipTx, SkipParams, SkipGenesis, SkipQuery, SkipModule, SkipStep,
         SkipLoop, SkipItem, SkipContent, SkipEnd, AfterVarint, MarshalSteps
    <3>2. Recovering
      BY <2>2, <3>1 DEF Recovers, Recovering
    <3>3. Encoded' /\ Decoding'
      BY <1>2, <3>2, DecodeRecovers
    <3>4. pc' \notin MarshalSteps
      BY <3>3 DEF Decoding, MarshalSteps
    <3> QED BY <3>3, <3>4
  <2> QED BY <2>3, <2>4
<1>3. CASE UNCHANGED vars
  <2>1. /\ UNCHANGED <<message, data, pc, value, limit, todo, i, offset, rest>>
        /\ UNCHANGED <<origin, from, end, pos, preIndex, wire, weight, fieldNum, authority>>
    BY <1>3 DEF vars, marshalVars, decoding
  <2>2. (Encoded' <=> Encoded) /\ (Decoding' <=> Decoding)
    BY <2>1 DEF Encoded, Decoding, Behind, In, LengthRead, FieldsIn, FieldIn, TagIn, LengthIn,
       ContentIn, Needed, SizeOfField, FieldOf, Absent, LengthOf, Prefix, Fields, Gained, InParams
  <2> QED BY <2>1, <2>2 DEF Recovers
<1> QED BY <1>1, <1>2, <1>3 DEF Next

LEMMA RecoversInitially == Init => Recovers
BY EncodedInitial DEF Init, InitMarshal, Recovers, MarshalSteps

----------------------------------------------------------------------------
(* What the decoder knows at each step, in terms of the grammar.           *)
Reads(p) == Sofar(data, p, pos, wire) /\ weight = Power[pos - p]
HasRead(p) == HasVarint(data, p) /\ pos = BehindVarint(data, p) /\ wire = Value(data, p)

Begun ==
    /\ from \in Nat /\ end \in from .. Len(data) /\ preIndex \in from .. end - 1
    /\ DecodedTo(data, message, authority, from, end, preIndex)

FieldKnown ==
    /\ from = 0 /\ HasVarint(data, preIndex) /\ TypeAt(data, preIndex) = 2
    /\ IsNumbered(data, preIndex) /\ fieldNum = NumberAt(data, preIndex)
    /\ fieldNum \in DOMAIN Schema[message]

FieldUnknown ==
    IsNumbered(data, preIndex) /\ (from = 0 => NumberAt(data, preIndex) \notin DOMAIN Schema[message])

SkipFrom(p) == p \in 0 .. Len(data) /\ Awaits(data, preIndex, depth, p)

AtTag == Reads(preIndex)
AtSwitch == HasRead(preIndex)
AtLength == FieldKnown /\ Reads(LengthAt(data, preIndex))
AtContent == FieldKnown /\ HasRead(LengthAt(data, preIndex))

AtSkip == Awaits(data, preIndex, depth, pos)
AtSkipTag == \E p : SkipFrom(p) /\ Reads(p)
AtSkipSwitch == \E p : SkipFrom(p) /\ HasRead(p)

AtSkipValue ==
    \E p : SkipFrom(p) /\ HasVarint(data, p) /\ TypeAt(data, p) = 0 /\ Reads(BehindVarint(data, p))

AtSkipLength ==
    \E p : SkipFrom(p) /\ HasVarint(data, p) /\ TypeAt(data, p) = 2 /\ Reads(BehindVarint(data, p))

AtSkipContent ==
    \E p : SkipFrom(p) /\ HasVarint(data, p) /\ TypeAt(data, p) = 2 /\ HasRead(BehindVarint(data, p))

AtSkipEnd ==
    /\ pos < preIndex + IntLimit
    /\ \/ pos < preIndex /\ \A q \in preIndex + 1 .. end : ~ IsItem(data, preIndex, q)
       \/ pos > preIndex /\ Passed(data, preIndex, depth, pos)

SkipPlaces ==
    {"skip", "skipTag", "skipSwitch", "skipValue", "skipLength", "skipContent", "skipEnd"}

FollowsGrammar ==
    /\ pc \in {"start"} \cup MarshalSteps => authority = <<>>
    /\ pc = "field" => DecodedTo(data, message, authority, from, end, pos)
    /\ pc \in {"tag", "switch", "length", "content"} \cup SkipPlaces => Begun
    /\ pc \in SkipPlaces => FieldUnknown
    /\ pc = "tag" => AtTag
    /\ pc = "switch" => AtSwitch
    /\ pc = "length" => AtLength
    /\ pc = "content" => AtContent
    /\ pc = "skip" => AtSkip
    /\ pc = "skipTag" => AtSkipTag
    /\ pc = "skipSwitch" => AtSkipSwitch
    /\ pc = "skipValue" => AtSkipValue
    /\ pc = "skipLength" => AtSkipLength
    /\ pc = "skipContent" => AtSkipContent
    /\ pc = "skipEnd" => AtSkipEnd
    /\ DecodesByGrammar

(* In a message of the grammar, the field that has begun is an item.       *)
LEMMA BegunGoesOn ==
    ASSUME TypeOK, Begun, IsMessage(data, message)
    PROVE  /\ IsNumbered(data, preIndex) /\ (from = 0 => IsField(data, message, preIndex))
           /\ \E q \in preIndex + 1 .. end : IsItem(data, preIndex, q)
<1>1. data \in Seq(Bytes)
  BY DataType
<1>2. /\ from \in Nat /\ end \in from .. Len(data) /\ preIndex \in from .. end - 1
      /\ DecodedTo(data, message, authority, from, end, preIndex)
  BY DEF Begun
<1> QED BY <1>1, <1>2, DecodingGoesOn

LEMMA BegunLies ==
    ASSUME TypeOK, Begun
    PROVE  /\ data \in Seq(Bytes) /\ Len(data) \in Nat /\ Len(data) + 8 < IntLimit
           /\ from \in Nat /\ end \in Nat /\ preIndex \in Nat /\ preIndex \in 0 .. Len(data)
           /\ from =< preIndex /\ preIndex < end /\ end =< Len(data)
           /\ pos \in Int /\ wire \in 0 .. Modulus - 1 /\ depth \in Nat /\ weight \in Nat
<1>1. data \in Seq(Bytes) /\ Len(data) \in Nat /\ Len(data) + 8 < IntLimit
  BY DataType
<1>2. /\ from \in Nat /\ end \in from .. Len(data) /\ preIndex \in from .. end - 1
  BY DEF Begun
<1>3. pos \in Int /\ wire \in 0 .. Modulus - 1 /\ depth \in Nat /\ weight \in Nat
  BY DEF TypeOK
<1>4. /\ end \in Nat /\ preIndex \in Nat /\ preIndex \in 0 .. Len(data)
      /\ from =< preIndex /\ preIndex < end /\ end =< Len(data)
  BY <1>1, <1>2
<1> QED BY <1>1, <1>2, <1>3, <1>4

(* A turn of the loop over bytes: no varint that fits ends in the slice,   *)
(* or it goes on, or it has been read.                                     *)
LEMMA ByteTurns ==
    ASSUME IInv, ReadByte, NEW p \in Nat, Reads(p), end =< Len(data), end \in Nat
    PROVE  \/ /\ pc' = "rejected"
              /\ ~ (HasVarint(data, p) /\ BehindVarint(data, p) =< end)
           \/ pc' = pc /\ Sofar(data, p, pos', wire') /\ weight' = Power[pos' - p]
           \/ /\ pc' = AfterVarint[pc] /\ HasVarint(data, p) /\ pos' = BehindVarint(data, p)
              /\ wire' = Value(data, p)
<1>0. TypeOK
  BY DEF IInv
<1>1. data \in Seq(Bytes) /\ Len(data) \in Nat /\ Modulus \in Nat
  BY <1>0, DataType DEF Modulus
<1>2. Sofar(data, p, pos, wire) /\ weight = Power[pos - p]
  BY DEF Reads
<1>3. pos \in p .. Len(data) /\ pos \in Nat
  BY <1>2 DEF Sofar
<1>4. CASE weight >= Modulus \/ pos >= end
  <2>1. ~ (Power[pos - p] < Modulus) \/ pos >= end
    <3>1. pos - p \in Nat
      BY <1>3
    <3>2. Power[pos - p] \in Nat
      BY <3>1, PowerFacts
    <3> QED BY <1>1, <1>2, <1>4, <3>2
  <2>2. ~ (HasVarint(data, p) /\ BehindVarint(data, p) =< end)
    BY <1>1, <1>2, <2>1, SofarFails
  <2>3. pc' = "rejected"
    BY <1>0, <1>1, <1>3, <1>4 DEF ReadByte, TypeOK
  <2> QED BY <2>2, <2>3
<1>5. CASE weight < Modulus /\ pos < end
  <2>1. pos \in p .. Len(data) - 1 /\ pos < Len(data)
    BY <1>1, <1>3, <1>5
  <2>2. InBounds
    <3>1. pc \in {"tag", "length", "skipTag", "skipValue", "skipLength"}
      BY DEF ReadByte, AfterVarint
    <3>2. (IF InSkip THEN preIndex ELSE from) =< pos
      BY <3>1 DEF InSkip, IInv, TypeOK, FieldInSlice, Results, MarshalSteps
    <3> QED BY <2>1, <3>2 DEF InBounds
  <2>3. Byte = data[pos + 1] /\ data[pos + 1] \in Bytes
    BY <1>1, <2>1, <2>2 DEF Byte
  <2>4. /\ wire' = (wire + (Byte % Cont) * weight) % Modulus /\ pos' = pos + 1
        /\ weight' = Cont * weight /\ pc' = IF Byte < Cont THEN AfterVarint[pc] ELSE pc
    BY <1>0, <1>1, <1>3, <1>5, <2>2, ByteRead DEF TypeOK
  <2>5. wire' = TurnedWord(data, p, pos, wire)
    BY <1>2, <2>3, <2>4 DEF TurnedWord
  <2>6. CASE Byte < Cont
    <3>1. Power[pos - p] < Modulus
      BY <1>2, <1>5
    <3>2. HasVarint(data, p) /\ BehindVarint(data, p) = pos + 1
          /\ Value(data, p) = TurnedWord(data, p, pos, wire)
      BY <1>1, <1>2, <2>1, <2>3, <2>6, <3>1, SofarEnds
    <3> QED BY <2>4, <2>5, <2>6, <3>2
  <2>7. CASE ~ (Byte < Cont)
    <3>1. Sofar(data, p, pos + 1, TurnedWord(data, p, pos, wire))
      BY <1>1, <1>2, <2>1, <2>3, <2>7, SofarGoesOn
    <3>2. Cont * Power[pos - p] = Power[(pos + 1) - p]
      <4>1. pos - p \in Nat /\ (pos - p) + 1 = (pos + 1) - p
        BY <1>3
      <4> QED BY <4>1, PowerFacts
    <3> QED BY <1>2, <2>4, <2>5, <2>7, <3>1, <3>2
  <2> QED BY <2>6, <2>7
<1>6. weight >= Modulus \/ pos >= end \/ (weight < Modulus /\ pos < end)
  BY <1>0, <1>1, <1>3 DEF TypeOK
<1> QED BY <1>4, <1>5, <1>6

LEMMA BegunKept ==
    ASSUME UNCHANGED <<data, message, authority, from, end, preIndex>>
    PROVE  /\ Begun' <=> Begun
           /\ FieldUnknown' <=> FieldUnknown
           /\ IsMessage(data, message)' <=> IsMessage(data, message)
<1> USE DEF Begun, FieldUnknown
<1>1. Begun' <=> Begun
  OBVIOUS
<1>2. FieldUnknown' <=> FieldUnknown
  OBVIOUS
<1>3. IsMessage(data, message)' <=> IsMessage(data, message)
  OBVIOUS
<1> QED BY <1>1, <1>2, <1>3

LEMMA Rejected ==
    ASSUME pc' = "rejected", ~ IsMessage(data, message)'
    PROVE  FollowsGrammar'
BY DEF FollowsGrammar, DecodesByGrammar, SkipPlaces, MarshalSteps

(* The tag that has been read.                                             *)
LEMMA SchemaFacts ==
    ASSUME NEW m \in DOMAIN Schema
    PROVE  /\ DOMAIN Schema[m] \subseteq 1 .. 2
           /\ \A n \in DOMAIN Schema[m] : Schema[m][n] \in {"string", "message"}
           /\ DOMAIN Schema["Params"] = {}
BY DEF Schema, MsgUpdateParams, MsgUpdateParamsResponse, GenesisState, QueryParamsRequest,
   QueryParamsResponse, Module, Params

LEMMA TagRead ==
    ASSUME TypeOK, Begun, AtSwitch
    PROVE  /\ HasVarint(data, preIndex) /\ pos = BehindVarint(data, preIndex)
           /\ WireType = TypeAt(data, preIndex)
           /\ FieldNumber > 0 <=> IsNumbered(data, preIndex)
           /\ FieldNumber > 0 => FieldNumber = NumberAt(data, preIndex)
           /\ FieldNumber > 0 => (Known <=> from = 0 /\ NumberAt(data, preIndex) \in DOMAIN Schema[message])
           /\ from = 0 => Decoded = message
<1>1. HasVarint(data, preIndex) /\ pos = BehindVarint(data, preIndex) /\ wire = Value(data, preIndex)
  BY DEF AtSwitch, HasRead
<1>2. WireType = TypeAt(data, preIndex)
  BY <1>1 DEF WireType, TypeAt
<1> DEFINE n == NumberAt(data, preIndex)
<1>3. n \in 0 .. 2 * FieldLimit - 1 /\ FieldNumber = Signed(n, FieldLimit)
  <2> DEFINE v == Value(data, preIndex)
             k == v \div 8
  <2>1. v \in Nat
    BY BegunLies, ValueType
  <2>2. n = k % (2 * FieldLimit) /\ FieldNumber = Signed(k % (2 * FieldLimit), FieldLimit)
    BY <1>1 DEF NumberAt, FieldNumber
  <2> HIDE DEF v
  <2>3. k \in Nat
    BY <2>1
  <2> HIDE DEF k, n
  <2>4. 2 * FieldLimit \in Nat \ {0}
    OBVIOUS
  <2>5. k % (2 * FieldLimit) \in 0 .. 2 * FieldLimit - 1
    BY <2>3, <2>4
  <2> QED BY <2>2, <2>5
<1>4. IsNumbered(data, preIndex) <=> n \in 1 .. FieldLimit - 1
  BY DEF IsNumbered
<1>5. from \in Nat
  BY BegunLies
<1>6. Decoded = IF from = 0 THEN message ELSE "Params"
  BY <1>5 DEF Decoded, InParams
<1>7. DOMAIN Schema["Params"] = {}
  BY SchemaFacts DEF TypeOK, MarshalTypeOK
<1>8. Known <=> from = 0 /\ FieldNumber \in DOMAIN Schema[message]
  BY <1>6, <1>7 DEF Known
<1> HIDE DEF n
<1>9. (FieldNumber > 0 <=> n \in 1 .. FieldLimit - 1) /\ (FieldNumber > 0 => FieldNumber = n)
  BY <1>3 DEF Signed
<1> QED BY <1>1, <1>2, <1>4, <1>6, <1>8, <1>9 DEF n

(* The actions of Unmarshal.                                               *)
LEMMA StartFollows == CodecInv /\ FollowsGrammar /\ StartUnmarshal => FollowsGrammar'
<1> SUFFICES ASSUME CodecInv, FollowsGrammar, StartUnmarshal PROVE FollowsGrammar'
  OBVIOUS
<1>1. pc \in {"start"} \cup MarshalSteps
  BY DEF StartUnmarshal, MarshalSteps
<1>2. authority = <<>> /\ from = 0 /\ pos = 0
  BY <1>1 DEF FollowsGrammar, CodecInv, IInv, NotStarted
<1>3. /\ pc' = "field" /\ end' = Len(data) /\ data' = data /\ message' = message
      /\ from' = from /\ pos' = pos /\ authority' = authority
  BY DEF StartUnmarshal, input
<1>4. DecodedTo(data, message, <<>>, 0, Len(data), 0)
  BY DecodingStarts, DataType DEF CodecInv, IInv
<1>5. DecodedTo(data, message, authority, from, end, pos)'
  BY <1>2, <1>3, <1>4
<1> QED BY <1>3, <1>5 DEF FollowsGrammar, DecodesByGrammar, SkipPlaces, MarshalSteps

LEMMA BeginFollows == CodecInv /\ FollowsGrammar /\ BeginField => FollowsGrammar'
<1> SUFFICES ASSUME CodecInv, FollowsGrammar, BeginField PROVE FollowsGrammar'
  OBVIOUS
<1>0. TypeOK
  BY DEF CodecInv, IInv
<1>1. /\ pc = "field" /\ pos < end /\ pc' = "tag" /\ preIndex' = pos /\ wire' = 0 /\ weight' = 1
      /\ data' = data /\ message' = message /\ from' = from /\ end' = end /\ pos' = pos
      /\ authority' = authority
  BY DEF BeginField, StartVarint, input, slice
<1>2. from \in Nat /\ end \in from .. Len(data) /\ pos \in from .. end /\ data \in Seq(Bytes)
  BY <1>0, <1>1, SliceType, DataType DEF TypeOK, MarshalSteps
<1>3. DecodedTo(data, message, authority, from, end, pos)
  BY <1>1 DEF FollowsGrammar
<1>4. Begun'
  <2>1. pos \in from .. end - 1
    BY <1>1, <1>2
  <2> QED BY <1>1, <1>2, <1>3, <2>1 DEF Begun
<1>5. AtTag'
  <2>1. pos \in 0 .. Len(data)
    BY <1>2
  <2>2. Sofar(data, pos, pos, 0)
    BY <1>2, <2>1, SofarStarts
  <2>3. pos - pos = 0 /\ Power[0] = 1
    BY <2>1, PowerFacts
  <2> QED BY <1>1, <2>2, <2>3 DEF AtTag, Reads
<1> QED BY <1>1, <1>4, <1>5 DEF FollowsGrammar, DecodesByGrammar, SkipPlaces, MarshalSteps

LEMMA RejectTagFollows == CodecInv /\ FollowsGrammar /\ RejectTag => FollowsGrammar'
<1> SUFFICES ASSUME CodecInv, FollowsGrammar, RejectTag PROVE FollowsGrammar'
  OBVIOUS
<1>0. TypeOK
  BY DEF CodecInv, IInv
<1>1. /\ pc = "switch" /\ (TagOk => Known /\ WireType # 2) /\ pc' = "rejected"
      /\ data' = data /\ message' = message
  BY DEF RejectTag, Reject, input
<1>2. Begun /\ AtSwitch
  BY <1>1 DEF FollowsGrammar
<1>3. ~ IsMessage(data, message)
  <2> SUFFICES ASSUME IsMessage(data, message) PROVE FALSE
    OBVIOUS
  <2>1. IsNumbered(data, preIndex) /\ (from = 0 => IsField(data, message, preIndex))
    BY <1>0, <1>2, BegunGoesOn
  <2>2. PICK q \in preIndex + 1 .. end : IsItem(data, preIndex, q)
    BY <1>0, <1>2, BegunGoesOn
  <2>3. q \in Nat /\ preIndex \in Nat /\ data \in Seq(Bytes)
    BY <1>0, <1>2, BegunLies
  <2>4. TypeAt(data, preIndex) # 4
    BY <2>2, <2>3, ItemLies
  <2>5. TagOk
    BY <1>0, <1>2, <2>1, <2>4, TagRead DEF TagOk
  <2>6. from = 0 /\ NumberAt(data, preIndex) \in DOMAIN Schema[message] /\ TypeAt(data, preIndex) # 2
    BY <1>0, <1>1, <1>2, <2>1, <2>5, TagRead
  <2>7. \/ IsKnown(data, message, preIndex, "string")
        \/ IsKnown(data, message, preIndex, "message")
    BY <1>0, <2>6, SchemaFacts DEF IsKnown, TypeOK, MarshalTypeOK
  <2> QED BY <2>1, <2>6, <2>7 DEF IsField
<1> QED BY <1>1, <1>3, Rejected

LEMMA ReadLengthFollows == CodecInv /\ FollowsGrammar /\ ReadLength => FollowsGrammar'
<1> SUFFICES ASSUME CodecInv, FollowsGrammar, ReadLength PROVE FollowsGrammar'
  OBVIOUS
<1>0. TypeOK
  BY DEF CodecInv, IInv
<1>1. /\ pc = "switch" /\ TagOk /\ Known /\ WireType = 2
      /\ fieldNum' = FieldNumber /\ pc' = "length" /\ wire' = 0 /\ weight' = 1
      /\ data' = data /\ message' = message /\ from' = from /\ end' = end /\ pos' = pos
      /\ authority' = authority /\ preIndex' = preIndex
  BY DEF ReadLength, StartVarint, input, slice
<1>2. Begun /\ AtSwitch
  BY <1>1 DEF FollowsGrammar
<1>3. Begun'
  BY <1>1, <1>2, BegunKept
<1>4. /\ HasVarint(data, preIndex) /\ pos = BehindVarint(data, preIndex) /\ FieldNumber > 0
      /\ TypeAt(data, preIndex) = 2 /\ IsNumbered(data, preIndex) /\ from = 0
      /\ FieldNumber = NumberAt(data, preIndex) /\ FieldNumber \in DOMAIN Schema[message]
  BY <1>0, <1>1, <1>2, TagRead DEF TagOk
<1>5. FieldKnown'
  BY <1>1, <1>4 DEF FieldKnown
<1>6. Reads(LengthAt(data, preIndex))'
  <2>1. data \in Seq(Bytes) /\ preIndex \in Nat
    BY <1>0, <1>2, BegunLies
  <2>2. pos \in 0 .. Len(data)
    BY <1>4, <2>1, VarintLies
  <2>3. Sofar(data, pos, pos, 0)
    BY <2>1, <2>2, SofarStarts
  <2>4. pos - pos = 0 /\ Power[0] = 1
    BY <2>2, PowerFacts
  <2>5. LengthAt(data, preIndex) = pos
    BY <1>4 DEF LengthAt
  <2> QED BY <1>1, <2>3, <2>4, <2>5 DEF Reads
<1>7. AtLength'
  BY <1>5, <1>6 DEF AtLength
<1> QED BY <1>1, <1>3, <1>7 DEF FollowsGrammar, DecodesByGrammar, SkipPlaces, MarshalSteps

LEMMA StartSkipFollows == CodecInv /\ FollowsGrammar /\ StartSkip => FollowsGrammar'
<1> SUFFICES ASSUME CodecInv, FollowsGrammar, StartSkip PROVE FollowsGrammar'
  OBVIOUS
<1>0. TypeOK
  BY DEF CodecInv, IInv
<1>1. /\ pc = "switch" /\ TagOk /\ ~ Known /\ pc' = "skip" /\ pos' = preIndex /\ depth' = 0
      /\ data' = data /\ message' = message /\ from' = from /\ end' = end
      /\ authority' = authority /\ preIndex' = preIndex
  BY DEF StartSkip, input, slice
<1>2. Begun /\ AtSwitch
  BY <1>1 DEF FollowsGrammar
<1>3. FieldUnknown
  BY <1>0, <1>1, <1>2, TagRead DEF TagOk, FieldUnknown
<1>4. Begun' /\ FieldUnknown'
  BY <1>1, <1>2, <1>3, BegunKept
<1>5. AtSkip'
  <2>1. preIndex \in Nat
    BY <1>0, <1>2, BegunLies
  <2> QED BY <1>1, <2>1 DEF AtSkip, Awaits
<1> QED BY <1>1, <1>4, <1>5 DEF FollowsGrammar, DecodesByGrammar, SkipPlaces, MarshalSteps

(* The length that has been read, and what it says of the field.           *)
LEMMA ContentRead ==
    ASSUME IInv, Begun, AtContent
    PROVE  /\ HasVarint(data, preIndex) /\ HasVarint(data, LengthAt(data, preIndex))
           /\ TypeAt(data, preIndex) = 2 /\ from = 0
           /\ ContentAt(data, preIndex) = pos /\ BehindContent(data, preIndex) = pos + wire
           /\ IsScalar(data, preIndex, pos + wire) /\ IsItem(data, preIndex, pos + wire)
           /\ pos \in Nat /\ pos > preIndex /\ wire \in Nat
           /\ IsKnown(data, message, preIndex, Schema[Decoded][fieldNum])
<1> DEFINE l == LengthAt(data, preIndex)
<1>0. data \in Seq(Bytes) /\ preIndex \in Nat /\ wire \in 0 .. Modulus - 1
  BY BegunLies DEF IInv
<1>1. /\ from = 0 /\ HasVarint(data, preIndex) /\ TypeAt(data, preIndex) = 2
      /\ fieldNum = NumberAt(data, preIndex) /\ fieldNum \in DOMAIN Schema[message]
      /\ HasVarint(data, l) /\ pos = BehindVarint(data, l) /\ wire = Value(data, l)
  BY DEF AtContent, FieldKnown, HasRead
<1>2. ContentAt(data, preIndex) = pos /\ BehindContent(data, preIndex) = pos + wire
  BY <1>1 DEF ContentAt, BehindContent
<1>3. IsScalar(data, preIndex, pos + wire) /\ IsItem(data, preIndex, pos + wire)
  BY <1>1, <1>2, LengthDelimited
<1>4. l \in preIndex + 1 .. Len(data) /\ l \in Nat
  BY <1>0, <1>1, VarintLies DEF LengthAt
<1>5. pos \in l + 1 .. Len(data)
  <2> HIDE DEF l
  <2> QED BY <1>0, <1>1, <1>4, VarintLies
<1>6. pos \in Nat /\ pos > preIndex /\ wire \in Nat
  <2> HIDE DEF l
  <2> QED BY <1>0, <1>4, <1>5
<1>7. IsKnown(data, message, preIndex, Schema[Decoded][fieldNum])
  BY <1>1 DEF IsKnown, Decoded, InParams
<1> QED BY <1>1, <1>2, <1>3, <1>6, <1>7

LEMMA FittingContent ==
    ASSUME IInv, Begun, AtContent, pc = "content"
    PROVE  /\ LengthFits <=> pos + wire =< end
           /\ LengthFits => PostIndex = pos + wire
<1>1. /\ Len(data) \in Nat /\ Len(data) + 8 < IntLimit /\ end \in Nat /\ end =< Len(data)
      /\ wire \in 0 .. Modulus - 1
  BY BegunLies DEF IInv
<1>2. pos \in Nat /\ pos > preIndex /\ wire \in Nat /\ from = 0
  BY ContentRead
<1>3. pos =< end
  BY <1>1, <1>2 DEF IInv, TypeOK
<1>4. Length = ToInt(wire) /\ (Length = wire => PostIndex = ToInt(pos + wire))
  <2>1. Length = ToInt(wire)
    BY DEF Length
  <2>2. PostIndex = from + ToInt(pos - from + Length)
    BY DEF PostIndex
  <2>3. pos - from + wire = pos + wire /\ ToInt(pos + wire) \in Int
    <3>1. pos + wire \in Int
      BY <1>2
    <3>2. ToInt(pos + wire) \in Int
      BY <3>1, IntIsInt
    <3> QED BY <1>2, <3>2
  <2>4. ASSUME Length = wire PROVE PostIndex = ToInt(pos + wire)
    <3>1. PostIndex = 0 + ToInt(pos + wire)
      BY <1>2, <2>2, <2>3, <2>4
    <3> QED BY <2>3, <3>1
  <2> QED BY <2>1, <2>4
<1>5. wire < 2 * IntLimit
  BY <1>1 DEF Modulus
<1>6. ToInt(wire) \in Int /\ (ToInt(wire) >= 0 => ToInt(wire) = wire) /\ (wire < IntLimit => ToInt(wire) = wire)
  BY <1>2, <1>5, SumOfInts, SmallIsInt
<1>7. ASSUME pos + wire =< end PROVE LengthFits /\ PostIndex = pos + wire
  <2>1. pos + wire < IntLimit /\ wire < IntLimit /\ pos + wire \in Nat
    BY <1>1, <1>2, <1>7
  <2>2. ToInt(pos + wire) = pos + wire
    BY <2>1, SmallIsInt
  <2>3. PostIndex = pos + wire /\ Length = wire
    BY <1>2, <1>4, <1>6, <2>1, <2>2
  <2> QED BY <1>2, <1>7, <2>3 DEF LengthFits
<1>8. ASSUME LengthFits PROVE pos + wire =< end
  <2>1. Length >= 0 /\ PostIndex >= from /\ PostIndex =< end
    BY <1>8 DEF LengthFits
  <2>2. wire < IntLimit /\ Length = wire
    BY <1>2, <1>4, <1>5, <1>6, <2>1 DEF ToInt, Signed
  <2>3. pos + wire \in Nat /\ pos + wire < 2 * IntLimit
    BY <1>1, <1>2, <1>3, <2>2
  <2>4. ToInt(pos + wire) \in Int /\ (ToInt(pos + wire) >= 0 => ToInt(pos + wire) = pos + wire)
    BY <2>3, SumOfInts
  <2>5. ToInt(pos + wire) = PostIndex
    BY <1>4, <2>2
  <2> QED BY <1>2, <2>1, <2>4, <2>5
<1> QED BY <1>7, <1>8

LEMMA RejectLengthFollows == CodecInv /\ FollowsGrammar /\ RejectLength => FollowsGrammar'
<1> SUFFICES ASSUME CodecInv, FollowsGrammar, RejectLength PROVE FollowsGrammar'
  OBVIOUS
<1>0. IInv /\ TypeOK
  BY DEF CodecInv, IInv
<1>1. /\ pc = "content" /\ ~ LengthFits /\ pc' = "rejected" /\ data' = data /\ message' = message
  BY DEF RejectLength, Reject, input
<1>2. Begun /\ AtContent
  BY <1>1 DEF FollowsGrammar
<1>3. ~ IsMessage(data, message)
  <2> SUFFICES ASSUME IsMessage(data, message) PROVE FALSE
    OBVIOUS
  <2>1. PICK q \in preIndex + 1 .. end : IsItem(data, preIndex, q)
    BY <1>0, <1>2, BegunGoesOn
  <2>2. q \in Nat /\ q =< end /\ preIndex \in Nat /\ data \in Seq(Bytes)
    BY <1>0, <1>2, BegunLies
  <2>3. TypeAt(data, preIndex) = 2 /\ IsScalar(data, preIndex, pos + wire)
    BY <1>0, <1>2, ContentRead
  <2>4. IsScalar(data, preIndex, q)
    BY <2>1, <2>2, <2>3, ItemLies
  <2>5. q = pos + wire
    BY <2>3, <2>4, ScalarsAgree
  <2> QED BY <1>0, <1>1, <1>2, <2>2, <2>5, FittingContent
<1> QED BY <1>1, <1>3, Rejected

LEMMA SetAuthorityFollows == CodecInv /\ FollowsGrammar /\ SetAuthority => FollowsGrammar'
<1> SUFFICES ASSUME CodecInv, FollowsGrammar, SetAuthority PROVE FollowsGrammar'
  OBVIOUS
<1>0. IInv /\ TypeOK
  BY DEF CodecInv, IInv
<1>1. /\ pc = "content" /\ LengthFits /\ Schema[Decoded][fieldNum] = "string"
      /\ authority' = SubSeq(data, pos + 1, PostIndex) /\ pos' = PostIndex /\ pc' = Sliced
      /\ data' = data /\ message' = message /\ from' = from /\ end' = end
  BY DEF SetAuthority, input, slice
<1>2. Begun /\ AtContent
  BY <1>1 DEF FollowsGrammar
<1>3. /\ HasVarint(data, preIndex) /\ HasVarint(data, LengthAt(data, preIndex))
      /\ TypeAt(data, preIndex) = 2 /\ from = 0
      /\ ContentAt(data, preIndex) = pos /\ BehindContent(data, preIndex) = pos + wire
      /\ pos \in Nat /\ pos > preIndex /\ wire \in Nat
      /\ IsKnown(data, message, preIndex, "string")
  BY <1>0, <1>1, <1>2, ContentRead
<1>4. PostIndex = pos + wire /\ pos + wire =< end
  BY <1>0, <1>1, <1>2, FittingContent
<1>5. /\ data \in Seq(Bytes) /\ end \in Nat /\ end =< Len(data) /\ Len(data) \in Nat /\ preIndex \in Nat
      /\ preIndex < end
  BY <1>0, <1>2, BegunLies
<1>6. Sliced = "field"
  BY <1>3, <1>4, <1>5 DEF Sliced
<1>7. DecodedTo(data, message, SubSeq(data, pos + 1, PostIndex), 0, end, PostIndex)
  <2>1. DecodedTo(data, message, authority, 0, end, preIndex) /\ IsNumbered(data, preIndex)
    BY <1>2, <1>3 DEF Begun, AtContent, FieldKnown
  <2>2. end \in 0 .. Len(data) /\ preIndex \in 0 .. end /\ PostIndex \in preIndex + 1 .. end
    BY <1>3, <1>4, <1>5
  <2> QED BY <1>3, <1>4, <1>5, <2>1, <2>2, StringDecoded
<1>8. DecodedTo(data, message, authority, from, end, pos)'
  BY <1>1, <1>3, <1>7
<1> QED BY <1>1, <1>6, <1>8 DEF FollowsGrammar, DecodesByGrammar, SkipPlaces, MarshalSteps

LEMMA EnterParamsFollows == CodecInv /\ FollowsGrammar /\ EnterParams => FollowsGrammar'
<1> SUFFICES ASSUME CodecInv, FollowsGrammar, EnterParams PROVE FollowsGrammar'
  OBVIOUS
<1>0. IInv /\ TypeOK
  BY DEF CodecInv, IInv
<1>1. /\ pc = "content" /\ LengthFits /\ Schema[Decoded][fieldNum] = "message"
      /\ from' = pos /\ end' = PostIndex /\ pc' = Sliced
      /\ data' = data /\ message' = message /\ pos' = pos /\ authority' = authority
  BY DEF EnterParams, input
<1>2. Begun /\ AtContent
  BY <1>1 DEF FollowsGrammar
<1>3. /\ HasVarint(data, preIndex) /\ HasVarint(data, LengthAt(data, preIndex))
      /\ TypeAt(data, preIndex) = 2 /\ from = 0
      /\ ContentAt(data, preIndex) = pos /\ BehindContent(data, preIndex) = pos + wire
      /\ pos \in Nat /\ pos > preIndex /\ wire \in Nat
      /\ IsKnown(data, message, preIndex, "message")
  BY <1>0, <1>1, <1>2, ContentRead
<1>4. PostIndex = pos + wire /\ pos + wire =< end
  BY <1>0, <1>1, <1>2, FittingContent
<1>5. /\ data \in Seq(Bytes) /\ end \in Nat /\ end =< Len(data) /\ Len(data) \in Nat /\ preIndex \in Nat
      /\ preIndex < end
  BY <1>0, <1>2, BegunLies
<1>6. Sliced = "field"
  BY <1>3, <1>4, <1>5 DEF Sliced
<1>7. DecodedTo(data, message, authority, pos, PostIndex, pos)
  <2>1. DecodedTo(data, message, authority, 0, end, preIndex) /\ IsNumbered(data, preIndex)
    BY <1>2, <1>3 DEF Begun, AtContent, FieldKnown
  <2>2. end \in 0 .. Len(data) /\ preIndex \in 0 .. end /\ pos \in 1 .. Len(data)
    BY <1>3, <1>4, <1>5
  <2>3. Encloses(data, message, preIndex, pos, PostIndex)
    BY <1>3, <1>4, <2>1 DEF Encloses
  <2> QED BY <1>5, <2>1, <2>2, <2>3, ParamsEntered
<1>8. DecodedTo(data, message, authority, from, end, pos)'
  BY <1>1, <1>7
<1> QED BY <1>1, <1>6, <1>8 DEF FollowsGrammar, DecodesByGrammar, SkipPlaces, MarshalSteps

LEMMA LeaveParamsFollows == CodecInv /\ FollowsGrammar /\ LeaveParams => FollowsGrammar'
<1> SUFFICES ASSUME CodecInv, FollowsGrammar, LeaveParams PROVE FollowsGrammar'
  OBVIOUS
<1>0. TypeOK
  BY DEF CodecInv, IInv
<1>1. /\ pc = "field" /\ pos >= end /\ from > 0
      /\ pc' = IF pos > end THEN "rejected" ELSE "field"
      /\ from' = 0 /\ end' = Len(data) /\ pos' = end
      /\ data' = data /\ message' = message /\ authority' = authority
  BY DEF LeaveParams, InParams, input
<1>2. from \in Nat /\ end \in from .. Len(data) /\ pos \in from .. end /\ data \in Seq(Bytes)
  BY <1>0, <1>1, SliceType, DataType DEF TypeOK, MarshalSteps
<1>3. pos = end /\ from \in 1 .. Len(data) /\ ~ (pos > end)
  BY <1>1, <1>2
<1>4. DecodedTo(data, message, authority, from, end, end)
  BY <1>1, <1>3 DEF FollowsGrammar
<1>5. DecodedTo(data, message, authority, 0, Len(data), end)
  BY <1>2, <1>3, <1>4, ParamsLeft
<1>6. DecodedTo(data, message, authority, from, end, pos)'
  BY <1>1, <1>5
<1> QED BY <1>1, <1>3, <1>6 DEF FollowsGrammar, DecodesByGrammar, SkipPlaces, MarshalSteps

LEMMA EndFollows == CodecInv /\ FollowsGrammar /\ EndOfMessage => FollowsGrammar'
<1> SUFFICES ASSUME CodecInv, FollowsGrammar, EndOfMessage PROVE FollowsGrammar'
  OBVIOUS
<1>0. TypeOK
  BY DEF CodecInv, IInv
<1>1. /\ pc = "field" /\ pos >= end /\ ~ (from > 0)
      /\ pc' = IF pos > end THEN "rejected" ELSE "accepted"
      /\ data' = data /\ message' = message /\ authority' = authority
  BY DEF EndOfMessage, InParams, input
<1>2. from \in Nat /\ end \in from .. Len(data) /\ pos \in from .. end /\ data \in Seq(Bytes)
  BY <1>0, <1>1, SliceType, DataType DEF TypeOK, MarshalSteps
<1>3. pos = end /\ ~ (pos > end)
  BY <1>1, <1>2
<1>4. DecodedTo(data, message, authority, from, end, pos)
  BY <1>1 DEF FollowsGrammar
<1>5. Outer(data, message, authority, Len(data))
  BY <1>1, <1>3, <1>4 DEF DecodedTo
<1>6. IsMessage(data, message) /\ authority = Meaning(data, message, Len(data))
  BY <1>5 DEF Outer, IsMessage
<1>7. DecodesByGrammar'
  BY <1>1, <1>3, <1>6 DEF DecodesByGrammar
<1> QED BY <1>1, <1>3, <1>7 DEF FollowsGrammar, SkipPlaces, MarshalSteps

(* In a message of the grammar skip finds what it reads in the slice.      *)
LEMMA SkipGoesOn ==
    ASSUME TypeOK, Begun, NEW p, Awaits(data, preIndex, depth, p), IsMessage(data, message)
    PROVE  /\ HasVarint(data, p) /\ BehindVarint(data, p) =< end /\ p < end
           /\ TypeAt(data, p) \in 0 .. 5 /\ (TypeAt(data, p) = 4 => depth > 0)
           /\ TypeAt(data, p) \in {0, 2} =>
                  /\ HasVarint(data, BehindVarint(data, p))
                  /\ BehindVarint(data, BehindVarint(data, p)) =< end
<1> DEFINE b == BehindVarint(data, p)
           c == BehindVarint(data, b)
<1>1. /\ data \in Seq(Bytes) /\ preIndex \in 0 .. Len(data) /\ end \in Nat /\ end =< Len(data)
      /\ depth \in Nat /\ preIndex \in Nat /\ Len(data) \in Nat
  BY BegunLies
<1>2. PICK q \in preIndex + 1 .. end : IsItem(data, preIndex, q)
  BY BegunGoesOn
<1>3. q \in preIndex + 1 .. Len(data) /\ q \in Nat /\ q =< end
  BY <1>1
<1>4. /\ p \in 0 .. Len(data) /\ HasVarint(data, p) /\ b =< q
      /\ TypeAt(data, p) \in 0 .. 5 /\ (TypeAt(data, p) = 4 => depth > 0)
      /\ TypeAt(data, p) \in {0, 2} => HasVarint(data, b) /\ c =< q
  BY <1>1, <1>2, <1>3, AwaitsLies
<1>5. b \in p + 1 .. Len(data) /\ b \in Nat /\ p \in Nat
  <2>1. p \in Nat
    BY <1>4
  <2> QED BY <1>1, <1>4, <2>1, VarintLies
<1>6. HasVarint(data, b) => c \in Nat
  <2> HIDE DEF b
  <2> QED BY <1>1, <1>5, VarintLies
<1> HIDE DEF c
<1>7. HasVarint(data, b) /\ c =< q => c =< end
  BY <1>1, <1>3, <1>6
<1> HIDE DEF b
<1>8. b =< end /\ p < end
  BY <1>1, <1>3, <1>4, <1>5
<1> QED BY <1>4, <1>7, <1>8 DEF b, c

LEMMA PassedLies ==
    ASSUME NEW s, NEW o, NEW d \in Nat, NEW p, Passed(s, o, d, p), NEW q \in o + 1 .. Len(s),
           IsItem(s, o, q)
    PROVE  p \in 0 .. q
<1>1. Closes(s, d, p, q)
  BY DEF Passed
<1>2. PICK c \in [0 .. d -> 0 .. q] : c[0] = p
  BY <1>1 DEF Closes
<1>3. 0 \in 0 .. d
  OBVIOUS
<1> QED BY <1>2, <1>3

(* The turns of the loop over bytes.                                       *)
LEMMA ByteKeeps ==
    ASSUME ReadByte, Begun
    PROVE  /\ UNCHANGED <<data, message, authority, from, end, preIndex>> /\ Begun'
           /\ depth' = depth /\ fieldNum' = fieldNum
           /\ FieldUnknown' <=> FieldUnknown
           /\ IsMessage(data, message)' <=> IsMessage(data, message)
           /\ \A p : SkipFrom(p)' <=> SkipFrom(p)
<1>1. UNCHANGED <<data, message, authority, from, end, preIndex>> /\ depth' = depth /\ fieldNum' = fieldNum
  BY DEF ReadByte, input, slice
<1>2. \A p : SkipFrom(p)' <=> SkipFrom(p)
  BY <1>1 DEF SkipFrom
<1> QED BY <1>1, <1>2, BegunKept

LEMMA TagByteFollows ==
    ASSUME CodecInv, FollowsGrammar, ReadByte, pc \in {"tag", "length"}
    PROVE  FollowsGrammar'
<1>0. IInv /\ TypeOK
  BY DEF CodecInv, IInv
<1>1. Begun
  BY DEF FollowsGrammar
<1>2. /\ data \in Seq(Bytes) /\ preIndex \in Nat /\ end \in Nat /\ end =< Len(data) /\ Len(data) \in Nat
  BY <1>0, <1>1, BegunLies
<1>3. /\ data' = data /\ message' = message /\ from' = from /\ preIndex' = preIndex
      /\ fieldNum' = fieldNum /\ Begun'
  BY <1>1, ByteKeeps
<1>4. CASE pc = "tag"
  <2>1. Reads(preIndex)
    BY <1>4 DEF FollowsGrammar, AtTag
  <2>2. CASE pc' = "rejected" /\ ~ (HasVarint(data, preIndex) /\ BehindVarint(data, preIndex) =< end)
    <3>1. ~ IsMessage(data, message)
      <4> SUFFICES ASSUME IsMessage(data, message) PROVE FALSE
        OBVIOUS
      <4>1. PICK q \in preIndex + 1 .. end : IsItem(data, preIndex, q)
        BY <1>0, <1>1, BegunGoesOn
      <4> DEFINE b == BehindVarint(data, preIndex)
      <4>2. q \in Nat /\ q =< end
        BY <1>2
      <4>3. HasVarint(data, preIndex) /\ b =< q
        BY <1>2, <4>1, <4>2, ItemLies
      <4>4. b \in Nat
        BY <1>2, <4>3, VarintLies
      <4>5. b =< end
        <5> HIDE DEF b
        <5> QED BY <1>2, <4>2, <4>3, <4>4
      <4> QED BY <2>2, <4>3, <4>5
    <3> QED BY <1>3, <2>2, <3>1, Rejected
  <2>3. CASE pc' = pc /\ Sofar(data, preIndex, pos', wire') /\ weight' = Power[pos' - preIndex]
    <3>1. AtTag'
      BY <1>3, <2>3 DEF AtTag, Reads
    <3> QED BY <1>3, <1>4, <2>3, <3>1 DEF FollowsGrammar, DecodesByGrammar, SkipPlaces, MarshalSteps
  <2>4. CASE /\ pc' = AfterVarint[pc] /\ HasVarint(data, preIndex) /\ pos' = BehindVarint(data, preIndex)
             /\ wire' = Value(data, preIndex)
    <3>1. AtSwitch'
      BY <1>3, <2>4 DEF AtSwitch, HasRead
    <3>2. pc' = "switch"
      BY <1>4, <2>4 DEF AfterVarint
    <3> QED BY <1>3, <3>1, <3>2 DEF FollowsGrammar, DecodesByGrammar, SkipPlaces, MarshalSteps
  <2> QED BY <1>0, <1>2, <2>1, <2>2, <2>3, <2>4, ByteTurns
<1>5. CASE pc = "length"
  <2> DEFINE l == LengthAt(data, preIndex)
  <2>1. FieldKnown /\ Reads(l)
    BY <1>5 DEF FollowsGrammar, AtLength
  <2>2. HasVarint(data, preIndex) /\ TypeAt(data, preIndex) = 2 /\ l = BehindVarint(data, preIndex)
    BY <2>1 DEF FieldKnown, LengthAt
  <2>3. l \in Nat
    BY <1>2, <2>2, VarintLies
  <2>4. FieldKnown'
    BY <1>3, <2>1 DEF FieldKnown
  <2>5. CASE pc' = "rejected" /\ ~ (HasVarint(data, l) /\ BehindVarint(data, l) =< end)
    <3>1. ~ IsMessage(data, message)
      <4> SUFFICES ASSUME IsMessage(data, message) PROVE FALSE
        OBVIOUS
      <4>1. PICK q \in preIndex + 1 .. end : IsItem(data, preIndex, q)
        BY <1>0, <1>1, BegunGoesOn
      <4> DEFINE c == BehindVarint(data, l)
      <4>2. q \in Nat /\ q =< end
        BY <1>2
      <4>3. IsScalar(data, preIndex, q)
        BY <1>2, <2>2, <4>1, <4>2, ItemLies
      <4>4. HasVarint(data, l) /\ c =< q
        BY <1>2, <2>2, <4>3, ScalarLies
      <4>5. c \in Nat
        <5> HIDE DEF l
        <5> QED BY <1>2, <2>3, <4>4, VarintLies
      <4>6. c =< end
        <5> HIDE DEF c
        <5> QED BY <1>2, <4>2, <4>4, <4>5
      <4> QED BY <2>5, <4>4, <4>6
    <3> QED BY <1>3, <2>5, <3>1, Rejected
  <2>6. CASE pc' = pc /\ Sofar(data, l, pos', wire') /\ weight' = Power[pos' - l]
    <3>1. AtLength'
      BY <1>3, <2>4, <2>6 DEF AtLength, Reads
    <3> QED BY <1>3, <1>5, <2>6, <3>1 DEF FollowsGrammar, DecodesByGrammar, SkipPlaces, MarshalSteps
  <2>7. CASE /\ pc' = AfterVarint[pc] /\ HasVarint(data, l) /\ pos' = BehindVarint(data, l)
             /\ wire' = Value(data, l)
    <3>1. AtContent'
      BY <1>3, <2>4, <2>7 DEF AtContent, HasRead
    <3>2. pc' = "content"
      BY <1>5, <2>7 DEF AfterVarint
    <3> QED BY <1>3, <3>1, <3>2 DEF FollowsGrammar, DecodesByGrammar, SkipPlaces, MarshalSteps
  <2>8. \/ pc' = "rejected" /\ ~ (HasVarint(data, l) /\ BehindVarint(data, l) =< end)
        \/ pc' = pc /\ Sofar(data, l, pos', wire') /\ weight' = Power[pos' - l]
        \/ /\ pc' = AfterVarint[pc] /\ HasVarint(data, l) /\ pos' = BehindVarint(data, l)
           /\ wire' = Value(data, l)
    <3> HIDE DEF l
    <3> QED BY <1>0, <1>2, <2>1, <2>3, ByteTurns
  <2> QED BY <2>5, <2>6, <2>7, <2>8
<1> QED BY <1>4, <1>5

LEMMA SkipTagByteFollows ==
    ASSUME CodecInv, FollowsGrammar, ReadByte, pc = "skipTag"
    PROVE  FollowsGrammar'
<1>0. IInv /\ TypeOK
  BY DEF CodecInv, IInv
<1>1. Begun /\ FieldUnknown
  BY DEF FollowsGrammar, SkipPlaces
<1>2. /\ data \in Seq(Bytes) /\ end \in Nat /\ end =< Len(data)
  BY <1>0, <1>1, BegunLies
<1>3. /\ data' = data /\ message' = message /\ Begun' /\ FieldUnknown' /\ \A p : SkipFrom(p)' <=> SkipFrom(p)
  BY <1>1, ByteKeeps
<1>4. PICK p : SkipFrom(p) /\ Reads(p)
  BY DEF FollowsGrammar, AtSkipTag
<1>5. p \in Nat /\ Awaits(data, preIndex, depth, p) /\ SkipFrom(p)'
  BY <1>3, <1>4 DEF SkipFrom
<1>6. CASE pc' = "rejected" /\ ~ (HasVarint(data, p) /\ BehindVarint(data, p) =< end)
  <2>1. ~ IsMessage(data, message)
    BY <1>0, <1>1, <1>5, <1>6, SkipGoesOn
  <2> QED BY <1>3, <1>6, <2>1, Rejected
<1>7. CASE pc' = pc /\ Sofar(data, p, pos', wire') /\ weight' = Power[pos' - p]
  <2>1. Reads(p)'
    BY <1>3, <1>7 DEF Reads
  <2>2. AtSkipTag'
    BY <1>5, <2>1 DEF AtSkipTag
  <2> QED BY <1>3, <1>7, <2>2 DEF FollowsGrammar, DecodesByGrammar, SkipPlaces, MarshalSteps
<1>8. CASE /\ pc' = AfterVarint[pc] /\ HasVarint(data, p) /\ pos' = BehindVarint(data, p)
           /\ wire' = Value(data, p)
  <2>1. HasRead(p)'
    BY <1>3, <1>8 DEF HasRead
  <2>2. AtSkipSwitch'
    BY <1>5, <2>1 DEF AtSkipSwitch
  <2>3. pc' = "skipSwitch"
    BY <1>8 DEF AfterVarint
  <2> QED BY <1>3, <2>2, <2>3 DEF FollowsGrammar, DecodesByGrammar, SkipPlaces, MarshalSteps
<1> QED BY <1>0, <1>2, <1>4, <1>5, <1>6, <1>7, <1>8, ByteTurns

LEMMA SkipValueByteFollows ==
    ASSUME CodecInv, FollowsGrammar, ReadByte, pc = "skipValue"
    PROVE  FollowsGrammar'
<1>0. IInv /\ TypeOK
  BY DEF CodecInv, IInv
<1>1. Begun /\ FieldUnknown
  BY DEF FollowsGrammar, SkipPlaces
<1>2. /\ data \in Seq(Bytes) /\ end \in Nat /\ end =< Len(data) /\ Len(data) + 8 < IntLimit
      /\ preIndex \in Nat /\ preIndex \in 0 .. Len(data) /\ depth \in Nat /\ Len(data) \in Nat
  BY <1>0, <1>1, BegunLies
<1>3. /\ data' = data /\ message' = message /\ Begun' /\ FieldUnknown' /\ \A p : SkipFrom(p)' <=> SkipFrom(p)
      /\ preIndex' = preIndex /\ depth' = depth
  BY <1>1, ByteKeeps
<1>4. PICK p : SkipFrom(p) /\ HasVarint(data, p) /\ TypeAt(data, p) = 0 /\ Reads(BehindVarint(data, p))
  BY DEF FollowsGrammar, AtSkipValue
<1> DEFINE b == BehindVarint(data, p)
<1>5. p \in 0 .. Len(data) /\ p \in Nat /\ Awaits(data, preIndex, depth, p) /\ SkipFrom(p)'
  BY <1>3, <1>4 DEF SkipFrom
<1>6. b \in Nat /\ Reads(b)
  BY <1>2, <1>4, <1>5, VarintLies
<1>7. CASE pc' = "rejected" /\ ~ (HasVarint(data, b) /\ BehindVarint(data, b) =< end)
  <2>1. ~ IsMessage(data, message)
    BY <1>0, <1>1, <1>4, <1>5, <1>7, SkipGoesOn
  <2> QED BY <1>3, <1>7, <2>1, Rejected
<1>8. CASE pc' = pc /\ Sofar(data, b, pos', wire') /\ weight' = Power[pos' - b]
  <2>1. Reads(BehindVarint(data, p))'
    BY <1>3, <1>8 DEF Reads
  <2>2. AtSkipValue'
    BY <1>3, <1>4, <1>5, <2>1 DEF AtSkipValue
  <2> QED BY <1>3, <1>8, <2>2 DEF FollowsGrammar, DecodesByGrammar, SkipPlaces, MarshalSteps
<1>9. CASE /\ pc' = AfterVarint[pc] /\ HasVarint(data, b) /\ pos' = BehindVarint(data, b)
           /\ wire' = Value(data, b)
  <2>1. IsScalar(data, p, pos')
    BY <1>4, <1>9 DEF IsScalar
  <2>2. Passed(data, preIndex, depth, pos') /\ pos' > preIndex
    BY <1>2, <1>5, <2>1, AwaitsScalar
  <2>3. pos' \in b + 1 .. Len(data)
    <3> HIDE DEF b
    <3> QED BY <1>2, <1>6, <1>9, VarintLies
  <2>4. pos' < preIndex + IntLimit
    <3> HIDE DEF b
    <3> QED BY <1>2, <1>6, <2>3
  <2>5. AtSkipEnd'
    BY <1>3, <2>2, <2>4 DEF AtSkipEnd
  <2>6. pc' = "skipEnd"
    BY <1>9 DEF AfterVarint
  <2> QED BY <1>3, <2>5, <2>6 DEF FollowsGrammar, DecodesByGrammar, SkipPlaces, MarshalSteps
<1>10. \/ pc' = "rejected" /\ ~ (HasVarint(data, b) /\ BehindVarint(data, b) =< end)
       \/ pc' = pc /\ Sofar(data, b, pos', wire') /\ weight' = Power[pos' - b]
       \/ /\ pc' = AfterVarint[pc] /\ HasVarint(data, b) /\ pos' = BehindVarint(data, b)
          /\ wire' = Value(data, b)
  <2> HIDE DEF b
  <2> QED BY <1>0, <1>2, <1>6, ByteTurns
<1> QED BY <1>7, <1>8, <1>9, <1>10

LEMMA SkipLengthByteFollows ==
    ASSUME CodecInv, FollowsGrammar, ReadByte, pc = "skipLength"
    PROVE  FollowsGrammar'
<1>0. IInv /\ TypeOK
  BY DEF CodecInv, IInv
<1>1. Begun /\ FieldUnknown
  BY DEF FollowsGrammar, SkipPlaces
<1>2. /\ data \in Seq(Bytes) /\ end \in Nat /\ end =< Len(data)
  BY <1>0, <1>1, BegunLies
<1>3. /\ data' = data /\ message' = message /\ Begun' /\ FieldUnknown' /\ \A p : SkipFrom(p)' <=> SkipFrom(p)
  BY <1>1, ByteKeeps
<1>4. PICK p : SkipFrom(p) /\ HasVarint(data, p) /\ TypeAt(data, p) = 2 /\ Reads(BehindVarint(data, p))
  BY DEF FollowsGrammar, AtSkipLength
<1> DEFINE b == BehindVarint(data, p)
<1>5. p \in Nat /\ Awaits(data, preIndex, depth, p) /\ SkipFrom(p)'
  BY <1>3, <1>4 DEF SkipFrom
<1>6. b \in Nat /\ Reads(b)
  BY <1>2, <1>4, <1>5, VarintLies
<1>7. CASE pc' = "rejected" /\ ~ (HasVarint(data, b) /\ BehindVarint(data, b) =< end)
  <2>1. ~ IsMessage(data, message)
    BY <1>0, <1>1, <1>4, <1>5, <1>7, SkipGoesOn
  <2> QED BY <1>3, <1>7, <2>1, Rejected
<1>8. CASE pc' = pc /\ Sofar(data, b, pos', wire') /\ weight' = Power[pos' - b]
  <2>1. Reads(BehindVarint(data, p))'
    BY <1>3, <1>8 DEF Reads
  <2>2. AtSkipLength'
    BY <1>3, <1>4, <1>5, <2>1 DEF AtSkipLength
  <2> QED BY <1>3, <1>8, <2>2 DEF FollowsGrammar, DecodesByGrammar, SkipPlaces, MarshalSteps
<1>9. CASE /\ pc' = AfterVarint[pc] /\ HasVarint(data, b) /\ pos' = BehindVarint(data, b)
           /\ wire' = Value(data, b)
  <2>1. HasRead(BehindVarint(data, p))'
    BY <1>3, <1>9 DEF HasRead
  <2>2. AtSkipContent'
    BY <1>3, <1>4, <1>5, <2>1 DEF AtSkipContent
  <2>3. pc' = "skipContent"
    BY <1>9 DEF AfterVarint
  <2> QED BY <1>3, <2>2, <2>3 DEF FollowsGrammar, DecodesByGrammar, SkipPlaces, MarshalSteps
<1>10. \/ pc' = "rejected" /\ ~ (HasVarint(data, b) /\ BehindVarint(data, b) =< end)
       \/ pc' = pc /\ Sofar(data, b, pos', wire') /\ weight' = Power[pos' - b]
       \/ /\ pc' = AfterVarint[pc] /\ HasVarint(data, b) /\ pos' = BehindVarint(data, b)
          /\ wire' = Value(data, b)
  <2> HIDE DEF b
  <2> QED BY <1>0, <1>2, <1>6, ByteTurns
<1> QED BY <1>7, <1>8, <1>9, <1>10

----------------------------------------------------------------------------
(* The actions of skip.                                                    *)
LEMMA SkipKeeps ==
    ASSUME SkipStep, TypeOK, Begun, FieldUnknown
    PROVE  /\ data' = data /\ message' = message /\ authority' = authority /\ from' = from
           /\ end' = end /\ preIndex' = preIndex /\ Begun' /\ FieldUnknown'
           /\ data \in Seq(Bytes) /\ Len(data) \in Nat /\ Len(data) + 8 < IntLimit
           /\ end \in Nat /\ preIndex \in Nat /\ preIndex \in 0 .. Len(data)
           /\ preIndex < end /\ end =< Len(data)
           /\ pos \in Int /\ wire \in 0 .. Modulus - 1 /\ depth \in Nat /\ from \in Nat
           /\ from =< preIndex
<1>1. UNCHANGED <<data, message, authority, from, end, preIndex>>
  BY DEF SkipStep, input, slice
<1>2. Begun' /\ FieldUnknown'
  BY <1>1, BegunKept
<1> QED BY <1>1, <1>2, BegunLies

(* How far a field of fixed length, or one with a length, is passed.       *)
LEMMA MovedIs ==
    ASSUME IInv, NEW n \in Nat, n < IntLimit, pos \in Nat, preIndex =< pos, pos =< Len(data)
    PROVE  /\ pos - preIndex + n < IntLimit => Moved(n) = pos + n
           /\ pos - preIndex + n >= IntLimit => Moved(n) < preIndex /\ Moved(n) \in Int
<1> DEFINE x == pos - preIndex + n
<1>1. preIndex \in Nat /\ Len(data) \in Nat /\ Len(data) + 8 < IntLimit
  BY DataType DEF IInv, TypeOK
<1>2. x \in Nat /\ x < 2 * IntLimit
  BY <1>1
<1>3. Moved(n) = preIndex + ToInt(x)
  BY DEF Moved
<1> HIDE DEF x
<1>4. x < IntLimit => ToInt(x) = x
  BY <1>2, SmallIsInt
<1>5. x >= IntLimit => ToInt(x) < 0 /\ ToInt(x) \in Int
  BY <1>2 DEF ToInt, Signed
<1>6. x < IntLimit => Moved(n) = preIndex + x
  BY <1>3, <1>4
<1>7. x >= IntLimit => Moved(n) < preIndex /\ Moved(n) \in Int
  BY <1>1, <1>3, <1>5
<1>8. preIndex + x = pos + n
  BY <1>1 DEF x
<1> QED BY <1>6, <1>7, <1>8 DEF x

LEMMA SkipLoopFollows == CodecInv /\ FollowsGrammar /\ SkipStep /\ SkipLoop => FollowsGrammar'
<1> SUFFICES ASSUME CodecInv, FollowsGrammar, SkipStep, SkipLoop PROVE FollowsGrammar'
  OBVIOUS
<1>0. TypeOK /\ pc = "skip"
  BY DEF CodecInv, IInv, SkipLoop
<1>1. Begun /\ FieldUnknown /\ Awaits(data, preIndex, depth, pos)
  BY <1>0 DEF FollowsGrammar, SkipPlaces, AtSkip
<1>2. /\ data' = data /\ message' = message /\ end' = end /\ preIndex' = preIndex
      /\ Begun' /\ FieldUnknown' /\ data \in Seq(Bytes) /\ Len(data) \in Nat
      /\ end \in Nat /\ end =< Len(data)
  BY <1>0, <1>1, SkipKeeps
<1>3. pos \in Nat
  BY <1>1 DEF Awaits
<1>4. CASE pos < end /\ pc' = "skipTag" /\ wire' = 0 /\ weight' = 1 /\ pos' = pos /\ depth' = depth
  <2>1. pos \in 0 .. Len(data)
    BY <1>2, <1>3, <1>4
  <2>2. SkipFrom(pos)'
    BY <1>1, <1>2, <1>4, <2>1 DEF SkipFrom
  <2>3. Reads(pos)'
    <3>1. Sofar(data, pos, pos, 0)
      BY <1>2, <2>1, SofarStarts
    <3>2. pos - pos = 0 /\ Power[0] = 1
      BY <2>1, PowerFacts
    <3> QED BY <1>2, <1>4, <3>1, <3>2 DEF Reads
  <2>4. AtSkipTag'
    BY <1>4, <2>2, <2>3 DEF AtSkipTag
  <2> QED BY <1>2, <1>4, <2>4 DEF FollowsGrammar, DecodesByGrammar, SkipPlaces, MarshalSteps
<1>5. CASE pos >= end /\ pc' = "rejected"
  <2>1. ~ (pos < end)
    BY <1>2, <1>3, <1>5
  <2>2. ~ IsMessage(data, message)
    BY <1>0, <1>1, <2>1, SkipGoesOn
  <2> QED BY <1>2, <1>5, <2>2, Rejected
<1> QED BY <1>4, <1>5 DEF SkipLoop, StartVarint

LEMMA SkipItemFollows == CodecInv /\ FollowsGrammar /\ SkipStep /\ SkipItem => FollowsGrammar'
<1> SUFFICES ASSUME CodecInv, FollowsGrammar, SkipStep, SkipItem PROVE FollowsGrammar'
  OBVIOUS
<1>0. IInv /\ TypeOK /\ pc = "skipSwitch"
  BY DEF CodecInv, IInv, SkipItem
<1>1. Begun /\ FieldUnknown
  BY <1>0 DEF FollowsGrammar, SkipPlaces
<1>2. /\ data' = data /\ message' = message /\ end' = end /\ preIndex' = preIndex
      /\ Begun' /\ FieldUnknown' /\ data \in Seq(Bytes) /\ Len(data) \in Nat
      /\ Len(data) + 8 < IntLimit /\ preIndex \in Nat /\ preIndex \in 0 .. Len(data)
      /\ end \in Nat /\ end =< Len(data) /\ depth \in Nat
  BY <1>0, <1>1, SkipKeeps
<1>3. PICK p : SkipFrom(p) /\ HasRead(p)
  BY <1>0 DEF FollowsGrammar, AtSkipSwitch
<1>4. /\ p \in 0 .. Len(data) /\ p \in Nat /\ Awaits(data, preIndex, depth, p)
      /\ HasVarint(data, p) /\ pos = BehindVarint(data, p) /\ WireType = TypeAt(data, p)
  BY <1>3 DEF SkipFrom, HasRead, WireType, TypeAt
<1>5. pos \in p + 1 .. Len(data) /\ pos \in Nat
  BY <1>2, <1>4, VarintLies
<1>6. p >= preIndex
  BY <1>4 DEF Awaits
<1>7. pos > preIndex /\ preIndex =< pos /\ pos =< Len(data) /\ pos \in 0 .. Len(data)
      /\ pos < preIndex + IntLimit
  BY <1>2, <1>4, <1>5, <1>6
<1>8. ASSUME WireType \in {0, 2}, wire' = 0, weight' = 1, pos' = pos, depth' = depth
      PROVE  SkipFrom(p)' /\ Reads(BehindVarint(data, p))'
  <2>1. SkipFrom(p)'
    BY <1>2, <1>3, <1>8 DEF SkipFrom
  <2>2. Sofar(data, pos, pos, 0)
    BY <1>2, <1>7, SofarStarts
  <2>3. pos - pos = 0 /\ Power[0] = 1
    BY <1>7, PowerFacts
  <2>4. Reads(BehindVarint(data, p))'
    BY <1>2, <1>4, <1>8, <2>2, <2>3 DEF Reads
  <2> QED BY <2>1, <2>4
<1>9. CASE WireType = 0 /\ StartVarint("skipValue") /\ UNCHANGED <<pos, depth>>
  <2>1. pc' = "skipValue" /\ wire' = 0 /\ weight' = 1 /\ pos' = pos /\ depth' = depth
    BY <1>9 DEF StartVarint
  <2>2. SkipFrom(p)' /\ Reads(BehindVarint(data, p))'
    BY <1>8, <1>9, <2>1
  <2>3. AtSkipValue'
    BY <1>2, <1>4, <1>9, <2>2 DEF AtSkipValue
  <2> QED BY <1>2, <2>1, <2>3 DEF FollowsGrammar, DecodesByGrammar, SkipPlaces, MarshalSteps
<1>10. CASE WireType = 2 /\ StartVarint("skipLength") /\ UNCHANGED <<pos, depth>>
  <2>1. pc' = "skipLength" /\ wire' = 0 /\ weight' = 1 /\ pos' = pos /\ depth' = depth
    BY <1>10 DEF StartVarint
  <2>2. SkipFrom(p)' /\ Reads(BehindVarint(data, p))'
    BY <1>8, <1>10, <2>1
  <2>3. AtSkipLength'
    BY <1>2, <1>4, <1>10, <2>2 DEF AtSkipLength
  <2> QED BY <1>2, <2>1, <2>3 DEF FollowsGrammar, DecodesByGrammar, SkipPlaces, MarshalSteps
<1>11. ASSUME pc' = "skipEnd", pos' > preIndex, pos' < preIndex + IntLimit,
              Passed(data, preIndex, depth', pos')
       PROVE  FollowsGrammar'
  <2>1. AtSkipEnd'
    BY <1>2, <1>11 DEF AtSkipEnd
  <2> QED BY <1>2, <1>11, <2>1 DEF FollowsGrammar, DecodesByGrammar, SkipPlaces, MarshalSteps
<1>12. CASE /\ WireType \in {1, 5} /\ pos' = Moved(IF WireType = 1 THEN 8 ELSE 4)
            /\ pc' = "skipEnd" /\ depth' = depth
  <2>1. PICK n \in {4, 8} : n = IF WireType = 1 THEN 8 ELSE 4
    OBVIOUS
  <2>2. n \in Nat /\ n < IntLimit /\ pos - preIndex + n < IntLimit
    BY <1>2, <1>7
  <2>3. pos' = pos + n
    BY <1>0, <1>5, <1>7, <1>12, <2>1, <2>2, MovedIs
  <2>4. IsScalar(data, p, pos')
    BY <1>4, <1>12, <2>1, <2>3 DEF IsScalar
  <2>5. Passed(data, preIndex, depth, pos')
    BY <1>2, <1>4, <2>4, AwaitsScalar
  <2>6. pos' > preIndex /\ pos' < preIndex + IntLimit
    BY <1>2, <1>5, <1>7, <2>2, <2>3
  <2> QED BY <1>11, <1>12, <2>5, <2>6
<1>13. CASE /\ WireType = 3 \/ (WireType = 4 /\ depth > 0)
            /\ depth' = DepthAfter /\ pc' = "skipEnd" /\ pos' = pos
  <2>1. CASE WireType = 3
    <3>1. depth' = depth + 1
      BY <1>13, <2>1 DEF DepthAfter
    <3>2. Passed(data, preIndex, depth + 1, pos)
      BY <1>2, <1>4, <2>1, AwaitsGroup
    <3> QED BY <1>7, <1>11, <1>13, <3>1, <3>2
  <2>2. CASE WireType = 4 /\ depth > 0
    <3>1. depth' = depth - 1
      BY <1>13, <2>2 DEF DepthAfter
    <3>2. Passed(data, preIndex, depth - 1, pos)
      BY <1>2, <1>4, <2>2, AwaitsGroupEnd
    <3> QED BY <1>7, <1>11, <1>13, <3>1, <3>2
  <2> QED BY <1>13, <2>1, <2>2
<1>14. CASE (WireType \in {6, 7} \/ (WireType = 4 /\ depth = 0)) /\ pc' = "rejected"
  <2>1. ~ IsMessage(data, message)
    <3> SUFFICES ASSUME IsMessage(data, message) PROVE FALSE
      OBVIOUS
    <3>1. TypeAt(data, p) \in 0 .. 5 /\ (TypeAt(data, p) = 4 => depth > 0)
      BY <1>0, <1>1, <1>4, SkipGoesOn
    <3> QED BY <1>2, <1>4, <1>14, <3>1
  <2> QED BY <1>2, <1>14, <2>1, Rejected
<1> QED BY <1>9, <1>10, <1>12, <1>13, <1>14 DEF SkipItem

LEMMA SkipContentFollows == CodecInv /\ FollowsGrammar /\ SkipStep /\ SkipContent => FollowsGrammar'
<1> SUFFICES ASSUME CodecInv, FollowsGrammar, SkipStep, SkipContent PROVE FollowsGrammar'
  OBVIOUS
<1>0. IInv /\ TypeOK /\ pc = "skipContent"
  BY DEF CodecInv, IInv, SkipContent
<1>1. Begun /\ FieldUnknown
  BY <1>0 DEF FollowsGrammar, SkipPlaces
<1>2. /\ data' = data /\ message' = message /\ end' = end /\ preIndex' = preIndex
      /\ Begun' /\ FieldUnknown' /\ data \in Seq(Bytes) /\ Len(data) \in Nat
      /\ Len(data) + 8 < IntLimit /\ preIndex \in Nat /\ preIndex \in 0 .. Len(data)
      /\ end \in Nat /\ end =< Len(data) /\ depth \in Nat /\ wire \in 0 .. Modulus - 1
  BY <1>0, <1>1, SkipKeeps
<1>3. PICK p : /\ SkipFrom(p) /\ HasVarint(data, p) /\ TypeAt(data, p) = 2
               /\ HasRead(BehindVarint(data, p))
  BY <1>0 DEF FollowsGrammar, AtSkipContent
<1> DEFINE b == BehindVarint(data, p)
           e == pos + wire
<1>4. /\ p \in 0 .. Len(data) /\ p \in Nat /\ Awaits(data, preIndex, depth, p) /\ p >= preIndex
      /\ HasVarint(data, b) /\ pos = BehindVarint(data, b) /\ wire = Value(data, b)
  BY <1>3 DEF SkipFrom, HasRead, Awaits
<1>5. pos \in p + 1 .. Len(data) /\ pos \in Nat
  <2>1. b \in p + 1 .. Len(data) /\ b \in Nat
    BY <1>2, <1>3, <1>4, VarintLies
  <2> HIDE DEF b
  <2>2. pos \in b + 1 .. Len(data) /\ pos \in Nat
    BY <1>2, <1>4, <2>1, VarintLies
  <2> QED BY <1>4, <2>1, <2>2
<1>6. IsScalar(data, p, e)
  BY <1>3, <1>4 DEF IsScalar, BehindContent, ContentAt, LengthAt
<1>7. Passed(data, preIndex, depth, e) /\ e > preIndex
  <2> HIDE DEF e
  <2> QED BY <1>2, <1>4, <1>6, AwaitsScalar
<1>8. ASSUME e >= preIndex + IntLimit, NEW q \in preIndex + 1 .. end
      PROVE  ~ IsItem(data, preIndex, q)
  <2> SUFFICES ASSUME IsItem(data, preIndex, q) PROVE FALSE
    OBVIOUS
  <2>1. q \in preIndex + 1 .. Len(data)
    BY <1>2
  <2>2. e \in 0 .. q
    <3> HIDE DEF e
    <3> QED BY <1>2, <1>7, <2>1, PassedLies
  <2> HIDE DEF e
  <2> QED BY <1>2, <1>8, <2>1, <2>2
<1> HIDE DEF b
<1>9. wire \in Nat /\ wire < 2 * IntLimit /\ Length = ToInt(wire)
  BY <1>2 DEF Length, Modulus
<1>10. CASE Length < 0 /\ pc' = "rejected"
  <2>1. wire >= IntLimit
    BY <1>9, <1>10, SmallIsInt
  <2>2. e >= preIndex + IntLimit
    BY <1>2, <1>4, <1>5, <1>9, <2>1
  <2>3. ~ IsMessage(data, message)
    BY <1>0, <1>1, <1>8, <2>2, BegunGoesOn
  <2> QED BY <1>2, <1>10, <2>3, Rejected
<1>11. CASE Length >= 0 /\ pos' = Moved(Length) /\ pc' = "skipEnd" /\ depth' = depth
  <2>1. Length = wire /\ wire < IntLimit
    <3>1. Length = wire
      BY <1>9, <1>11, SumOfInts
    <3> QED BY <1>9, <1>11, <3>1 DEF ToInt, Signed
  <2>2. preIndex =< pos /\ pos =< Len(data)
    BY <1>2, <1>4, <1>5
  <2>3. /\ pos - preIndex + wire < IntLimit => pos' = pos + wire
        /\ pos - preIndex + wire >= IntLimit => pos' < preIndex /\ pos' \in Int
    BY <1>0, <1>5, <1>9, <1>11, <2>1, <2>2, MovedIs
  <2>4. CASE pos - preIndex + wire < IntLimit
    <3>1. pos' = e
      BY <2>3, <2>4
    <3>2. e < preIndex + IntLimit
      BY <1>2, <1>5, <1>9, <2>4
    <3>3. pos' > preIndex /\ pos' < preIndex + IntLimit /\ Passed(data, preIndex, depth, pos')
      <4> HIDE DEF e
      <4> QED BY <1>7, <3>1, <3>2
    <3>4. AtSkipEnd'
      BY <1>2, <1>11, <3>3 DEF AtSkipEnd
    <3> QED BY <1>2, <1>11, <3>4 DEF FollowsGrammar, DecodesByGrammar, SkipPlaces, MarshalSteps
  <2>5. CASE pos - preIndex + wire >= IntLimit
    <3>1. e >= preIndex + IntLimit
      BY <1>2, <1>5, <1>9, <2>5
    <3>2. pos' < preIndex /\ pos' < preIndex + IntLimit
      BY <1>2, <2>3, <2>5
    <3>3. AtSkipEnd'
      BY <1>2, <1>8, <3>1, <3>2 DEF AtSkipEnd
    <3> QED BY <1>2, <1>11, <3>3 DEF FollowsGrammar, DecodesByGrammar, SkipPlaces, MarshalSteps
  <2> QED BY <1>2, <1>5, <1>9, <2>4, <2>5
<1> QED BY <1>10, <1>11 DEF SkipContent

LEMMA SkipEndFollows == CodecInv /\ FollowsGrammar /\ SkipStep /\ SkipEnd => FollowsGrammar'
<1> SUFFICES ASSUME CodecInv, FollowsGrammar, SkipStep, SkipEnd PROVE FollowsGrammar'
  OBVIOUS
<1>0. IInv /\ TypeOK /\ pc = "skipEnd" /\ depth' = depth
  BY DEF CodecInv, IInv, SkipEnd
<1>1. Begun /\ FieldUnknown /\ AtSkipEnd
  BY <1>0 DEF FollowsGrammar, SkipPlaces
<1>2. /\ data' = data /\ message' = message /\ end' = end /\ preIndex' = preIndex
      /\ from' = from /\ authority' = authority
      /\ Begun' /\ FieldUnknown' /\ data \in Seq(Bytes) /\ Len(data) \in Nat
      /\ Len(data) + 8 < IntLimit /\ preIndex \in Nat /\ preIndex \in 0 .. Len(data)
      /\ end \in Nat /\ end =< Len(data) /\ depth \in Nat /\ pos \in Int
      /\ from \in Nat /\ from =< preIndex /\ preIndex < end
  BY <1>0, <1>1, SkipKeeps
<1>3. /\ pos < preIndex + IntLimit
      /\ \/ pos < preIndex /\ \A q \in preIndex + 1 .. end : ~ IsItem(data, preIndex, q)
         \/ pos > preIndex /\ Passed(data, preIndex, depth, pos)
  BY <1>1 DEF AtSkipEnd
<1>4. ASSUME pos >= preIndex PROVE pos > preIndex /\ pos \in Nat /\ Passed(data, preIndex, depth, pos)
  BY <1>2, <1>3, <1>4
<1>5. ASSUME pos >= preIndex, depth = 0
      PROVE  \A q \in preIndex + 1 .. Len(data) : IsItem(data, preIndex, q) <=> q = pos
  <2>1. pos \in Nat /\ Passed(data, preIndex, 0, pos)
    BY <1>4, <1>5
  <2> QED BY <1>2, <2>1, ItemPassed
<1>6. Resumed = from + ToInt(pos - from)
  BY DEF Resumed
<1>7. CASE pos < preIndex /\ pc' = "rejected"
  <2>1. \A q \in preIndex + 1 .. end : ~ IsItem(data, preIndex, q)
    BY <1>2, <1>3, <1>7
  <2>2. ~ IsMessage(data, message)
    BY <1>0, <1>1, <2>1, BegunGoesOn
  <2> QED BY <1>2, <1>7, <2>2, Rejected
<1>8. CASE pos >= preIndex /\ depth > 0 /\ pc' = "skip" /\ pos' = pos
  <2>1. AtSkip'
    BY <1>0, <1>2, <1>4, <1>8 DEF AtSkip, Awaits
  <2> QED BY <1>2, <1>8, <2>1 DEF FollowsGrammar, DecodesByGrammar, SkipPlaces, MarshalSteps
<1>9. CASE pos >= preIndex /\ depth = 0 /\ SkipFits /\ pc' = "field" /\ pos' = PositionAfterSkip
  <2> DEFINE x == pos - from
  <2>1. x \in Nat /\ x < 2 * IntLimit
    BY <1>2, <1>3, <1>9
  <2>2. ToInt(x) \in Int /\ (ToInt(x) >= 0 => ToInt(x) = x) /\ Resumed = from + ToInt(x)
    BY <1>6, <2>1, SumOfInts
  <2>3. Resumed >= from /\ Resumed =< end
    BY <1>9 DEF SkipFits
  <2> HIDE DEF x
  <2>4. Resumed = from + x
    BY <1>2, <2>2, <2>3
  <2>5. Resumed = pos /\ pos =< end
    BY <1>2, <2>3, <2>4 DEF x
  <2>6. pos \in preIndex + 1 .. end /\ pos \in preIndex + 1 .. Len(data)
    BY <1>2, <1>4, <1>9, <2>5
  <2>7. IsItem(data, preIndex, pos)
    BY <1>5, <1>9, <2>6
  <2>8. DecodedTo(data, message, authority, from, end, pos)
    <3>1. DecodedTo(data, message, authority, from, end, preIndex)
      BY <1>1 DEF Begun
    <3>2. IsNumbered(data, preIndex) /\ (from = 0 => NumberAt(data, preIndex) \notin DOMAIN Schema[message])
      BY <1>1 DEF FieldUnknown
    <3>3. end \in from .. Len(data) /\ preIndex \in from .. end
      BY <1>2
    <3> QED BY <1>2, <2>6, <2>7, <3>1, <3>2, <3>3, UnknownDecoded
  <2>9. DecodedTo(data, message, authority, from, end, pos)'
    BY <1>2, <1>9, <2>5, <2>8 DEF PositionAfterSkip
  <2> QED BY <1>9, <2>9 DEF FollowsGrammar, DecodesByGrammar, SkipPlaces, MarshalSteps
<1>10. CASE pos >= preIndex /\ depth = 0 /\ ~ SkipFits /\ pc' = "rejected"
  <2>1. ~ IsMessage(data, message)
    <3> SUFFICES ASSUME IsMessage(data, message) PROVE FALSE
      OBVIOUS
    <3>1. PICK q \in preIndex + 1 .. end : IsItem(data, preIndex, q)
      BY <1>0, <1>1, BegunGoesOn
    <3>2. q \in preIndex + 1 .. Len(data) /\ q =< end /\ q \in Nat
      BY <1>2
    <3>3. q = pos
      BY <1>5, <1>10, <3>1, <3>2
    <3>4. pos - from \in Nat /\ pos - from < IntLimit
      BY <1>2, <1>10, <3>2, <3>3
    <3>5. ToInt(pos - from) = pos - from
      BY <3>4, SmallIsInt
    <3>6. Resumed = pos
      BY <1>2, <1>6, <3>5
    <3> QED BY <1>2, <1>10, <3>2, <3>3, <3>6 DEF SkipFits
  <2> QED BY <1>2, <1>10, <2>1, Rejected
<1> QED BY <1>7, <1>8, <1>9, <1>10 DEF SkipEnd

LEMMA FollowsStep == CodecInv /\ FollowsGrammar /\ [Next]_vars => FollowsGrammar'
<1> SUFFICES ASSUME CodecInv, FollowsGrammar, [Next]_vars PROVE FollowsGrammar'
  OBVIOUS
<1>1. CASE Encode
  <2>1. Marshal /\ authority' = authority
    BY <1>1 DEF Encode, MarshalTx, MarshalParams, MarshalGenesis, MarshalQuery, MarshalModule, decoding
  <2>2. pc \in MarshalSteps /\ pc' \in MarshalSteps \cup {"panicked"}
    BY <2>1 DEF Marshal, MakeBuffer, OmitField, PutContent, PutVarintByte, PutLastByte, PutTag,
       Return, Put, MarshalSteps
  <2>3. authority' = <<>>
    BY <2>1, <2>2 DEF FollowsGrammar
  <2> QED BY <2>2, <2>3 DEF FollowsGrammar, DecodesByGrammar, SkipPlaces, MarshalSteps
<1>2. CASE StartUnmarshal
  BY <1>2, StartFollows
<1>3. CASE BeginField \/ RejectTag \/ ReadLength \/ StartSkip
  BY <1>3, BeginFollows, RejectTagFollows, ReadLengthFollows, StartSkipFollows
<1>4. CASE ReadByte
  <2>1. pc \in {"tag", "length", "skipTag", "skipValue", "skipLength"}
    BY <1>4 DEF ReadByte, AfterVarint
  <2> QED BY <1>4, <2>1, TagByteFollows, SkipTagByteFollows, SkipValueByteFollows, SkipLengthByteFollows
<1>5. CASE RejectLength \/ SetAuthority \/ EnterParams \/ LeaveParams \/ EndOfMessage
  BY <1>5, RejectLengthFollows, SetAuthorityFollows, EnterParamsFollows, LeaveParamsFollows, EndFollows
<1>6. CASE SkipTx \/ SkipParams \/ SkipGenesis \/ SkipQuery \/ SkipModule
  <2>1. SkipStep
    BY <1>6 DEF SkipTx, SkipParams, SkipGenesis, SkipQuery, SkipModule
  <2>2. SkipLoop \/ SkipItem \/ SkipContent \/ SkipEnd
    BY <2>1 DEF SkipStep
  <2> QED BY <2>1, <2>2, SkipLoopFollows, SkipItemFollows, SkipContentFollows, SkipEndFollows
<1>7. CASE UNCHANGED vars
  <2>1. /\ UNCHANGED <<message, data, pc, from, end, pos, preIndex, wire, weight>>
        /\ UNCHANGED <<fieldNum, depth, authority>>
    BY <1>7 DEF vars, marshalVars, decoding
  <2> QED BY <2>1 DEF FollowsGrammar, DecodesByGrammar, Begun, FieldUnknown, FieldKnown, AtTag,
         AtSwitch, AtLength, AtContent, AtSkip, AtSkipTag, AtSkipSwitch, AtSkipValue, AtSkipLength,
         AtSkipContent, AtSkipEnd, Reads, HasRead, SkipFrom
<1> QED BY <1>1, <1>2, <1>3, <1>4, <1>5, <1>6, <1>7, DecodeSteps DEF Next

LEMMA FollowsInitially == Init => FollowsGrammar
BY DEF Init, InitMarshal, FollowsGrammar, DecodesByGrammar, SkipPlaces, MarshalSteps

----------------------------------------------------------------------------
LEMMA Inductive == Spec => []CodecInv
BY Initial, NextStep, PTL DEF Spec

(* Every state of the codec has its type: in particular the slice that is  *)
(* decoded lies in the data, and the position between fields in the slice. *)
THEOREM TypeCorrect == Spec => []TypeOK
<1>1. CodecInv => TypeOK
  BY DEF CodecInv, IInv
<1> QED BY <1>1, Inductive, PTL

(* No message makes an encoder write outside its buffer, and no byte       *)
(* string makes a decoder index or slice out of bounds, whatever the sizes *)
(* of bytes, ints and field numbers.                                       *)
THEOREM CodecNeverPanics == Spec => []NeverPanics
<1>1. CodecInv => NeverPanics
  BY DEF CodecInv, IInv
<1> QED BY <1>1, Inductive, PTL

(* Size is what MarshalToSizedBuffer writes, for every message: the bytes  *)
(* that the callers take from the front are all that was written.          *)
THEOREM SizeIsExact == Spec => []FillsBuffer
<1>1. CodecInv => FillsBuffer
  BY DEF CodecInv, MInv
<1> QED BY <1>1, Inductive, PTL

(* Whatever message is encoded, Unmarshal accepts the bytes and gives back *)
(* the authority that Marshal was given: no byte is rejected or skipped on *)
(* the way, and no length or tag is read for another.                      *)
THEOREM RoundTripHolds == Spec => []RoundTrip
<1>1. CodecInv /\ Recovers => RoundTrip
  BY DEF CodecInv, IInv, NeverPanics, Recovers, Decoding, RoundTrip, Ended, Results, MarshalSteps
<1>2. Spec => []Recovers
  BY Initial, RecoversInitially, RecoversStep, Inductive, PTL DEF Spec
<1> QED BY <1>1, <1>2, Inductive, PTL

(* Unmarshal accepts what the wire format calls a message of the schema,   *)
(* with the last authority it names, and rejects everything else.          *)
THEOREM DecodersFollowGrammar == Spec => []DecodesByGrammar
<1>1. FollowsGrammar => DecodesByGrammar
  BY DEF FollowsGrammar
<1>2. Spec => []FollowsGrammar
  BY Initial, FollowsInitially, FollowsStep, NextStep, Inductive, PTL DEF Spec
<1> QED BY <1>1, <1>2, PTL

----------------------------------------------------------------------------
(* How far a call is from its end, as four numbers of falling weight: the  *)
(* part of the work that is left, the fields to be written or the bytes    *)
(* behind the beginning of the field that is read, what is left to do with *)
(* this field, and the bytes of it that are ahead.                         *)
Writing == {"write", "putVarint", "putTag"}
Reading == {"tag", "switch", "length", "content"}
Skipping == {"skip", "skipTag", "skipSwitch", "skipValue", "skipLength", "skipContent", "skipEnd"}

Part ==
    IF pc \in Results THEN 0
    ELSE IF pc \in {"start", "returned"} THEN 2
    ELSE IF pc \in Writing THEN 3
    ELSE IF pc = "size" THEN 4
    ELSE 1

Far ==
    IF pc \in Writing THEN todo
    ELSE IF pc = "field" THEN Len(data) - pos
    ELSE IF pc \in Reading \cup Skipping THEN Len(data) - preIndex
    ELSE 0

Stage ==
    IF pc = "field" THEN (IF InParams THEN 4 ELSE 3)
    ELSE IF pc = "write" THEN 3
    ELSE IF pc \in Reading \cup {"putVarint"} THEN 2
    ELSE IF pc \in Skipping \cup {"putTag"} THEN 1
    ELSE 0

(* A skip that is behind the slice, or has overflowed, has nothing ahead.  *)
Ahead == IF pos \in preIndex .. Len(data) THEN Len(data) - pos ELSE 0

Near ==
    IF pc = "putVarint" THEN rest
    ELSE IF pc \in DOMAIN AfterVarint THEN 4 * Ahead
    ELSE IF pc \in {"switch", "content", "skip"} THEN 4 * Ahead + 1
    ELSE IF pc = "skipEnd" THEN 4 * Ahead + 2
    ELSE IF pc \in {"skipSwitch", "skipContent"} THEN 4 * Ahead + 3
    ELSE 0

MovesOn ==
    /\ Part \in Nat /\ Far \in Nat /\ Stage \in Nat /\ Near \in Nat
    /\ \/ Part' < Part
       \/ Part' = Part /\ Far' < Far
       \/ Part' = Part /\ Far' = Far /\ Stage' < Stage
       \/ Part' = Part /\ Far' = Far /\ Stage' = Stage /\ Near' < Near

(* Behind the first byte of its tag a field is behind its beginning, and   *)
(* no sum that overflows leads back to it.                                 *)
Advanced ==
    /\ pc \in {"tag", "skipTag"} => pos \in preIndex .. end
    /\ pc \in (Reading \cup Skipping) \ {"tag", "skip", "skipTag", "skipEnd"} =>
           pos \in preIndex + 1 .. end
    /\ pc = "skipEnd" => pos # preIndex /\ pos < preIndex + IntLimit

LEMMA MovedAway ==
    ASSUME IInv, pos \in preIndex + 1 .. end, end \in from .. Len(data), NEW n \in 0 .. IntLimit - 1
    PROVE  /\ Moved(n) \in Int /\ (Moved(n) >= pos \/ Moved(n) < preIndex)
           /\ Moved(n) < preIndex + IntLimit
<1>1. pos \in Int /\ preIndex \in Nat /\ Len(data) \in Nat /\ Len(data) < IntLimit
  BY DataType DEF IInv, TypeOK
<1> DEFINE sum == pos - preIndex + n
<1>2. sum \in Nat /\ sum < 2 * IntLimit
  BY <1>1
<1>3. (ToInt(sum) = sum /\ sum < IntLimit) \/ ToInt(sum) = sum - 2 * IntLimit
  BY DEF ToInt, Signed
<1>4. Moved(n) = preIndex + ToInt(sum)
  BY DEF Moved
<1>5. CASE ToInt(sum) = sum /\ sum < IntLimit
  BY <1>1, <1>2, <1>4, <1>5
<1>6. CASE ToInt(sum) = sum - 2 * IntLimit
  <2>1. ToInt(sum) < 0 /\ ToInt(sum) \in Int
    <3> HIDE DEF sum
    <3> QED BY <1>2, <1>6
  <2> QED BY <1>1, <1>4, <2>1
<1> QED BY <1>3, <1>5, <1>6

(* Every place a skip is at lies in data, and so does the slice.           *)
LEMMA AdvancedInitially == Init => Advanced
BY DEF Init, InitMarshal, Advanced, Reading, Skipping

LEMMA AdvancedStep == CodecInv /\ Advanced /\ [Next]_vars => Advanced'
<1> SUFFICES ASSUME CodecInv, Advanced, [Next]_vars PROVE Advanced'
  OBVIOUS
<1>0. IInv /\ pos \in Int /\ preIndex \in Nat
  BY DEF CodecInv, IInv, TypeOK
<1>1. CASE Encode
  <2>1. UNCHANGED decoding /\ pc' \in {"write", "putVarint", "putTag", "returned", "panicked"}
    BY <1>1 DEF Encode, MarshalTx, MarshalParams, MarshalGenesis, MarshalQuery, MarshalModule,
       Marshal, MakeBuffer, OmitField, PutContent, PutVarintByte, PutLastByte, PutTag, Return, Put
  <2> QED BY <2>1 DEF Advanced, Reading, Skipping
<1>2. CASE ReadByte
  <2>1. UNCHANGED slice /\ UNCHANGED preIndex
    BY <1>2 DEF ReadByte
  <2>2. pc \in DOMAIN AfterVarint
    BY <1>2 DEF ReadByte
  <2>3. pc' \in {"rejected", "panicked"} \/ (pos < end /\ pos' = pos + 1 /\ pc' \in {pc, AfterVarint[pc]})
    BY <1>2 DEF ReadByte
  <2>4. from \in Int /\ end \in Int
    BY <1>0 DEF IInv, TypeOK
  <2>5. pc \in DOMAIN AfterVarint => pos \in preIndex .. end
    BY <1>0, <2>2, <2>4 DEF Advanced, Reading, Skipping, AfterVarint
  <2>8. end < IntLimit
    <3>1. end \in from .. Len(data) /\ Len(data) \in Nat /\ Len(data) + 8 < IntLimit
      BY <1>0, <2>2, SliceType, DataType DEF IInv, MarshalSteps, AfterVarint
    <3> QED BY <2>4, <3>1
  <2>6. CASE pc' \in {"rejected", "panicked"}
    BY <2>6 DEF Advanced, Reading, Skipping
  <2>7. CASE pos < end /\ pos' = pos + 1 /\ pc' \in {pc, AfterVarint[pc]}
    <3>1. pos' \in preIndex' + 1 .. end'
      BY <1>0, <2>1, <2>2, <2>4, <2>5, <2>7 DEF slice
    <3>2. pos' # preIndex' /\ pos' \in preIndex' .. end' /\ pos' < preIndex' + IntLimit
      BY <1>0, <2>1, <2>4, <2>8, <3>1 DEF slice
    <3> QED BY <3>1, <3>2 DEF Advanced
  <2> QED BY <2>3, <2>6, <2>7
<1>3. CASE StartUnmarshal \/ RejectTag \/ RejectLength \/ SetAuthority \/ EnterParams
            \/ LeaveParams \/ EndOfMessage
  BY <1>3 DEF StartUnmarshal, RejectTag, RejectLength, SetAuthority, EnterParams, LeaveParams,
     EndOfMessage, Reject, Sliced, Advanced, Reading, Skipping
<1>4. CASE BeginField
  <2>1. end \in Int
    BY <1>0 DEF IInv, TypeOK
  <2> QED BY <1>0, <1>4, <2>1 DEF BeginField, StartVarint, slice, Advanced, Reading, Skipping
<1>5. CASE ReadLength
  BY <1>5 DEF ReadLength, StartVarint, slice, Advanced, Reading, Skipping
<1>6. CASE StartSkip
  BY <1>6 DEF StartSkip, Advanced, Reading, Skipping
<1>7. CASE SkipTx \/ SkipParams \/ SkipGenesis \/ SkipQuery \/ SkipModule
  <2>0. SkipStep
    BY <1>7 DEF SkipTx, SkipParams, SkipGenesis, SkipQuery, SkipModule
  <2>1. UNCHANGED <<from, end, preIndex>>
    BY <2>0 DEF SkipStep, slice
  <2>2. end \in Int
    BY <1>0 DEF IInv, TypeOK
  <2>3. CASE SkipLoop
    <3>1. pc = "skip" => preIndex =< pos
      BY <1>0 DEF IInv, FieldInSlice
    <3> QED BY <1>0, <2>1, <2>2, <2>3, <3>1 DEF SkipLoop, StartVarint, Advanced, Reading, Skipping
  <2>4. CASE SkipItem
    <3>1. pc = "skipSwitch" /\ pos \in preIndex + 1 .. end
      BY <2>4 DEF SkipItem, Advanced, Reading, Skipping
    <3>2. end \in from .. Len(data) /\ Len(data) \in Nat /\ Len(data) + 8 < IntLimit /\ from \in Nat
      BY <1>0, <3>1, DataType, SliceType DEF IInv, MarshalSteps
    <3> DEFINE n == IF WireType = 1 THEN 8 ELSE 4
    <3>3. n \in 0 .. IntLimit - 1
      BY <3>2
    <3>4. /\ Moved(n) \in Int /\ (Moved(n) >= pos \/ Moved(n) < preIndex)
          /\ Moved(n) < preIndex + IntLimit
      <4> HIDE DEF n
      <4> QED BY <1>0, <3>1, <3>2, <3>3, MovedAway
    <3>5. \/ pc' \in {"skipValue", "skipLength", "skipEnd", "rejected"} /\ pos' = pos
          \/ pc' = "skipEnd" /\ pos' = Moved(n)
      BY <2>4 DEF SkipItem, StartVarint
    <3> HIDE DEF n
    <3>6. pos' # preIndex' /\ pos' < preIndex' + IntLimit
      BY <1>0, <2>1, <2>2, <3>1, <3>2, <3>4, <3>5
    <3>7. pc' # "skipEnd" => pos' \in preIndex' + 1 .. end'
      BY <1>0, <2>1, <2>2, <3>1, <3>5
    <3> QED BY <3>5, <3>6, <3>7 DEF Advanced, Reading, Skipping
  <2>5. CASE SkipContent
    <3>1. pc = "skipContent" /\ pos \in preIndex + 1 .. end
      BY <2>5 DEF SkipContent, Advanced, Reading, Skipping
    <3>2. end \in from .. Len(data) /\ Len(data) \in Nat /\ Len(data) + 8 < IntLimit /\ from \in Nat
      BY <1>0, <3>1, DataType, SliceType DEF IInv, MarshalSteps
    <3>3. Length >= 0 => Length \in 0 .. IntLimit - 1
      BY <1>0, LengthType DEF IInv
    <3>4. Length >= 0 => /\ Moved(Length) \in Int /\ (Moved(Length) >= pos \/ Moved(Length) < preIndex)
                         /\ Moved(Length) < preIndex + IntLimit
      BY <1>0, <3>1, <3>2, <3>3, MovedAway
    <3>5. \/ pc' = "rejected"
          \/ Length >= 0 /\ pc' = "skipEnd" /\ pos' = Moved(Length)
      BY <2>5 DEF SkipContent
    <3> QED BY <1>0, <2>1, <3>1, <3>4, <3>5 DEF Advanced, Reading, Skipping
  <2>6. CASE SkipEnd
    BY <2>6 DEF SkipEnd, Advanced, Reading, Skipping
  <2> QED BY <2>0, <2>3, <2>4, <2>5, <2>6 DEF SkipStep
<1>8. CASE UNCHANGED vars
  <2>1. UNCHANGED <<pc, pos, preIndex, end>>
    BY <1>8 DEF vars, marshalVars, decoding
  <2> QED BY <2>1 DEF Advanced
<1> QED BY <1>1, <1>2, <1>3, <1>4, <1>5, <1>6, <1>7, <1>8, DecodeSteps DEF Next

LEMMA DistanceType ==
    ASSUME CodecInv
    PROVE  Part \in Nat /\ Far \in Nat /\ Stage \in Nat /\ Near \in Nat /\ Ahead \in Nat
<1>0. IInv /\ TypeOK /\ MarshalTypeOK /\ Len(data) \in Nat
  BY DataType DEF CodecInv, IInv, TypeOK
<1>1. Part \in Nat
  BY DEF Part
<1>2. Stage \in Nat
  BY DEF Stage
<1>3. pos \in Int /\ preIndex \in Nat /\ rest \in Nat /\ from \in Nat /\ end \in Nat
  BY <1>0 DEF TypeOK, MarshalTypeOK
<1>4. Ahead \in Nat
  BY <1>0, <1>3 DEF Ahead
<1>5. Near \in Nat
  BY <1>3, <1>4 DEF Near
<1>6. Far \in Nat
  <2>1. CASE pc \in Writing
    <3>1. todo \in Nat
      BY <1>0, SchemaLength DEF MarshalTypeOK
    <3> QED BY <2>1, <3>1 DEF Far
  <2>2. CASE pc = "field"
    <3>1. pos \in from .. end /\ end \in from .. Len(data)
      BY <1>0, <2>2 DEF TypeOK, MarshalSteps
    <3>2. Len(data) - pos \in Nat
      BY <1>0, <1>3, <3>1
    <3> QED BY <2>2, <3>2 DEF Far, Writing
  <2>3. CASE pc \in Reading \cup Skipping
    <3>1. preIndex \in from .. end /\ end \in from .. Len(data)
      BY <1>0, <2>3, SliceType DEF IInv, FieldInSlice, MarshalSteps, Results, Reading, Skipping
    <3>2. Len(data) - preIndex \in Nat
      BY <1>0, <1>3, <3>1
    <3> QED BY <2>3, <3>2 DEF Far, Reading, Skipping, Writing
  <2>4. CASE pc \notin Writing \cup {"field"} \cup Reading \cup Skipping
    BY <2>4 DEF Far
  <2> QED BY <2>1, <2>2, <2>3, <2>4
<1> QED BY <1>1, <1>2, <1>4, <1>5, <1>6

(* The four numbers are compared in the order of their weight.             *)
Nearer ==
    \/ Part' < Part
    \/ Part' = Part /\ Far' < Far
    \/ Part' = Part /\ Far' = Far /\ Stage' < Stage
    \/ Part' = Part /\ Far' = Far /\ Stage' = Stage /\ Near' < Near

(* The encoder: a field, a part of it or a byte of its length less.        *)
LEMMA EncoderNearer == CodecInv /\ Marshal => Nearer
<1> SUFFICES ASSUME CodecInv, Marshal PROVE Nearer
  OBVIOUS
<1>0. MInv /\ rest \in Nat
  BY DEF CodecInv, MInv, MarshalTypeOK
<1>1. CASE pc' = "panicked"
  BY <1>1 DEF Marshal, MakeBuffer, OmitField, PutContent, PutVarintByte, PutLastByte, PutTag, Return,
     Nearer, Part, Results, Writing
<1>2. CASE MakeBuffer \/ Return
  BY <1>2 DEF MakeBuffer, Return, Nearer, Part, Results, Writing
<1>3. CASE OmitField
  <2>1. todo \in Nat
    BY <1>0, <1>3, TodoRange DEF OmitField
  <2> QED BY <1>3, <2>1 DEF OmitField, Nearer, Part, Results, Far, Writing
<1>4. CASE PutContent /\ pc' # "panicked"
  BY <1>4 DEF PutContent, Nearer, Part, Results, Far, Stage, Writing, Reading, Skipping
<1>5. CASE PutVarintByte /\ pc' # "panicked"
  <2>1. rest' = rest \div Cont /\ rest >= Cont /\ pc = "putVarint" /\ pc' = "putVarint" /\ todo' = todo
    BY <1>5 DEF PutVarintByte, Put
  <2>2. rest < Cont * rest
    BY <1>0, <2>1
  <2>3. rest' < rest
    BY <1>0, <2>1, <2>2, Quotient
  <2> QED BY <2>1, <2>3 DEF Nearer, Part, Results, Far, Stage, Near, Writing, Reading, Skipping
<1>6. CASE PutLastByte /\ pc' # "panicked"
  BY <1>6 DEF PutLastByte, Put, Nearer, Part, Results, Far, Stage, Writing, Reading, Skipping
<1>7. CASE PutTag /\ pc' # "panicked"
  <2>1. todo \in Nat
    BY <1>0, <1>7, SchemaLength DEF PutTag, MInv, MarshalTypeOK
  <2> QED BY <1>7, <2>1 DEF PutTag, Put, Nearer, Part, Results, Far, Writing
<1> QED BY <1>1, <1>2, <1>3, <1>4, <1>5, <1>6, <1>7 DEF Marshal

LEMMA ByteNearer == CodecInv /\ Advanced /\ ReadByte => Nearer
<1> SUFFICES ASSUME CodecInv, Advanced, ReadByte PROVE Nearer
  OBVIOUS
<1>1. pc \in {"tag", "length", "skipTag", "skipValue", "skipLength"}
  BY DEF ReadByte, AfterVarint
<1>2. CASE pc' \in Results
  BY <1>1, <1>2 DEF Nearer, Part, Results, Writing
<1>3. CASE pc' \notin Results
  <2>1. pos < end /\ pos' = pos + 1 /\ UNCHANGED <<preIndex, data>> /\ pc' \in {pc, AfterVarint[pc]}
    BY <1>3 DEF ReadByte, Results, input
  <2>2. /\ pos \in preIndex .. end /\ end \in from .. Len(data) /\ from \in Int
        /\ preIndex \in Nat /\ Len(data) \in Nat
    BY <1>1, SliceType, DataType DEF CodecInv, IInv, TypeOK, MarshalSteps, Advanced, Reading, Skipping
  <2>3. Ahead' = Ahead - 1 /\ Ahead \in Nat
    <3>1. pos \in preIndex .. Len(data) /\ pos' \in preIndex' .. Len(data')
      BY <2>1, <2>2
    <3> QED BY <2>1, <2>2, <3>1 DEF Ahead
  <2>4. /\ pc = "tag" => pc' \in {"tag", "switch"}
        /\ pc = "length" => pc' \in {"length", "content"}
        /\ pc = "skipTag" => pc' \in {"skipTag", "skipSwitch"}
        /\ pc = "skipValue" => pc' \in {"skipValue", "skipEnd"}
        /\ pc = "skipLength" => pc' \in {"skipLength", "skipContent"}
    BY <2>1 DEF AfterVarint
  <2>5. Part' = Part /\ Far' = Far /\ Stage' = Stage
    BY <1>1, <2>1, <2>4 DEF Part, Far, Stage, Results, Writing, Reading, Skipping
  <2>6. Near' < Near
    BY <1>1, <2>3, <2>4 DEF Near, AfterVarint
  <2> QED BY <2>5, <2>6 DEF Nearer
<1> QED BY <1>2, <1>3

(* A field ends behind its beginning.                                      *)
LEMMA UnmarshalNearer ==
    CodecInv /\ Advanced /\ (StartUnmarshal \/ BeginField \/ RejectTag \/ ReadLength \/ StartSkip
        \/ RejectLength \/ SetAuthority \/ EnterParams \/ LeaveParams \/ EndOfMessage)
    => Nearer
<1> SUFFICES ASSUME CodecInv, Advanced,
                    StartUnmarshal \/ BeginField \/ RejectTag \/ ReadLength \/ StartSkip
                    \/ RejectLength \/ SetAuthority \/ EnterParams \/ LeaveParams \/ EndOfMessage
             PROVE  Nearer
  OBVIOUS
<1>0. /\ IInv /\ pos \in Int /\ preIndex \in Nat /\ Len(data) \in Nat
      /\ pc \notin {"start"} \cup MarshalSteps => end \in from .. Len(data) /\ from \in Nat
  BY DataType, SliceType DEF CodecInv, IInv, TypeOK
<1>1. CASE StartUnmarshal
  BY <1>1 DEF StartUnmarshal, Nearer, Part, Results, Writing
<1>2. CASE BeginField
  <2>1. pc = "field" /\ pc' = "tag" /\ preIndex' = pos /\ data' = data
    BY <1>2 DEF BeginField, StartVarint, input
  <2> QED BY <2>1 DEF Nearer, Part, Results, Far, Stage, Writing, Reading, Skipping
<1>3. CASE RejectTag \/ RejectLength
  BY <1>3 DEF RejectTag, RejectLength, Reject, Nearer, Part, Results, Writing
<1>4. CASE ReadLength
  <2>1. pc = "switch" /\ pc' = "length" /\ UNCHANGED <<data, pos, preIndex>>
    BY <1>4 DEF ReadLength, StartVarint, input
  <2>2. Ahead' = Ahead /\ Ahead \in Nat
    BY <2>1, DistanceType DEF Ahead
  <2> QED BY <2>1, <2>2 DEF Nearer, Part, Results, Far, Stage, Near, AfterVarint, Writing, Reading, Skipping
<1>5. CASE StartSkip
  <2>1. pc = "switch" /\ pc' = "skip" /\ UNCHANGED <<data, preIndex>>
    BY <1>5 DEF StartSkip, input
  <2> QED BY <2>1 DEF Nearer, Part, Results, Far, Stage, Writing, Reading, Skipping
<1>6. CASE SetAuthority \/ EnterParams
  <2>1. pc = "content" /\ LengthFits /\ pc' \in {"field", "panicked"} /\ data' = data
    BY <1>6 DEF SetAuthority, EnterParams, Sliced, input
  <2>2. PostIndex \in pos .. end /\ pos \in preIndex + 1 .. end
    BY <1>0, <2>1, FittingLength DEF Advanced, Reading
  <2>3. pos' \in {pos, PostIndex}
    BY <1>6 DEF SetAuthority, EnterParams
  <2>4. Len(data) - pos' < Len(data) - preIndex
    BY <1>0, <2>1, <2>2, <2>3 DEF MarshalSteps
  <2> QED BY <2>1, <2>4 DEF Nearer, Part, Results, Far, Writing, Reading, Skipping
<1>7. CASE LeaveParams
  <2>1. pc = "field" /\ pos >= end /\ InParams /\ from' = 0 /\ pos' = end /\ data' = data
        /\ pc' \in {"rejected", "field"}
    BY <1>7 DEF LeaveParams, input
  <2>2. pos' = pos
    BY <1>0, <2>1 DEF IInv, TypeOK
  <2> QED BY <1>0, <2>1, <2>2 DEF Nearer, Part, Results, Far, Stage, InParams, Writing, Reading, Skipping
<1>8. CASE EndOfMessage
  BY <1>8 DEF EndOfMessage, Nearer, Part, Results, Writing
<1> QED BY <1>1, <1>2, <1>3, <1>4, <1>5, <1>6, <1>7, <1>8

(* A turn of skip's loop leaves less ahead, and where it ends lies behind  *)
(* where it began.                                                         *)
LEMMA SkipNearer == CodecInv /\ Advanced /\ SkipStep => Nearer
<1> SUFFICES ASSUME CodecInv, Advanced, SkipStep PROVE Nearer
  OBVIOUS
<1>0. IInv /\ pos \in Int /\ preIndex \in Nat /\ Len(data) \in Nat /\ Len(data) + 8 < IntLimit
      /\ Ahead \in Nat /\ UNCHANGED <<data, preIndex, from, end>>
  BY DataType, DistanceType DEF CodecInv, IInv, TypeOK, SkipStep, input, slice
<1>1. pc \in Skipping
  BY DEF SkipStep, SkipLoop, SkipItem, SkipContent, SkipEnd, Skipping
<1>2. end \in from .. Len(data) /\ from \in Nat
  BY <1>0, <1>1, SliceType DEF IInv, Skipping, MarshalSteps
<1>3. CASE pc' = "rejected"
  BY <1>1, <1>3 DEF Nearer, Part, Results, Writing, Skipping
<1>4. ASSUME pc' \in Skipping PROVE Part' = Part /\ Far' = Far /\ Stage' = Stage
  BY <1>0, <1>1, <1>4 DEF Part, Far, Stage, Results, Writing, Reading, Skipping
<1>moved. ASSUME NEW n \in 0 .. IntLimit - 1, pos \in preIndex + 1 .. end, pos' = Moved(n)
          PROVE  Ahead' \in Nat /\ Ahead' =< Ahead
  <2>1. Moved(n) \in Int /\ (Moved(n) >= pos \/ Moved(n) < preIndex)
    BY <1>0, <1>2, <1>moved, MovedAway
  <2> QED BY <1>0, <1>2, <1>moved, <2>1 DEF Ahead
<1>stays. ASSUME pos' = pos PROVE Ahead' \in Nat /\ Ahead' =< Ahead
  BY <1>0, <1>stays DEF Ahead
<1>5. CASE SkipLoop /\ pc' # "rejected"
  <2>1. pc = "skip" /\ pc' = "skipTag" /\ pos' = pos
    BY <1>5 DEF SkipLoop, StartVarint
  <2>2. Near' < Near
    BY <1>0, <1>stays, <2>1 DEF Near, AfterVarint
  <2> QED BY <1>4, <2>1, <2>2 DEF Nearer, Skipping
<1>6. CASE SkipItem /\ pc' # "rejected"
  <2>1. pc = "skipSwitch" /\ pos \in preIndex + 1 .. end
    BY <1>6 DEF SkipItem, Advanced, Reading, Skipping
  <2> DEFINE n == IF WireType = 1 THEN 8 ELSE 4
  <2>2. pc' \in {"skipValue", "skipLength", "skipEnd"} /\ (pos' = pos \/ pos' = Moved(n))
    BY <1>6 DEF SkipItem, StartVarint
  <2>3. n \in 0 .. IntLimit - 1
    BY <1>0
  <2> HIDE DEF n
  <2>4. Ahead' \in Nat /\ Ahead' =< Ahead
    BY <1>moved, <1>stays, <2>1, <2>2, <2>3
  <2>5. Near' < Near
    BY <1>0, <2>1, <2>2, <2>4 DEF Near, AfterVarint
  <2> QED BY <1>4, <2>2, <2>5 DEF Nearer, Skipping
<1>7. CASE SkipContent /\ pc' # "rejected"
  <2>1. pc = "skipContent" /\ pos \in preIndex + 1 .. end
    BY <1>7 DEF SkipContent, Advanced, Reading, Skipping
  <2>2. Length >= 0 /\ pc' = "skipEnd" /\ pos' = Moved(Length)
    BY <1>7 DEF SkipContent
  <2>3. Length \in 0 .. IntLimit - 1
    BY <1>0, <2>2, LengthType DEF IInv
  <2>4. Ahead \in Nat /\ Ahead' \in Nat /\ Ahead' =< Ahead
    BY <1>0, <1>moved, <2>1, <2>2, <2>3
  <2>5. pc = "skipContent" /\ pc' = "skipEnd"
    BY <2>1, <2>2
  <2>6. Near = 4 * Ahead + 3
    BY <2>5 DEF Near, AfterVarint
  <2>7. Near' = 4 * Ahead' + 2
    BY <2>5 DEF Near, AfterVarint
  <2>8. Near' < Near
    <3>1. \A m, n \in Nat : m =< n => 4 * m + 2 < 4 * n + 3
      OBVIOUS
    <3> QED BY <2>4, <2>6, <2>7, <3>1
  <2> QED BY <1>4, <2>5, <2>8 DEF Nearer, Skipping
<1>8. CASE SkipEnd /\ pc' # "rejected"
  <2>1. pc = "skipEnd" /\ pos # preIndex /\ pos >= preIndex /\ pos < preIndex + IntLimit
    BY <1>8 DEF SkipEnd, Advanced
  <2>2. CASE pc' = "skip" /\ pos' = pos
    <3>1. Near' < Near
      BY <1>0, <1>stays, <2>1, <2>2 DEF Near, AfterVarint
    <3> QED BY <1>4, <2>2, <3>1 DEF Nearer, Skipping
  <2>3. CASE pc' = "field" /\ pos' = Resumed /\ SkipFits
    <3> DEFINE moved == pos - from
    <3>1. moved \in Nat /\ preIndex \in from .. end
      BY <1>0, <1>2, <2>1 DEF IInv, FieldInSlice, MarshalSteps, Results
    <3>2. Resumed = from + ToInt(moved) /\ Resumed \in from .. end
      BY <1>0, <1>2, <2>3, IntIsInt DEF Resumed, SkipFits
    <3>3. ToInt(moved) = moved \/ ToInt(moved) = moved - 2 * IntLimit
      BY DEF ToInt, Signed
    <3>4. ToInt(moved) >= 0
      BY <1>2, <3>2, IntIsInt, <3>1
    <3>5. moved < 2 * IntLimit
      BY <1>0, <1>2, <2>1, <3>1
    <3>6. ToInt(moved) = moved
      <4> HIDE DEF moved
      <4> QED BY <3>1, <3>3, <3>4, <3>5
    <3>7. pos' = pos /\ pos > preIndex
      BY <1>0, <1>2, <2>1, <2>3, <3>2, <3>6
    <3> QED BY <1>0, <2>1, <2>3, <3>7 DEF Nearer, Part, Results, Far, Writing, Reading, Skipping
  <2> QED BY <1>8, <2>1, <2>2, <2>3 DEF SkipEnd, PositionAfterSkip
<1> QED BY <1>3, <1>5, <1>6, <1>7, <1>8 DEF SkipStep

LEMMA StepNearer == CodecInv /\ Advanced /\ (Encode \/ Decode) => MovesOn
<1> SUFFICES ASSUME CodecInv, Advanced, Encode \/ Decode PROVE MovesOn
  OBVIOUS
<1>1. Nearer
  BY EncoderNearer, ByteNearer, UnmarshalNearer, SkipNearer, DecodeSteps
     DEF Encode, MarshalTx, MarshalParams, MarshalGenesis, MarshalQuery, MarshalModule,
         SkipTx, SkipParams, SkipGenesis, SkipQuery, SkipModule
<1> QED BY <1>1, DistanceType DEF MovesOn, Nearer

(* No input and no message keeps the codec from ending: at every step four *)
(* naturals, compared by weight, become less, also in the loop of skip     *)
(* over nested groups, whose lengths come from the input.                  *)
THEOREM CodecMovesOn == Spec => [][MovesOn]_vars
<1>1. CodecInv /\ Advanced /\ [Next]_vars => [MovesOn]_vars
  BY StepNearer DEF Next
<1>2. Spec => []Advanced
  BY AdvancedInitially, AdvancedStep, Inductive, PTL DEF Spec
<1> QED BY <1>1, <1>2, Inductive, PTL DEF Spec
=============================================================================
