----------------------------- MODULE ProtoWire -----------------------------
(***************************************************************************)
(* x/chainrice/types/*.pb.go: the generated codec of the module's messages *)
(* and of its parameters.  What is decoded is what Marshal returned, or    *)
(* any byte string: in a transaction, a query, a genesis or the store.     *)
(*                                                                         *)
(* The files hold one template: the Unmarshal functions differ in their    *)
(* fields only, the skip functions in their names.  The state machine is   *)
(* that template, a byte or a branch to an action, for the message that is *)
(* decoded.  The word sizes are constants: a byte carries Cont values, an  *)
(* int ends at IntLimit, a field number at FieldLimit.  Positions count    *)
(* from the start of data; the code's are relative to the slice it is in.  *)
(***************************************************************************)
EXTENDS ProtoMarshal

CONSTANTS
    FieldLimit,  \* 2^31: where int32 overflows
    Inputs       \* the byte strings that are decoded

Modulus == 2 * IntLimit  \* of uint64

ASSUME FieldLimitAssumption == FieldLimit \in Nat /\ FieldLimit > 2  \* above the fields' numbers
(* A slice's length is an int, with room for the greatest fixed step.      *)
ASSUME InputsAssumption == Inputs \subseteq {s \in Seq(Bytes) : Len(s) + 8 < IntLimit}

----------------------------------------------------------------------------
VARIABLES
    origin,    \* of the data: the encoder, or the wire
    from, end, \* the slice being decoded: all of data, or a field Params
    pos,       \* iNdEx, of Unmarshal or of skip
    preIndex,  \* where the field began; skip starts there
    wire,      \* the varint so far: wire, stringLen, msglen or length
    weight,    \* 1 << shift
    fieldNum,  \* of the known field whose length is read
    depth,     \* of skip: the groups that are open
    authority  \* m.Authority

input == <<origin, message, data, value, limit, todo, i, offset, rest>>
slice == <<from, end>>
varint == <<wire, weight>>
decoding == <<origin, from, end, pos, preIndex, wire, weight, fieldNum, depth, authority>>
vars == <<marshalVars, decoding>>

----------------------------------------------------------------------------
(* The int that an unsigned word, or a sum of two ints from 0 on, becomes. *)
Signed(x, bound) == IF x < bound THEN x ELSE x - 2 * bound
ToInt(x) == Signed(x, IntLimit)

Init ==
    /\ \/ origin = "encoder" /\ InitMarshal
       \/ /\ origin = "wire" /\ message \in DOMAIN Schema /\ data \in Inputs /\ pc = "start"
          /\ value = <<>> /\ limit = 0 /\ todo = 0 /\ i = 0 /\ offset = 0 /\ rest = 0
    /\ from = 0 /\ end = 0 /\ pos = 0 /\ preIndex = 0
    /\ wire = 0 /\ weight = 1 /\ fieldNum = 0 /\ depth = 0
    /\ authority = <<>>

(* Unmarshal is called with all of the data.                               *)
StartUnmarshal ==
    /\ pc \in {"start", "returned"}
    /\ pc' = "field" /\ end' = Len(data)
    /\ UNCHANGED <<input, from, pos, preIndex, varint, fieldNum, depth, authority>>

Reject == pc' = "rejected" /\ UNCHANGED <<pos, preIndex, varint, fieldNum, depth>>

(* The loop over bytes that reads a varint, and what follows it.           *)
AfterVarint == [
    tag |-> "switch", length |-> "content",
    skipTag |-> "skipSwitch", skipValue |-> "skipEnd", skipLength |-> "skipContent"]

StartVarint(what) == pc' = what /\ wire' = 0 /\ weight' = 1

(* The slice that is indexed starts at preIndex in skip, at from elsewhere. *)
InSkip == pc \in {"skipTag", "skipValue", "skipLength"}
InBounds == (IF InSkip THEN preIndex ELSE from) =< pos /\ pos < Len(data)
Byte == IF InBounds THEN data[pos + 1] ELSE 0

ReadByte ==
    /\ pc \in DOMAIN AfterVarint
    /\ UNCHANGED <<input, slice, preIndex, fieldNum, depth, authority>>
    /\ \/ /\ weight >= Modulus \/ pos >= end
          /\ pc' = "rejected" /\ UNCHANGED <<pos, varint>>
       \/ /\ weight < Modulus /\ pos < end
          /\ wire' = (wire + (Byte % Cont) * weight) % Modulus
          /\ weight' = Cont * weight
          /\ pos' = pos + 1
          /\ pc' = IF ~InBounds THEN "panicked"
                   ELSE IF Byte < Cont THEN AfterVarint[pc] ELSE pc

----------------------------------------------------------------------------
(* Unmarshal, of the message or of its field Params.                       *)
InParams == from > 0
Decoded == IF InParams THEN "Params" ELSE message

BeginField ==
    /\ pc = "field" /\ pos < end
    /\ preIndex' = pos /\ StartVarint("tag")
    /\ UNCHANGED <<input, slice, pos, fieldNum, depth, authority>>

WireType == wire % 8
FieldNumber == Signed((wire \div 8) % (2 * FieldLimit), FieldLimit)
TagOk == WireType # 4 /\ FieldNumber > 0
Known == FieldNumber \in DOMAIN Schema[Decoded]

RejectTag ==
    /\ pc = "switch"
    /\ TagOk => Known /\ WireType # 2
    /\ Reject /\ UNCHANGED <<input, slice, authority>>

ReadLength ==
    /\ pc = "switch" /\ TagOk /\ Known /\ WireType = 2
    /\ fieldNum' = FieldNumber /\ StartVarint("length")
    /\ UNCHANGED <<input, slice, pos, preIndex, depth, authority>>

StartSkip ==
    /\ pc = "switch" /\ TagOk /\ ~Known
    /\ pc' = "skip" /\ pos' = preIndex /\ depth' = 0
    /\ UNCHANGED <<input, slice, preIndex, varint, fieldNum, authority>>

Length == ToInt(wire)
PostIndex == from + ToInt(pos - from + Length)

\* Mutant: the check for a negative length is missing.
MutLengthFits == PostIndex >= from /\ PostIndex =< end
LengthFits == Length >= 0 /\ PostIndex >= from /\ PostIndex =< end

RejectLength ==
    /\ pc = "content" /\ ~LengthFits
    /\ Reject /\ UNCHANGED <<input, slice, authority>>

(* dAtA[iNdEx:postIndex] panics unless its bounds are in order.            *)
Sliced ==
    IF from =< pos /\ pos =< PostIndex /\ PostIndex =< Len(data) THEN "field" ELSE "panicked"

SetAuthority ==
    /\ pc = "content" /\ LengthFits /\ Schema[Decoded][fieldNum] = "string"
    /\ authority' = SubSeq(data, pos + 1, PostIndex)
    /\ pos' = PostIndex /\ pc' = Sliced
    /\ UNCHANGED <<input, slice, preIndex, varint, fieldNum, depth>>

EnterParams ==
    /\ pc = "content" /\ LengthFits /\ Schema[Decoded][fieldNum] = "message"
    /\ from' = pos /\ end' = PostIndex /\ pc' = Sliced
    /\ UNCHANGED <<input, pos, preIndex, varint, fieldNum, depth, authority>>

LeaveParams ==
    /\ pc = "field" /\ pos >= end /\ InParams
    /\ pc' = IF pos > end THEN "rejected" ELSE "field"
    /\ from' = 0 /\ end' = Len(data) /\ pos' = end
    /\ UNCHANGED <<input, preIndex, varint, fieldNum, depth, authority>>

EndOfMessage ==
    /\ pc = "field" /\ pos >= end /\ ~InParams
    /\ pc' = IF pos > end THEN "rejected" ELSE "accepted"
    /\ UNCHANGED <<input, slice, pos, preIndex, varint, fieldNum, depth, authority>>

----------------------------------------------------------------------------
(* skip: one item, or a group with all that it holds.                      *)
SkipLoop ==
    /\ pc = "skip"
    /\ \/ pos < end /\ StartVarint("skipTag") /\ UNCHANGED <<pos, depth>>
       \/ pos >= end /\ pc' = "rejected" /\ UNCHANGED <<pos, varint, depth>>

Moved(n) == preIndex + ToInt(pos - preIndex + n)

\* Mutant: a group in a group is not counted.
MutDepthAfter == IF WireType = 3 THEN 1 ELSE 0
DepthAfter == IF WireType = 3 THEN depth + 1 ELSE depth - 1

SkipItem ==
    /\ pc = "skipSwitch"
    /\ \/ WireType = 0 /\ StartVarint("skipValue") /\ UNCHANGED <<pos, depth>>
       \/ WireType = 2 /\ StartVarint("skipLength") /\ UNCHANGED <<pos, depth>>
       \/ /\ WireType \in {1, 5}
          /\ pos' = Moved(IF WireType = 1 THEN 8 ELSE 4)
          /\ pc' = "skipEnd" /\ UNCHANGED <<varint, depth>>
       \/ /\ WireType = 3 \/ (WireType = 4 /\ depth > 0)
          /\ depth' = DepthAfter
          /\ pc' = "skipEnd" /\ UNCHANGED <<pos, varint>>
       \/ /\ WireType \in {6, 7} \/ (WireType = 4 /\ depth = 0)
          /\ pc' = "rejected" /\ UNCHANGED <<pos, varint, depth>>

SkipContent ==
    /\ pc = "skipContent"
    /\ \/ Length < 0 /\ pc' = "rejected" /\ UNCHANGED pos
       \/ Length >= 0 /\ pos' = Moved(Length) /\ pc' = "skipEnd"
    /\ UNCHANGED <<varint, depth>>

(* Unmarshal goes on behind what was skipped, if that lies in its slice.   *)
Resumed == from + ToInt(pos - from)

\* Mutant: the end of the slice is not checked.
MutSkipFits == Resumed >= from
SkipFits == Resumed >= from /\ Resumed =< end

\* Mutant: iNdEx is not moved past the field.
MutPositionAfterSkip == preIndex
PositionAfterSkip == Resumed

SkipEnd ==
    /\ pc = "skipEnd" /\ UNCHANGED <<varint, depth>>
    /\ \/ pos < preIndex /\ pc' = "rejected" /\ UNCHANGED pos
       \/ pos >= preIndex /\ depth > 0 /\ pc' = "skip" /\ UNCHANGED pos
       \/ /\ pos >= preIndex /\ depth = 0 /\ SkipFits
          /\ pc' = "field" /\ pos' = PositionAfterSkip
       \/ pos >= preIndex /\ depth = 0 /\ ~SkipFits /\ pc' = "rejected" /\ UNCHANGED pos

SkipStep ==
    /\ SkipLoop \/ SkipItem \/ SkipContent \/ SkipEnd
    /\ UNCHANGED <<input, slice, preIndex, fieldNum, authority>>

SkipTx == Decoded \in {"MsgUpdateParams", "MsgUpdateParamsResponse"} /\ SkipStep
SkipParams == Decoded = "Params" /\ SkipStep
SkipGenesis == Decoded = "GenesisState" /\ SkipStep
SkipQuery == Decoded \in {"QueryParamsRequest", "QueryParamsResponse"} /\ SkipStep
SkipModule == Decoded = "Module" /\ SkipStep

----------------------------------------------------------------------------
Results == {"accepted", "rejected", "panicked"}
Ended == pc \in Results

Unmarshal ==
    \/ StartUnmarshal
    \/ BeginField \/ ReadByte \/ RejectTag \/ ReadLength \/ StartSkip
    \/ RejectLength \/ SetAuthority \/ EnterParams \/ LeaveParams \/ EndOfMessage

(* A file at a time; a field Params is in the hands of its own Unmarshal.  *)
UnmarshalTx == Decoded \in {"MsgUpdateParams", "MsgUpdateParamsResponse"} /\ Unmarshal
UnmarshalParams == Decoded = "Params" /\ Unmarshal
UnmarshalGenesis == Decoded = "GenesisState" /\ Unmarshal
UnmarshalQuery == Decoded \in {"QueryParamsRequest", "QueryParamsResponse"} /\ Unmarshal
UnmarshalModule == Decoded = "Module" /\ Unmarshal

Decode ==
    \/ UnmarshalTx \/ UnmarshalParams \/ UnmarshalGenesis \/ UnmarshalQuery \/ UnmarshalModule
    \/ SkipTx \/ SkipParams \/ SkipGenesis \/ SkipQuery \/ SkipModule

Encode ==
    /\ MarshalTx \/ MarshalParams \/ MarshalGenesis \/ MarshalQuery \/ MarshalModule
    /\ UNCHANGED decoding

Next == Encode \/ Decode \/ (Ended /\ UNCHANGED vars)

(* Each function runs until it returns, and what it returns is decoded.    *)
Spec == Init /\ [][Next]_vars /\ WF_vars(Encode \/ Decode)

----------------------------------------------------------------------------
(* Types.  The slice lies in the data; a field that is being read lies in  *)
(* the slice.                                                              *)
TypeOK ==
    /\ MarshalTypeOK /\ origin \in {"encoder", "wire"}
    /\ pc \in {"start", "field", "switch", "content", "skip", "skipSwitch", "skipContent", "skipEnd"}
              \cup DOMAIN AfterVarint \cup MarshalSteps \cup Results
    /\ from \in Nat /\ end \in Nat
    /\ pc \notin {"start"} \cup MarshalSteps => end \in from .. Len(data)
    /\ preIndex \in Nat /\ pos \in Int
    /\ pc \in {"field", "tag", "switch", "length", "content"} => pos \in from .. end
    /\ wire \in 0 .. Modulus - 1 /\ weight \in Nat \ {0}
    /\ fieldNum \in Nat /\ depth \in Nat
    /\ authority \in Seq(Bytes)

(* No message makes the encoder write outside its buffer, and no input     *)
(* makes the decoder index or slice out of bounds: lengths that are        *)
(* negative or that overflow a sum are refused first.                      *)
NeverPanics == pc # "panicked"

(* What Marshal, or MarshalTo, was given is what Unmarshal gives back.     *)
RoundTrip == origin = "encoder" /\ Ended => (pc = "accepted" /\ authority = value)

(* Every message is encoded, and every input is accepted or rejected, at   *)
(* last: each turn of a loop moves on.                                     *)
CodecEnds == <>Ended
=============================================================================
