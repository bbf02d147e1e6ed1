------------------------------ MODULE ProtoWire ------------------------------
(***************************************************************************)
(* The protobuf messages that the bot writes and reads by hand: the         *)
(* requests to AlterInbound and the answer of QueryStats.  A message is a   *)
(* sequence of bytes; a text is a sequence of bytes too, and any byte may   *)
(* stand for its characters.                                                *)
(***************************************************************************)
EXTENDS Naturals, SequencesExt

\* Mutant: a length that needs a second byte loses it.
EncodeVarintOneByte(v) == <<v % 128>>

\* Seven bits at a time, the lowest first; the highest bit says that more follow.
EncodeVarint(v) ==
    LET parts[n \in Nat] ==
            IF n > 127 THEN <<(n % 128) + 128>> \o parts[n \div 128] ELSE <<n>>
    IN parts[v]

\* _encode_string and _encode_bytes_field: a tag of wire type 2, a length.
EncodeBytes(field, data) ==
    EncodeVarint(field * 8 + 2) \o EncodeVarint(Len(data)) \o data

\* The names of types stand for themselves by their lengths.
Text(length, byte) == [i \in 1..length |-> byte]
AddUserType == Text(42, 97)
RemoveUserType == Text(45, 114)
VlessAccountType == Text(24, 118)

BuildTypedMessage(type, value) == EncodeBytes(1, type) \o EncodeBytes(2, value)

BuildAddUserOperation(uuid, email) ==
    LET account == BuildTypedMessage(VlessAccountType, EncodeBytes(1, uuid))
    IN EncodeBytes(1, EncodeBytes(2, email) \o EncodeBytes(3, account))

BuildRemoveUserOperation(email) == EncodeBytes(1, email)

BuildAlterInboundRequest(tag, type, operation) ==
    EncodeBytes(1, tag) \o EncodeBytes(2, BuildTypedMessage(type, operation))

-----------------------------------------------------------------------------
\* The varint at pos ends with the first byte below 128.  Without one the code
\* raises, which the messages that gRPC hands over whole do not bring about; here
\* such a message is at its end.
DecodeVarint(data, pos) ==
    LET ends == {i \in pos..Len(data) : data[i] < 128}
        last == CHOOSE i \in ends : \A j \in ends : i <= j
        bits[i \in 1..last] ==
            (data[i] % 128) + IF i = last THEN 0 ELSE 128 * bits[i + 1]
    IN IF ends = {} THEN [value |-> 0, next |-> Len(data) + 1]
       ELSE [value |-> bits[pos], next |-> last + 1]

\* The slice data[pos : pos + length], which Python cuts where data ends.
Slice(data, pos, length) ==
    SubSeq(data, pos, IF pos + length - 1 < Len(data) THEN pos + length - 1 ELSE Len(data))

\* The fields from each position on, those of wire types 0 and 2; the ones of
\* fixed width are passed over, and an unknown wire type ends the message.
FieldsFrom(data) ==
    LET Field(tag, v) == <<[field |-> tag.value \div 8, wire |-> tag.value % 8, value |-> v]>>
        fields[pos \in Nat \ {0}] ==
            IF pos > Len(data) THEN <<>> ELSE
            LET tag == DecodeVarint(data, pos)
                val == DecodeVarint(data, tag.next)
            IN CASE tag.value % 8 = 0 -> Field(tag, val.value) \o fields[val.next]
                 [] tag.value % 8 = 2 -> Field(tag, Slice(data, val.next, val.value))
                                             \o fields[val.next + val.value]
                 [] tag.value % 8 = 1 -> fields[tag.next + 8]
                 [] tag.value % 8 = 5 -> fields[tag.next + 4]
                 [] OTHER -> <<>>
    IN fields
IterProtoFields(data) == FieldsFrom(data)[1]

\* The last value of a field, or what it is when the field is missing.
Found(fields, field, wire) ==
    {i \in DOMAIN fields : fields[i].field = field /\ fields[i].wire = wire}
FieldOf(fields, field, wire, default) ==
    IF Found(fields, field, wire) = {} THEN default
    ELSE fields[Max(Found(fields, field, wire))].value

\* A repeated Stat: name and value; a stat without a name is dropped, and the last
\* one of a name counts.
ParseQueryStatsResponse(data) ==
    LET fields == IterProtoFields(data)
        stats == Found(fields, 1, 2)
        Name(i) == FieldOf(IterProtoFields(fields[i].value), 1, 2, <<>>)
        Value(i) == FieldOf(IterProtoFields(fields[i].value), 2, 0, 0)
    IN [name \in {Name(i) : i \in stats} \ {<<>>} |->
            Value(Max({i \in stats : Name(i) = name}))]

-----------------------------------------------------------------------------
(***************************************************************************)
(* What Xray does with the bytes.                                           *)
(***************************************************************************)
\* Xray's answer: the fields in order, a value of zero left out.
QueryStatsResponse(online) ==
    LET names == SetToSeq(DOMAIN online)
        Count(n) == IF online[n] = 0 THEN <<>> ELSE <<16>> \o EncodeVarint(online[n])
    IN FlattenSeq([i \in DOMAIN names |->
           EncodeBytes(1, EncodeBytes(1, names[i]) \o Count(names[i]))])

\* Xray's reading of a request: the operation, and the user it is about.
ReadAlterInboundRequest(data) ==
    LET request == IterProtoFields(data)
        typed == IterProtoFields(FieldOf(request, 2, 2, <<>>))
        operation == IterProtoFields(FieldOf(typed, 2, 2, <<>>))
        user == IterProtoFields(FieldOf(operation, 1, 2, <<>>))
        account == IterProtoFields(FieldOf(user, 3, 2, <<>>))
        type == FieldOf(typed, 1, 2, <<>>)
    IN IF type = AddUserType
       THEN [tag |-> FieldOf(request, 1, 2, <<>>), type |-> type,
             email |-> FieldOf(user, 2, 2, <<>>),
             account |-> FieldOf(account, 1, 2, <<>>),
             uuid |-> FieldOf(IterProtoFields(FieldOf(account, 2, 2, <<>>)), 1, 2, <<>>)]
       ELSE [tag |-> FieldOf(request, 1, 2, <<>>), type |-> type,
             email |-> FieldOf(operation, 1, 2, <<>>)]
=============================================================================
