---------------------------- MODULE Serialization ----------------------------
(***************************************************************************)
(* How a message becomes bytes and bytes become a message: the streams of  *)
(* include/message_transport/serialization/serialization.h, its template   *)
(* specialisations, and the serializer of RawMessage in message_types.h.   *)
(*                                                                         *)
(* A message type is the sequence of its members' types, a message the     *)
(* sequence of their values.  Numbers are written least significant byte   *)
(* first; a byte has ByteModulus values (256), a uint32_t LengthSize bytes *)
(* (4), so that both can be small and every wrap-around of the code stays. *)
(*                                                                         *)
(* One call of serialize or of deserialize is one step: what runs          *)
(* concurrently with it is the subject of SharedMemoryBlock.  Here the     *)
(* bytes of a block and the two counts are arbitrary, as they are when     *)
(* other publishers of the topic resize or overwrite it.                   *)
(***************************************************************************)
EXTENDS Integers, Sequences

CONSTANTS
    ByteModulus,    \* number of values of a uint8_t
    LengthSize,     \* sizeof(uint32_t)
    TimestampSize,  \* sizeof(Timestamp)
    Capacity,       \* bytes of the block
    Types,          \* the types of members
    Messages,       \* what may be sent: records [type, value]
    StaleBlocks     \* what the block may hold before anything is sent

(* The number of values of k bytes. *)
Power(k) ==
    LET power[i \in 0 .. k] == IF i = 0 THEN 1 ELSE ByteModulus * power[i - 1]
    IN  power[k]

UintModulus == Power(LengthSize)
Byte == 0 .. ByteModulus - 1
Address == 0 .. Capacity - 1

ASSUME SerializationAssumption ==
    /\ ByteModulus \in Nat \ {0, 1}
    /\ {LengthSize, TimestampSize, Capacity} \subseteq Nat \ {0}
    /\ StaleBlocks \subseteq [Address -> Byte]

VARIABLES
    block,      \* the bytes of the shared memory block
    sent,       \* the message last serialized
    out,        \* the OStream it went into
    asked,      \* the type last deserialized
    in          \* the IStream it came from

vars == <<block, sent, out, asked, in>>

-----------------------------------------------------------------------------
(* Types.  Simple and fixed-size types are what the traits IsSimple and    *)
(* IsFixedSize say they are; a fixed-size type that is not simple is a     *)
(* message type of the user's whose serializer writes its bytes singly.    *)

Simple(size) == [size |-> size, kind |-> "simple"]
Bool == [size |-> 1, kind |-> "bool"]
Fixed(size) == [size |-> size, kind |-> "fixed"]
String == [kind |-> "string"]
Vector(type) == [kind |-> "vector", of |-> type]
Array(type, n) == [kind |-> "array", of |-> type, n |-> n]
Rest == [kind |-> "rest"]

Uint == Simple(LengthSize)
RawMessage == <<Simple(TimestampSize), Rest>>

IsSimple(type) == type.kind = "simple"
IsFixedSize(type) == type.kind \in {"simple", "bool", "fixed"}

IsElementType(type) ==
    \/ type.kind = "simple" /\ type.size \in Nat \ {0}
    \/ type.kind = "fixed" /\ type.size \in Nat
    \/ type = Bool
    \/ type = String

IsMemberType(type) ==
    \/ IsElementType(type)
    \/ type.kind = "vector" /\ IsElementType(type.of)
    \/ type.kind = "array" /\ IsElementType(type.of) /\ type.n \in Nat \ {0}
    \/ type = Rest

(* The values of a type; a number of size bytes is one below Power(size). *)
ElementValues(type) ==
    CASE type.kind = "simple" -> 0 .. Power(type.size) - 1
      [] type.kind = "bool"   -> BOOLEAN
      [] type.kind = "fixed"  -> [1 .. type.size -> Byte]
      [] type.kind = "string" -> Seq(Byte)

MemberValues(type) ==
    CASE type.kind = "vector" -> Seq(ElementValues(type.of))
      [] type.kind = "array"  -> [1 .. type.n -> ElementValues(type.of)]
      [] type.kind = "rest"   -> Seq(Byte)
      [] OTHER                -> ElementValues(type)

(* The compiler sees to it that messages are what their types say. *)
ASSUME MessageAssumption ==
    /\ \A type \in Types : IsMemberType(type)
    /\ \A message \in Messages :
          /\ message.type \in Seq(Types)
          /\ message.value = [i \in DOMAIN message.type |-> message.value[i]]
          /\ \A i \in DOMAIN message.type :
                message.value[i] \in MemberValues(message.type[i])

(* Faults: plausible mistakes for the checks to find, not part of the      *)
(* specification.                                                          *)

(* A number written without cutting it into bytes. *)
FaultToBytesUncut(n, size) == [i \in 1 .. size |-> n \div Power(i - 1)]

(* The object representation of a number, and back. *)
ToBytes(n, size) == [i \in 1 .. size |-> (n \div Power(i - 1)) % ByteModulus]
FromBytes(bytes) ==
    LET sum[i \in 0 .. Len(bytes)] ==
            IF i = 0 THEN 0 ELSE sum[i - 1] + bytes[i] * Power(i - 1)
    IN  sum[Len(bytes)]

-----------------------------------------------------------------------------
(* Streams.  memory is what the pointer points into; at and end are data_  *)
(* and end_; touched the addresses read or written through the stream; got *)
(* the values read so far; full says that the process has no memory left.  *)

NoStream == [memory |-> <<>>, at |-> 0, end |-> 0, exception |-> "none",
             touched |-> {}, got |-> <<>>, full |-> FALSE]

Stream(memory, count, full) ==
    [NoStream EXCEPT !.memory = memory, !.end = count, !.full = full]

Thrown(s) == s.exception # "none"

(* Faults of the same kind in the streams. *)

(* A bounds check before the pointer moves. *)
FaultAdvanceLate(s, len) ==
    IF Thrown(s) THEN s
    ELSE [s EXCEPT !.at = @ + len,
                   !.exception = IF s.at > s.end THEN "StreamOverrun" ELSE @]

(* A bounds check that takes the end for out of bounds. *)
FaultAdvanceInclusive(s, len) ==
    IF Thrown(s) THEN s
    ELSE [s EXCEPT !.at = @ + len,
                   !.exception = IF s.at + len >= s.end THEN "StreamOverrun" ELSE @]

(* The whole count of a stream for what is left of it. *)
FaultLengthWhole(s) == s.end % UintModulus

(* data_ moves before it is compared, and stays where it is when          *)
(* throwStreamOverrun throws.  Nothing of a call runs after a throw.       *)
advance(s, len) ==
    IF Thrown(s) THEN s
    ELSE [s EXCEPT !.at = @ + len,
                   !.exception = IF s.at + len > s.end THEN "StreamOverrun" ELSE @]

getLength(s) == (s.end - s.at) % UintModulus

(* memcpy(stream.advance(len), source, size of source). *)
put(s, len, source) ==
    LET next == advance(s, len)
        span == s.at .. s.at + Len(source) - 1
    IN  IF Thrown(next) THEN next
        ELSE [next EXCEPT
                !.touched = @ \cup span,
                !.memory = [a \in DOMAIN @ |-> IF a \in span THEN source[a - s.at + 1] ELSE @[a]]]

(* memcpy(destination, stream.advance(len), len). *)
take(s, len) ==
    LET next == advance(s, len)
        bytes == [i \in 1 .. len |-> IF s.at + i - 1 \in DOMAIN s.memory
                                     THEN s.memory[s.at + i - 1] ELSE 0]
    IN  IF Thrown(next) THEN next
        ELSE [next EXCEPT !.touched = @ \cup (s.at .. s.at + len - 1),
                          !.got = Append(@, bytes)]

(* Room for n elements of a container, which may not be there. *)
reserve(s, n) ==
    IF ~Thrown(s) /\ s.full /\ n > 0 THEN [s EXCEPT !.exception = "bad_alloc"] ELSE s

(* A for loop over n elements that ends with the first exception. *)
Loop(s, n, Step(_, _)) ==
    LET after[i \in 0 .. n] ==
            IF i = 0 THEN s
            ELSE LET before == after[i - 1]
                 IN  IF Thrown(before) THEN before ELSE Step(before, i)
    IN  after[n]

(* The last value read; the same as a value of another type; a length that *)
(* is read into a local variable is taken off again.                       *)
LastRead(s) == s.got[Len(s.got)]
Convert(s, value) == IF Thrown(s) THEN s ELSE [s EXCEPT !.got[Len(s.got)] = value]
Forget(s) == [s EXCEPT !.got = SubSeq(@, 1, Len(@) - 1)]

-----------------------------------------------------------------------------
(* Serializer<T> of the types that can be elements. *)

simpleWrite(s, size, v) == put(s, size, ToBytes(v, size))
simpleRead(s, size) == LET read == take(s, size) IN Convert(read, FromBytes(LastRead(read)))

boolWrite(s, v) == put(s, 1, ToBytes(IF v THEN 1 ELSE 0, 1))
boolRead(s) == LET read == take(s, 1) IN Convert(read, LastRead(read) # <<0>>)

(* A user's fixed-size type, byte by byte. *)
fixedWrite(s, size, v) == Loop(s, size, LAMBDA w, i : simpleWrite(w, 1, v[i]))
fixedRead(s, size) ==
    LET r == Loop([s EXCEPT !.got = <<>>], size, LAMBDA w, i : simpleRead(w, 1))
    IN  [r EXCEPT !.got = Append(s.got, r.got)]

(* The prefix and the advance wrap at 2^32, the memcpy does not. *)
stringWrite(s, v) ==
    LET prefixed == simpleWrite(s, LengthSize, Len(v) % UintModulus)
    IN  IF Len(v) > 0 THEN put(prefixed, Len(v) % UintModulus, v) ELSE prefixed

stringRead(s) ==
    LET prefixed == simpleRead(s, LengthSize)
        len == LastRead(prefixed)
    IN  IF Thrown(prefixed) THEN prefixed
        ELSE reserve(take(Forget(prefixed), len), len)

(* Overload resolution of serialize, deserialize and serializationLength. *)
writeElement(s, type, v) ==
    CASE type.kind = "simple" -> simpleWrite(s, type.size, v)
      [] type.kind = "bool"   -> boolWrite(s, v)
      [] type.kind = "fixed"  -> fixedWrite(s, type.size, v)
      [] type.kind = "string" -> stringWrite(s, v)

readElement(s, type) ==
    CASE type.kind = "simple" -> simpleRead(s, type.size)
      [] type.kind = "bool"   -> boolRead(s)
      [] type.kind = "fixed"  -> fixedRead(s, type.size)
      [] type.kind = "string" -> stringRead(s)

elementLength(type, v) ==
    (IF IsFixedSize(type) THEN type.size ELSE LengthSize + Len(v)) % UintModulus

sumOfLengths(type, v, start) ==
    LET sum[i \in 0 .. Len(v)] ==
            IF i = 0 THEN start ELSE (sum[i - 1] + elementLength(type, v[i])) % UintModulus
    IN  sum[Len(v)]

-----------------------------------------------------------------------------
(* Containers.  Elements of a simple type are copied in one piece, others  *)
(* by a call of next each.                                                 *)

(* The representation of a sequence of numbers of one size. *)
Packed(v, size) ==
    [k \in 1 .. Len(v) * size |-> ToBytes(v[((k - 1) \div size) + 1], size)[((k - 1) % size) + 1]]
Unpacked(bytes, size, n) ==
    [i \in 1 .. n |-> IF i * size <= Len(bytes)
                      THEN FromBytes(SubSeq(bytes, (i - 1) * size + 1, i * size)) ELSE 0]

writeAll(s, type, v) == Loop(s, Len(v), LAMBDA w, i : writeElement(w, type, v[i]))
readAll(s, type, n) ==
    LET r == Loop([s EXCEPT !.got = <<>>], n, LAMBDA w, i : readElement(w, type))
    IN  [r EXCEPT !.got = Append(s.got, r.got)]

(* len*sizeof(T) is computed in 32 bits, for the advance and for the copy. *)
vectorWrite(s, type, v) ==
    LET len == Len(v) % UintModulus
        data_len == (len * type.size) % UintModulus
        prefixed == simpleWrite(s, LengthSize, len)
    IN  IF ~IsSimple(type) THEN writeAll(prefixed, type, v)
        ELSE IF v = <<>> THEN prefixed
        ELSE put(prefixed, data_len, SubSeq(Packed(v, type.size), 1, data_len))

(* A fault for the checks to find: a copy that forgets the elements' size. *)
FaultVectorReadUnscaled(s, type) ==
    LET prefixed == simpleRead(s, LengthSize)
        len == LastRead(prefixed)
        resized == reserve(Forget(prefixed), len)
        read == take(resized, len)
    IN  IF Thrown(prefixed) THEN prefixed
        ELSE IF Thrown(resized) THEN resized
        ELSE IF ~IsSimple(type) THEN readAll(resized, type, len)
        ELSE Convert(read, Unpacked(LastRead(read), type.size, len))

(* resize() comes before anything of the elements is checked. *)
vectorRead(s, type) ==
    LET prefixed == simpleRead(s, LengthSize)
        len == LastRead(prefixed)
        data_len == (type.size * len) % UintModulus
        resized == reserve(Forget(prefixed), len)
        read == take(resized, data_len)
    IN  IF Thrown(prefixed) THEN prefixed
        ELSE IF Thrown(resized) THEN resized
        ELSE IF ~IsSimple(type) THEN readAll(resized, type, len)
        ELSE IF len = 0 THEN [resized EXCEPT !.got = Append(@, <<>>)]
        ELSE Convert(read, Unpacked(LastRead(read), type.size, len))

vectorLength(type, v) ==
    CASE ~IsFixedSize(type) -> sumOfLengths(type, v, LengthSize)
      [] IsSimple(type)     -> (LengthSize + Len(v) * type.size) % UintModulus
      [] OTHER              -> (LengthSize + (IF v = <<>> THEN 0
                                              ELSE elementLength(type, v[1]) * Len(v))) % UintModulus

arrayWrite(s, type, n, v) ==
    IF IsSimple(type) THEN put(s, (n * type.size) % UintModulus, Packed(v, type.size))
    ELSE writeAll(s, type, v)

arrayRead(s, type, n) ==
    LET read == take(s, (n * type.size) % UintModulus)
    IN  IF IsSimple(type) THEN Convert(read, Unpacked(LastRead(read), type.size, n))
        ELSE readAll(s, type, n)

arrayLength(type, n, v) ==
    CASE ~IsFixedSize(type) -> sumOfLengths(type, v, 0)
      [] IsSimple(type)     -> (n * type.size) % UintModulus
      [] OTHER              -> (elementLength(type, v[1]) * n) % UintModulus

-----------------------------------------------------------------------------
(* The payload of a RawMessage: no prefix, it ends where the stream ends.  *)

restWrite(s, v) == IF v = <<>> THEN s ELSE put(s, Len(v) % UintModulus, v)

(* The bytes an empty message owns after allocate(size), which catches     *)
(* bad_alloc and returns FALSE.                                            *)
allocate(s, size) == ~(s.full /\ size > 0)

restRead(s) ==
    LET data_size == getLength(s)
    IN  IF allocate(s, data_size) /\ data_size > 0
        THEN take(s, data_size)
        ELSE [s EXCEPT !.got = Append(@, <<>>)]

writeMember(s, type, v) ==
    CASE type.kind = "vector" -> vectorWrite(s, type.of, v)
      [] type.kind = "array"  -> arrayWrite(s, type.of, type.n, v)
      [] type.kind = "rest"   -> restWrite(s, v)
      [] OTHER                -> writeElement(s, type, v)

readMember(s, type) ==
    CASE type.kind = "vector" -> vectorRead(s, type.of)
      [] type.kind = "array"  -> arrayRead(s, type.of, type.n)
      [] type.kind = "rest"   -> restRead(s)
      [] OTHER                -> readElement(s, type)

memberLength(type, v) ==
    CASE type.kind = "vector" -> vectorLength(type.of, v)
      [] type.kind = "array"  -> arrayLength(type.of, type.n, v)
      [] type.kind = "rest"   -> Len(v) % UintModulus
      [] OTHER                -> elementLength(type, v)

(* next() for each member: an OStream, an IStream and an LStream. *)
serialize(s, type, v) == Loop(s, Len(type), LAMBDA w, i : writeMember(w, type[i], v[i]))
deserialize(s, type) == Loop(s, Len(type), LAMBDA r, i : readMember(r, type[i]))
serializationLength(type, v) ==
    LET count[i \in 0 .. Len(type)] ==
            IF i = 0 THEN 0 ELSE (count[i - 1] + memberLength(type[i], v[i])) % UintModulus
    IN  count[Len(type)]

-----------------------------------------------------------------------------
(* The block and its users. *)

NoMessage == [type |-> <<>>, value |-> <<>>]

Init ==
    /\ block \in StaleBlocks
    /\ sent = NoMessage /\ out = NoStream
    /\ asked = <<>> /\ in = NoStream

(* A publisher copies a message into the block, whose recorded size is what *)
(* the last call of recordSize said, of this publisher or of another.      *)
Serialize(message, size) ==
    /\ out = NoStream
    /\ in = NoStream
    /\ sent' = message
    /\ out' = serialize(Stream(block, size, FALSE), message.type, message.value)
    /\ block' = out'.memory
    /\ UNCHANGED <<asked, in>>

(* A subscriber reads a message of its own type from the block. *)
Deserialize(type, size, full) ==
    /\ in = NoStream
    /\ asked' = type
    /\ in' = deserialize(Stream(block, size, full), type)
    /\ UNCHANGED <<block, sent, out>>

(* reallocateBlock destroys the block and constructs it again. *)
Reallocate ==
    /\ in # NoStream
    /\ block' = [a \in Address |-> 0]
    /\ sent' = NoMessage /\ out' = NoStream
    /\ asked' = <<>> /\ in' = NoStream

Next ==
    \/ \E message \in Messages, size \in 0 .. Capacity : Serialize(message, size)
    \/ \E message \in Messages, size \in 0 .. Capacity, full \in BOOLEAN :
            Deserialize(message.type, size, full)
    \/ Reallocate

Spec == Init /\ [][Next]_vars

-----------------------------------------------------------------------------
(* The length of a message in unbounded arithmetic.  A message whose parts *)
(* do not fit into 32 bits is outside of what the format can express.      *)
ElementSize(type, v) == IF IsFixedSize(type) THEN type.size ELSE LengthSize + Len(v)

Sum(Term(_), n) ==
    LET sum[i \in 0 .. n] == IF i = 0 THEN 0 ELSE sum[i - 1] + Term(i)
    IN  sum[n]

MemberSize(type, v) ==
    CASE type.kind = "rest"   -> Len(v)
      [] type.kind = "vector" -> LengthSize + Sum(LAMBDA i : ElementSize(type.of, v[i]), Len(v))
      [] type.kind = "array"  -> Sum(LAMBDA i : ElementSize(type.of, v[i]), type.n)
      [] OTHER                -> ElementSize(type, v)

Expressible(type, v) == Sum(LAMBDA i : MemberSize(type[i], v[i]), Len(type)) < UintModulus

Ended(s) == s # NoStream /\ ~Thrown(s)
IsRaw(type) == \E i \in DOMAIN type : type[i] = Rest
RestLast(type) == \A i \in DOMAIN type : type[i] = Rest => i = Len(type)
Countable(type, v) == \A i \in DOMAIN type : type[i].kind = "vector" => Len(v[i]) < UintModulus
HasBool(type) ==
    \E i \in DOMAIN type : type[i] = Bool \/ (type[i].kind \in {"vector", "array"} /\ type[i].of = Bool)

(* The types of the variables: in particular, whatever a stream's calls do *)
(* leaves the block a sequence of bytes, and its counts within the block.  *)
TypeOK ==
    /\ block \in [Address -> Byte]
    /\ sent \in Messages \cup {NoMessage}
    /\ asked \in {message.type : message \in Messages} \cup {<<>>}
    /\ \A s \in {out, in} :
          /\ s.end \in 0 .. Capacity
          /\ s.exception \in {"none", "StreamOverrun", "bad_alloc"}
          /\ s # NoStream => s.memory \in [Address -> Byte]

(* "Advances the stream, checking bounds": no byte outside of the count a  *)
(* stream was made with is read or written, whatever lengths the bytes     *)
(* pretend, whether or not the call throws, and for every message of less  *)
(* than 2^32 bytes.                                                        *)
WithinBounds ==
    /\ in.touched \subseteq 0 .. in.end - 1
    /\ Expressible(sent.type, sent.value) => out.touched \subseteq 0 .. out.end - 1

(* serializationLength, from which publish_msg sizes the block, is what    *)
(* serialize needs: a stream that long takes the message and is used up    *)
(* exactly, a shorter one throws.                                          *)
LengthExact ==
    out # NoStream /\ Expressible(sent.type, sent.value) =>
        LET length == serializationLength(sent.type, sent.value)
        IN  /\ Thrown(out) <=> length > out.end
            /\ ~Thrown(out) => out.at = length

(* Reading what was written gives the message back, at the length it was   *)
(* written with or with bytes left over; of fewer bytes than that the      *)
(* reader does not make a message, but throws.  A RawMessage has no length *)
(* in it: only its own count gives it back, and only if nothing follows it. *)
(* A vector has fewer than 2^32 elements, though they may take no bytes.   *)
RoundTrip ==
    Ended(out) /\ Expressible(sent.type, sent.value) /\ Countable(sent.type, sent.value)
    /\ in # NoStream /\ asked = sent.type /\ ~in.full =>
        LET length == serializationLength(sent.type, sent.value)
        IN  IF IsRaw(asked)
            THEN in.end = length /\ RestLast(asked) => Ended(in) /\ in.got = sent.value
            ELSE IF in.end >= length
                 THEN Ended(in) /\ in.got = sent.value /\ in.at = length
                 ELSE in.exception = "StreamOverrun"

(* Whatever the block holds (an older message, one of another type, half   *)
(* of one): what deserialize accepts is a message that could have been     *)
(* sent.  Serialized again it has the length that was consumed and gives   *)
(* the bytes that were read; only a bool is read from more than one byte.  *)
AcceptsOnlyMessages ==
    Ended(in) /\ Expressible(asked, in.got) =>
        LET again == serialize(Stream([a \in Address |-> 0], in.at, FALSE), asked, in.got)
        IN  /\ serializationLength(asked, in.got) = in.at
            /\ ~Thrown(again) /\ again.at = in.at
            /\ HasBool(asked) \/ \A a \in 0 .. in.at - 1 : again.memory[a] = block[a]

=============================================================================
