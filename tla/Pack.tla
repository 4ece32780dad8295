-------------------------------- MODULE Pack --------------------------------
(***************************************************************************)
(* pack and unpack: values to bytes and back, as the platform that runs them *)
(* lays them out.  A platform is a record of the sizes of its fundamental    *)
(* types and of the one that is its size_t.                                 *)
(*                                                                          *)
(* A fundamental value is the number its bytes spell, least significant      *)
(* first, a string is the sequence of its characters.                       *)
(***************************************************************************)
EXTENDS Integers, SequencesExt

CONSTANT Base  \* number of values of a byte (256 in the code)

ASSUME PackAssumption == Base \in Nat \ {0, 1}

Byte == 0 .. (Base - 1)

Fundamental == {"bool", "char", "unsigned char", "short", "unsigned short", "int",
                "unsigned int", "long", "unsigned long", "long long",
                "unsigned long long", "float", "double"}

\* The types with a pack and an unpack; a message is a tuple of them.
Plain(t)  == [kind |-> "plain", of |-> t]
String    == [kind |-> "string"]
Vector(t) == [kind |-> "vector", of |-> t]

Type == {Plain(t) : t \in Fundamental} \cup {String} \cup {Vector(t) : t \in Fundamental}

Platform == [sizeof : [Fundamental -> Nat], size_t : Fundamental]

-----------------------------------------------------------------------------
\* What is left of v behind its first k bytes.
Left(v, k) ==
    LET left[i \in 0 .. k] == IF i = 0 THEN v ELSE left[i - 1] \div Base
    IN  left[k]

\* os.write of the size bytes of v.
Bytes(v, size) == [i \in 1 .. size |-> Left(v, i - 1) % Base]

\* The number that bytes spell.
Number(bytes) ==
    LET n == Len(bytes)
        last[k \in 0 .. n] == IF k = 0 THEN 0 ELSE bytes[n + 1 - k] + Base * last[k - 1]
    IN  last[n]

PackPlain(platform, t, v) == Bytes(v, platform.sizeof[t])

\* Variant: a string is packed as a vector of its characters.
PackString_SizeT(platform, v) == PackPlain(platform, platform.size_t, Len(v)) \o v

\* The length is cut to an unsigned int, and so are the characters.
PackString(platform, v) ==
    LET size == PackPlain(platform, "unsigned int", Len(v))
    IN  size \o SubSeq(v, 1, Number(size))

\* The length is a size_t.
PackVector(platform, t, v) ==
    PackPlain(platform, platform.size_t, Len(v)) \o
    FlattenSeq([i \in 1 .. Len(v) |-> PackPlain(platform, t, v[i])])

PackValue(platform, type, v) ==
    CASE type.kind = "plain"  -> PackPlain(platform, type.of, v)
      [] type.kind = "string" -> PackString(platform, v)
      [] type.kind = "vector" -> PackVector(platform, type.of, v)

PackTuple(platform, types, vs) ==
    FlattenSeq([i \in 1 .. Len(types) |-> PackValue(platform, types[i], vs[i])])

-----------------------------------------------------------------------------
\* v is a value of a type on a platform.
FitsPlain(platform, t, v) == v \in Nat /\ Left(v, platform.sizeof[t]) = 0

Fits(platform, type, v) ==
    CASE type.kind = "plain"  -> FitsPlain(platform, type.of, v)
      [] type.kind = "string" ->
             v \in Seq(Byte) /\ FitsPlain(platform, "unsigned int", Len(v))
      [] type.kind = "vector" ->
             /\ v \in Seq(Nat) /\ FitsPlain(platform, platform.size_t, Len(v))
             /\ \A i \in 1 .. Len(v) : FitsPlain(platform, type.of, v[i])

\* vs is a tuple of values of these types.
FitsTuple(platform, types, vs) ==
    /\ vs = [i \in 1 .. Len(types) |-> vs[i]]
    /\ \A i \in 1 .. Len(types) : Fits(platform, types[i], vs[i])

-----------------------------------------------------------------------------
(***************************************************************************)
(* Reading.  A stream is what is left to read and whether all reads so far   *)
(* found enough.  A read that finds too little takes what there is, and all  *)
(* later ones take nothing; the variable keeps its other bytes.             *)
(***************************************************************************)
Stream(data) == [rest |-> data, good |-> TRUE]

Got(stream, size) ==
    IF ~stream.good THEN << >>
    ELSE SubSeq(stream.rest, 1, IF size < Len(stream.rest) THEN size ELSE Len(stream.rest))

After(stream, size) ==
    [rest |-> SubSeq(stream.rest, Len(Got(stream, size)) + 1, Len(stream.rest)),
     good |-> stream.good /\ Len(stream.rest) >= size]

\* The sequence old with its first elements replaced by those of new.
Over(old, new) == [i \in 1 .. Len(old) |-> IF i <= Len(new) THEN new[i] ELSE old[i]]

\* is.read into a variable of size bytes that had the value old.
UnpackPlain(stream, size, old) == Number(Over(Bytes(old, size), Got(stream, size)))

\* Variant: the length is read as an unsigned long long.
UnpackString_LongLong(platform, stream) ==
    LET long == platform.sizeof["unsigned long long"]
        size == UnpackPlain(stream, long, 0)
        text == After(stream, long)
    IN  [value  |-> Over([i \in 1 .. size |-> 0], Got(text, size)),
         stream |-> After(text, size)]

(***************************************************************************)
(* The value of a string, and the stream after it.  A string of this size    *)
(* may be more than memory allows: what comes of that is for the caller, as  *)
(* it is for vectors.                                                       *)
(***************************************************************************)
UnpackString(platform, stream) ==
    LET uint == platform.sizeof["unsigned int"]
        size == UnpackPlain(stream, uint, 0)
        text == After(stream, uint)
    IN  [value  |-> Over([i \in 1 .. size |-> 0], Got(text, size)),
         stream |-> After(text, size)]

(***************************************************************************)
(* The length of a vector is read into an uninitialized variable: junk is    *)
(* what it holds when nothing, or not all of it, is read.                   *)
(***************************************************************************)
UnpackVector(platform, t, stream, junk) ==
    LET word  == platform.sizeof[platform.size_t]
        elem  == platform.sizeof[t]
        size  == UnpackPlain(stream, word, junk)
        at(i) == After(After(stream, word), i * elem)   \* after i elements
    IN  [value  |-> [i \in 1 .. size |-> UnpackPlain(at(i - 1), elem, 0)],
         stream |-> at(size)]

UnpackValue(platform, type, stream, junk) ==
    CASE type.kind = "plain"  ->
             [value  |-> UnpackPlain(stream, platform.sizeof[type.of], 0),
              stream |-> After(stream, platform.sizeof[type.of])]
      [] type.kind = "string" -> UnpackString(platform, stream)
      [] type.kind = "vector" -> UnpackVector(platform, type.of, stream, junk)

\* The values of a tuple, and the stream after it.
UnpackTuple(platform, types, stream, junk) ==
    LET got[i \in 0 .. Len(types)] ==
            IF i = 0 THEN [values |-> << >>, stream |-> stream]
            ELSE LET before == got[i - 1]
                     next   == UnpackValue(platform, types[i], before.stream, junk)
                 IN  [values |-> Append(before.values, next.value), stream |-> next.stream]
    IN  got[Len(types)]
=============================================================================
