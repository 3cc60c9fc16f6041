---------------------------- MODULE CachedEncode ----------------------------
(***************************************************************************)
(* Two-pass serialization of one message shared by several threads.        *)
(*                                                                         *)
(* encode (runtime/src/message.rs) calls compute_size, which stores the    *)
(* size of every sub-message in its CachedSize cell, then write_to, which  *)
(* loads those cells to write length prefixes.  The cells are atomics in a *)
(* message behind a shared reference (Arc<Message>), so several encoders   *)
(* run the two passes over the same cells at once.  The owner changes the  *)
(* message only with exclusive access; nothing invalidates the cells then. *)
(*                                                                         *)
(* compute_size and write_to are the recursive methods that                *)
(* codegen/src/rust_gen_runtime.rs generates; a stack per thread holds     *)
(* their active calls.  The cells are single locations a thread stores to  *)
(* before it loads from, so Relaxed ordering gives no more outcomes than   *)
(* the interleavings here.  Sizes are below 2^32.                          *)
(***************************************************************************)
EXTENDS Integers, Sequences, FiniteSets, Functions

CONSTANTS
  Node,      \* the message and the sub-messages it can hold
  Root,      \* the message that is encoded
  Kids,      \* node -> sequence of its message-typed fields, as nodes
  MapValue,  \* nodes that are the value of a map entry
  OwnSizes,  \* encoded sizes of a node's scalar and unknown fields
  Thread

ASSUME MessageAssumption ==
  /\ Root \in Node
  /\ Kids \in [Node -> Seq(Node)]
  /\ MapValue \subseteq Node
  /\ OwnSizes \subseteq Nat /\ 0 \in OwnSizes

VARIABLES
  own,      \* encoded size of the scalar and unknown fields of a node
  present,  \* is the field (oneof variant, element, map entry) set?
  cached,   \* the CachedSize cells
  stack,    \* per thread, the active calls of compute_size and write_to
  sized     \* history: compute_size calls completed in the running encode

message == <<own, present>>
vars == <<own, present, cached, stack, sized>>

-----------------------------------------------------------------------------
(* Bytes of a varint below 2^32: one for every seven bits. *)
VarintLen(v) == 1 + Cardinality({k \in 1..4 : v >= 128^k})

(* A one-byte tag, a prefix that says p, and w bytes. *)
LenDelimited(p, w) == 1 + VarintLen(p) + w

(* A map entry: a two-byte key field, then the value as a field. *)
EntryBytes(p, w) == 2 + LenDelimited(p, w)

(* What compute_size adds for a sub-message of size s ... *)
FieldBytes(k, s) ==
  IF k \in MapValue THEN LenDelimited(EntryBytes(s, s), EntryBytes(s, s)) ELSE LenDelimited(s, s)

(* ... and what write_to puts out when the entry length e and the length p  *)
(* are announced and the sub-message writes w bytes.                        *)
FieldWritten(k, e, p, w) ==
  IF k \in MapValue THEN LenDelimited(e, EntryBytes(p, w)) ELSE LenDelimited(p, w)

Bytes(acc) == FoldFunction(LAMBDA x, y : x + y, 0, acc)
Total(n, acc) == own[n] + Bytes(acc)

(***************************************************************************)
(* An active call: next is the field it is at, acc the bytes each earlier  *)
(* field took, prefix (write) the length announced before the call, entry  *)
(* (write) the announced length of the map entry it is writing, or 0.      *)
(***************************************************************************)
Call(op, n, i, acc, p, e) == [op |-> op, node |-> n, next |-> i, acc |-> acc, prefix |-> p, entry |-> e]
SizeCall(n) == Call("size", n, 1, <<>>, 0, 0)
WriteCall(n, p) == Call("write", n, 1, <<>>, p, 0)

Idle(t) == stack[t] = <<>>
Top(t) == stack[t][Len(stack[t])]
Below(t) == SubSeq(stack[t], 1, Len(stack[t]) - 1)
AtField(t, op) == ~Idle(t) /\ Top(t).op = op /\ Top(t).next <= Len(Kids[Top(t).node])
AtEnd(t, op) == ~Idle(t) /\ Top(t).op = op /\ Top(t).next > Len(Kids[Top(t).node])
Field(t) == Kids[Top(t).node][Top(t).next]

SetStack(t, s) == stack' = [stack EXCEPT ![t] = s]
Push(t, call) == SetStack(t, Append(stack[t], call))

(* The frame after its current field took that many bytes. *)
Past(frame, bytes) ==
  Call(frame.op, frame.node, frame.next + 1, Append(frame.acc, bytes), frame.prefix, 0)
WithEntry(frame, e) == Call(frame.op, frame.node, frame.next, frame.acc, frame.prefix, e)

(* The call on top returns to the one below it, which becomes `frame`. *)
ReturnInto(t, frame) == SetStack(t, Append(SubSeq(stack[t], 1, Len(stack[t]) - 2), frame))

-----------------------------------------------------------------------------
NoCount == [n \in Node |-> 0]

Init ==
  /\ own \in [Node -> OwnSizes]
  /\ present \in [Node -> BOOLEAN] /\ present[Root]
  /\ cached = [n \in Node |-> 0]
  /\ stack = [t \in Thread |-> <<>>]
  /\ sized = [t \in Thread |-> NoCount]

(* Mutation: a new encode first resets the cell of the root. *)
EncodeResetting(t) ==
  /\ Idle(t)
  /\ Push(t, SizeCall(Root))
  /\ cached' = [cached EXCEPT ![Root] = 0]
  /\ UNCHANGED <<message, sized>>

(* encode: the first pass starts. *)
Encode(t) ==
  /\ Idle(t)
  /\ Push(t, SizeCall(Root))
  /\ UNCHANGED <<message, cached, sized>>

(* Both passes skip a field that is not set. *)
SkipUnset(t) ==
  /\ AtField(t, "size") \/ AtField(t, "write")
  /\ ~present[Field(t)]
  /\ SetStack(t, Append(Below(t), Past(Top(t), 0)))
  /\ UNCHANGED <<message, cached, sized>>

(* Mutation: a cell that is not zero is taken to be up to date. *)
SizeFieldFromCell(t) ==
  /\ AtField(t, "size")
  /\ present[Field(t)]
  /\ IF cached[Field(t)] = 0
       THEN Push(t, SizeCall(Field(t)))
       ELSE SetStack(t, Append(Below(t), Past(Top(t), FieldBytes(Field(t), cached[Field(t)]))))
  /\ UNCHANGED <<message, cached, sized>>

(* Mutation: the cell is reset while the size is computed again. *)
SizeFieldResetting(t) ==
  /\ AtField(t, "size")
  /\ present[Field(t)]
  /\ Push(t, SizeCall(Field(t)))
  /\ cached' = [cached EXCEPT ![Field(t)] = 0]
  /\ UNCHANGED <<message, sized>>

(* message_field_size, from compute_size. *)
SizeField(t) ==
  /\ AtField(t, "size")
  /\ present[Field(t)]
  /\ Push(t, SizeCall(Field(t)))
  /\ UNCHANGED <<message, cached, sized>>

(* compute_size stores the size in the cell and returns it ... *)
Store(t) ==
  /\ AtEnd(t, "size")
  /\ cached' = [cached EXCEPT ![Top(t).node] = Total(Top(t).node, Top(t).acc)]
  /\ sized' = [sized EXCEPT ![t][Top(t).node] = @ + 1]
  /\ UNCHANGED message

Result(t) == Total(Top(t).node, Top(t).acc)
Caller(t) == stack[t][Len(stack[t]) - 1]

(* ... to encode, which starts the second pass, ... *)
SizeDone(t) ==
  /\ Store(t)
  /\ Len(stack[t]) = 1
  /\ SetStack(t, <<WriteCall(Root, Result(t))>>)

(* ... to the compute_size of the enclosing message, ... *)
SizeToParent(t) ==
  /\ Store(t)
  /\ Len(stack[t]) > 1
  /\ Caller(t).op = "size"
  /\ ReturnInto(t, Past(Caller(t), FieldBytes(Top(t).node, Result(t))))

(* Mutation: the entry length leaves the key out. *)
SizeToEntryWithoutKey(t) ==
  /\ Store(t)
  /\ Len(stack[t]) > 1
  /\ Caller(t).op = "write"
  /\ ReturnInto(t, WithEntry(Caller(t), LenDelimited(Result(t), Result(t))))

(* ... or to a write_to that needs the length of a map entry. *)
SizeToEntry(t) ==
  /\ Store(t)
  /\ Len(stack[t]) > 1
  /\ Caller(t).op = "write"
  /\ ReturnInto(t, WithEntry(Caller(t), EntryBytes(Result(t), Result(t))))

(* write_to computes the size of a map value once more, for its entry. *)
SizeEntry(t) ==
  /\ AtField(t, "write")
  /\ present[Field(t)]
  /\ Field(t) \in MapValue /\ Top(t).entry = 0
  /\ Push(t, SizeCall(Field(t)))
  /\ UNCHANGED <<message, cached, sized>>

(* write_message_field: the cell is loaded for the prefix. *)
WriteField(t) ==
  /\ AtField(t, "write")
  /\ present[Field(t)]
  /\ Field(t) \in MapValue => Top(t).entry # 0
  /\ Push(t, WriteCall(Field(t), cached[Field(t)]))
  /\ UNCHANGED <<message, cached, sized>>

WriteToParent(t) ==
  /\ AtEnd(t, "write")
  /\ Len(stack[t]) > 1
  /\ ReturnInto(t, Past(Caller(t), FieldWritten(Top(t).node, Caller(t).entry, Top(t).prefix, Result(t))))
  /\ UNCHANGED <<message, cached, sized>>

(* encode returns the buffer. *)
WriteDone(t) ==
  /\ AtEnd(t, "write")
  /\ Len(stack[t]) = 1
  /\ SetStack(t, <<>>)
  /\ sized' = [sized EXCEPT ![t] = NoCount]
  /\ UNCHANGED <<message, cached>>

Pass(t) ==
  \/ SkipUnset(t) \/ SizeField(t) \/ SizeDone(t) \/ SizeToParent(t) \/ SizeToEntry(t)
  \/ SizeEntry(t) \/ WriteField(t) \/ WriteToParent(t) \/ WriteDone(t)

-----------------------------------------------------------------------------
(* &mut Message: no encoder holds a shared reference. *)
Exclusive == \A t \in Thread : Idle(t)

(* A scalar field or the unknown fields of a node change; so does nothing else. *)
SetScalars(n, s) ==
  /\ Exclusive
  /\ own' = [own EXCEPT ![n] = s]
  /\ UNCHANGED <<present, cached, stack, sized>>

(* A field is set to a default message, as get_or_insert_default does. *)
InsertDefault(k) ==
  /\ Exclusive
  /\ ~present[k]
  /\ own' = [own EXCEPT ![k] = 0]
  /\ present' = [n \in Node |-> n = k \/ (present[n] /\ n \notin Range(Kids[k]))]
  /\ cached' = [cached EXCEPT ![k] = 0]
  /\ UNCHANGED <<stack, sized>>

Unset(k) ==
  /\ Exclusive
  /\ present' = [present EXCEPT ![k] = FALSE]
  /\ UNCHANGED <<own, cached, stack, sized>>

(* A message that was taken out of a field is put back, its cells as they were. *)
PutBack(k) ==
  /\ Exclusive
  /\ ~present[k]
  /\ present' = [present EXCEPT ![k] = TRUE]
  /\ UNCHANGED <<own, cached, stack, sized>>

(* Message::clear on the root. *)
Clear ==
  /\ Exclusive
  /\ own' = [own EXCEPT ![Root] = 0]
  /\ present' = [n \in Node |-> present[n] /\ n \notin Range(Kids[Root])]
  /\ cached' = [cached EXCEPT ![Root] = 0]
  /\ UNCHANGED <<stack, sized>>

(* The message is replaced by a clone of it: CachedSize clones to zero. *)
Clone ==
  /\ Exclusive
  /\ cached' = [n \in Node |-> 0]
  /\ UNCHANGED <<message, stack, sized>>

Owner ==
  \/ \E n \in Node, s \in OwnSizes : SetScalars(n, s)
  \/ \E k \in Node \ {Root} : InsertDefault(k) \/ PutBack(k) \/ Unset(k)
  \/ Clear
  \/ Clone

Next == Owner \/ \E t \in Thread : Encode(t) \/ Pass(t)

Spec == Init /\ [][Next]_vars

-----------------------------------------------------------------------------
Calls(t, op) == {i \in 1..Len(stack[t]) : stack[t][i].op = op}

(* The length announced for a message is the number of bytes it then puts   *)
(* out; for the root it is the size encode asserts (debug_assert_eq!), which *)
(* also makes the buffer's capacity exact.                                   *)
PrefixExact ==
  \A t \in Thread : AtEnd(t, "write") => Result(t) = Top(t).prefix

(* The length announced for a map entry is what the key and the value take, *)
(* although it was computed in another traversal than the value's prefix.   *)
EntryExact ==
  \A t \in Thread : \A i \in Calls(t, "write") :
    i > 1 /\ stack[t][i].node \in MapValue =>
      stack[t][i-1].entry = EntryBytes(stack[t][i].prefix, stack[t][i].prefix)

(* A cell from which a length was taken keeps that value until the message  *)
(* is written: whatever other threads store meanwhile is the same number.   *)
CellsSettled ==
  \A t \in Thread : \A i \in Calls(t, "write") :
    stack[t][i].prefix = cached[stack[t][i].node]

(* No store by one thread alters a cell another one has already filled.     *)
NoLostStore ==
  [][\A u \in Thread, n \in Node :
       sized[u][n] > 0 /\ sized'[u][n] > 0 => cached'[n] = cached[n]]_vars

(* "Both passes are O(n)": each of the two passes computes the size of a    *)
(* sub-message at most once.                                                *)
PassesLinear == \A t \in Thread, n \in Node : sized[t][n] <= 2
=============================================================================
