---------------------------- MODULE FieldReader ----------------------------
(***************************************************************************)
(* The growing buffer of WireReader, read as one tag and the field that    *)
(* follows it, kept and skipped.                                           *)
(***************************************************************************)
EXTENDS WireReader, KeptFields

(* One tag and what follows it, kept and skipped.                          *)
Keep(bytes, limit) == AfterTag(bytes, 0, LAMBDA tag, at :
    Then(DecodeUnknownField(From(bytes, at), tag.number, tag.wire, limit),
         LAMBDA field, used : Ok(field, at + used)))

Skip(bytes, limit) == AfterTag(bytes, 0, LAMBDA tag, at :
    Then(SkipField(From(bytes, at), tag.wire, limit),
         LAMBDA skipped, used : Ok("skipped", at + used)))

(* However the bytes arrive in pieces, a verdict is given once: no decoder  *)
(* of a varint, a tag or a whole field changes an answer other than        *)
(* UnexpectedEof when more bytes follow, not even inside groups and        *)
(* lengths.  A reader that retries on UnexpectedEof relies on it.          *)
VerdictsFinal ==
    [][/\ ReadsFinal
       /\ Final(Keep(buf, MaxNesting)) => Keep(buf', MaxNesting) = Keep(buf, MaxNesting)
       /\ Final(Skip(buf, MaxNesting)) => Skip(buf', MaxNesting) = Skip(buf, MaxNesting)]_buf

(* The view decoder skips what the owned decoder keeps: on every field the *)
(* owned one accepts, both move on to the same byte.  Where only skipping  *)
(* succeeds, the reason is an EndGroup tag (stray, or of another group) or *)
(* a length that wraps.                                                    *)
SkipAgrees ==
    LET kept == Keep(buf, MaxNesting)
        skipped == Skip(buf, MaxNesting)
    IN  /\ kept.ok => skipped = Ok("skipped", kept.used)
        /\ skipped.ok /\ ~kept.ok => kept.err \in {"Custom", "panic"}

(* A kept field is written in exactly encoded_len bytes, no more than it   *)
(* was read from, and reads back as the same field: group nesting, padded  *)
(* varints and padded lengths included.                                    *)
KeptRoundTrip ==
    LET kept == Keep(buf, MaxNesting)
        again == WriteField(kept.val)
    IN  kept.ok =>
            /\ Len(again) = FieldLen(kept.val)
            /\ Len(again) <= kept.used
            /\ Keep(again, MaxNesting) = Ok(kept.val, Len(again))

(* The recursion limit is exactly the number of nested groups allowed, in  *)
(* both decoders: a field is read with every limit that its groups are not *)
(* nested deeper than, and refused for its nesting otherwise.              *)
NestingExact ==
    LET kept == Keep(buf, MaxNesting) IN
    kept.ok => \A l \in 0 .. MaxNesting :
        IF kept.val \in Fields[l]
        THEN Keep(buf, l) = kept /\ Skip(buf, l).ok
        ELSE /\ Keep(buf, l) = Fail("RecursionLimitExceeded")
             /\ Skip(buf, l) = Fail("RecursionLimitExceeded")
=============================================================================
