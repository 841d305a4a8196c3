----------------------------- MODULE LoanLifecycle -----------------------------
(***************************************************************************)
(* Constrained handles and the messages that borrow a client's memory: who *)
(* owns which pointer and which block, and what the constraints promise.   *)
(*                                                                         *)
(* A client (a middleware) owns blocks, lends one to a message it          *)
(* constructs or casts there, and gets it back by destroying, releasing or *)
(* compacting the message. It learns what became of a pointer only from    *)
(* what the calls return, so its books (`loan`, `available`) are kept      *)
(* apart from the heap (`object`). Every call may go through any handle    *)
(* that is alive, not only the one the message was constructed with, and a *)
(* handle may be destroyed while messages live.                            *)
(*                                                                         *)
(* The type has one string member; ZeroCopyPath is about types with more.  *)
(* Constraints are the bound of the string and the blanket limit on string *)
(* lengths, 0 for none; a bound of 0 is not modelled. An application may   *)
(* assign more than a view holds, as in ZeroCopyPath: the text then lives  *)
(* elsewhere. The numbers of a CDR header and of a block's capacity are    *)
(* those of XcdrAlign and of the client.                                   *)
(***************************************************************************)
EXTENDS LengthPrefix

CONSTANTS
  Handles,      \* constrained handles
  Messages,     \* message pointers
  Blocks,       \* blocks of the client's memory
  Base,         \* the generated, unconstrained handle
  None,         \* no handle, message, block or constraints
  Constraints,  \* the constraints clients ask for
  Chars,        \* lengths an application assigns
  Capacity      \* bound: bytes of a block

Objects ==
  [block : Blocks \cup {None}, size : Nat, view : Nat, chars : Nat, outgrown : BOOLEAN]

ASSUME LoanAssumption ==
  /\ Base \notin Handles
  /\ None \notin Handles \cup Messages \cup Blocks \cup Constraints \cup {Base}
  /\ None \notin Objects
  /\ \A c \in Constraints : c.bound \in Nat \ {0} /\ c.limit \in Nat
  /\ Chars \subseteq Nat
  /\ Capacity \in Nat

\* A text that fits a block has a length that fits its prefix.
ASSUME BlockAssumption == Capacity <= NumberMax

VARIABLES
  handle,     \* the constraints of every constrained handle, None while it does not exist
  object,     \* the messages on the heap, None where there is none
  block,      \* what the blocks hold
  loan,       \* the client: the pointers it has to end, with the block each was lent
  available,  \* the client: the blocks it may use
  verdict     \* the client: the constraints each message was found to satisfy

vars == <<handle, object, block, loan, available, verdict>>

--------------------------------------------------------------------------------
(* Sizes *)

\* A header, a prefix, the characters and their terminator.
SizeOf(chars) == HeaderSize + PrefixSize + chars + 1

Live == {h \in Handles : handle[h] # None} \cup {Base}

ConstraintsOf(h) == IF h = Base THEN None ELSE handle[h]

\* 0 where no layout is cached.
GetExpectedSize(h) == IF h = Base THEN 0 ELSE SizeOf(handle[h].bound)

\* A message with external storage has the size of its block.
GetMessageSize(m) ==
  IF object[m].block = None THEN SizeOf(object[m].chars) ELSE object[m].size

--------------------------------------------------------------------------------
(* Checks *)

\* Constraints::CheckCompatible() of a message.
Satisfies(m, c) == object[m].chars <= c.bound

\* Mutant: the terminator is counted on one side only.
ValidTerminatorCounted(h, m, c, strict) ==
  \/ /\ ~strict
     /\ GetMessageSize(m) <= GetExpectedSize(h)
  \/ object[m].chars <= c.bound + 1

\* validate_message(): without `strict` a size within the expected one is enough.
Valid(h, m, c, strict) ==
  \/ /\ ~strict
     /\ GetMessageSize(m) <= GetExpectedSize(h)
  \/ Satisfies(m, c)

\* Mutant: the operands of CheckCompatible() are swapped.
CompatibleSwapped(candidate, baseline) ==
  \/ baseline = None
  \/ /\ candidate # None
     /\ candidate.limit <= baseline.limit \/ baseline.limit = 0
     /\ baseline.bound <= candidate.bound

\* compare_constraints() of two handles' constraints, given a handle of the type.
Compatible(candidate, baseline) ==
  \/ baseline = None
  \/ /\ candidate # None
     /\ candidate.limit <= baseline.limit \/ baseline.limit = 0
     /\ candidate.bound <= baseline.bound

\* What compaction through h wants of a message before it rewrites anything.
Compactable(h, m) ==
  /\ object[m].block # None
  /\ h # Base
  /\ object[m].chars <= handle[h].bound

Undersized(h, m) == object[m].chars < handle[h].bound

Overflows(m) == SizeOf(object[m].chars) > object[m].size

--------------------------------------------------------------------------------
(* Messages and blocks *)

Inline(n) == [block |-> None, size |-> 0, view |-> 0, chars |-> n, outgrown |-> FALSE]

View(b, size, n) == [block |-> b, size |-> size, view |-> n, chars |-> n, outgrown |-> FALSE]

(***************************************************************************)
(* A block holds the number in its length prefix and, once its client has  *)
(* sent it, how it was sent: its size, the length the application had      *)
(* assigned, the constraints it was checked against and the view it had.   *)
(***************************************************************************)
NotSent == [size |-> 0, chars |-> 0, claim |-> None, view |-> 0, outgrown |-> FALSE]

Blank == [number |-> 0, sent |-> NotSent]

Sent(m, size, claim) ==
  [size |-> size, chars |-> object[m].chars, claim |-> claim,
   view |-> object[m].view, outgrown |-> object[m].outgrown]

IsSent(b) == block[b].sent # NotSent

\* What the client notes when a call has ended m and given back a block, if any.
Ended(m, returned) ==
  /\ loan' = [p \in DOMAIN loan \ {m} |-> loan[p]]
  /\ available' = available \cup ({returned} \ {None})
  /\ verdict' = [verdict EXCEPT ![m] = None]

\* ... and when a call has given it a message in block b.
Lent(m, b) ==
  /\ loan' = [p \in DOMAIN loan \cup {m} |-> IF p = m THEN b ELSE loan[p]]
  /\ available' = available \ {b}
  /\ verdict' = [verdict EXCEPT ![m] = None]

--------------------------------------------------------------------------------
Init ==
  /\ handle = [h \in Handles |-> None]
  /\ object = [m \in Messages |-> None]
  /\ block = [b \in Blocks |-> Blank]
  /\ loan = <<>>
  /\ available = Blocks
  /\ verdict = [m \in Messages |-> None]

CreateConstrained(h, c) ==
  /\ handle[h] = None
  /\ handle' = [handle EXCEPT ![h] = c]
  /\ UNCHANGED <<object, block, loan, available, verdict>>

DestroyConstrained(h) ==
  /\ handle[h] # None
  /\ handle' = [handle EXCEPT ![h] = None]
  /\ UNCHANGED <<object, block, loan, available, verdict>>

\* An application makes a message of its own.
NewMessage(m, n) ==
  /\ object[m] = None
  /\ object' = [object EXCEPT ![m] = Inline(n)]
  /\ Lent(m, None)
  /\ UNCHANGED <<handle, block>>

\* Through a view into the block, which is no longer what was sent.
Assign(m, n) ==
  LET b == object[m].block
  IN /\ object[m] # None
     /\ object' = [object EXCEPT ![m].chars = n,
                                 ![m].outgrown = @ \/ (b # None /\ n > object[m].view)]
     /\ block' = [x \in Blocks |-> IF x = b THEN [block[x] EXCEPT !.sent = NotSent] ELSE block[x]]
     /\ verdict' = [verdict EXCEPT ![m] = None]
     /\ UNCHANGED <<handle, loan, available>>

\* apply() stores the prefix of the bound. Without a layout it fails.
ConstructMessageAt(h, b, m) ==
  /\ h # Base
  /\ object[m] = None
  /\ b \in available
  /\ GetExpectedSize(h) <= Capacity
  /\ object' = [object EXCEPT ![m] = View(b, GetExpectedSize(h), handle[h].bound)]
  /\ block' = [block EXCEPT ![b] = [Blank EXCEPT !.number = AsUint32(handle[h].bound + 1)]]
  /\ Lent(m, b)
  /\ UNCHANGED handle

\* Mutant: the parser believes the prefix.
AcceptsUnparsed(c, b) ==
  block[b].number # 0 /\ (c = None \/ block[b].number - 1 <= c.bound)

\* The number in the prefix counts the terminator, and has to fit what was sent and
\* the constraints, if any.
Accepts(c, b) ==
  /\ block[b].number # 0
  /\ SizeOf(block[b].number - 1) <= block[b].sent.size
  /\ c = None \/ block[b].number - 1 <= c.bound

\* Mutant: the refused message is not deleted.
CastMessageAtLeaks(h, b, m) ==
  /\ object[m] = None
  /\ b \in available /\ IsSent(b)
  /\ object' = [object EXCEPT ![m] = View(b, block[b].sent.size, block[b].number - 1)]
  /\ IF Accepts(ConstraintsOf(h), b) THEN Lent(m, b) ELSE UNCHANGED <<loan, available, verdict>>
  /\ UNCHANGED <<handle, block>>

\* What a constrained handle does not accept is deleted again.
CastMessageAt(h, b, m) ==
  /\ object[m] = None
  /\ b \in available /\ IsSent(b)
  /\ IF Accepts(ConstraintsOf(h), b)
     THEN /\ object' = [object EXCEPT ![m] = View(b, block[b].sent.size, block[b].number - 1)]
          /\ Lent(m, b)
     ELSE UNCHANGED <<object, loan, available, verdict>>
  /\ UNCHANGED <<handle, block>>

ValidateMessage(h, m, c, strict) ==
  /\ object[m] # None
  /\ verdict' = [verdict EXCEPT ![m] = IF strict /\ Valid(h, m, c, strict) THEN c ELSE None]
  /\ UNCHANGED <<handle, object, block, loan, available>>

\* Into `storage` bytes of a block, which are then sent. Short storage is left spoilt.
SerializeMessageInto(m, b, storage) ==
  /\ object[m] # None
  /\ b \in available
  /\ storage <= Capacity
  /\ block' = [block EXCEPT ![b] =
                 IF SizeOf(object[m].chars) <= storage
                 THEN [number |-> AsUint32(object[m].chars + 1),
                       sent |-> [Sent(m, storage, verdict[m]) EXCEPT !.view = 0, !.outgrown = FALSE]]
                 ELSE Blank]
  /\ UNCHANGED <<handle, object, loan, available, verdict>>

DestroyMessage(m) ==
  /\ m \in DOMAIN loan
  /\ object' = [object EXCEPT ![m] = None]
  /\ Ended(m, loan[m])
  /\ UNCHANGED <<handle, block>>

\* Consumes the message whether or not it has a block to return.
ReleaseMessage(m) ==
  /\ m \in DOMAIN loan
  /\ object' = [object EXCEPT ![m] = None]
  /\ Ended(m, object[m].block)
  /\ UNCHANGED <<handle, block>>

\* A null region: the client keeps the message.
CompactionRefused(h, m) ==
  /\ m \in DOMAIN loan
  /\ ~Compactable(h, m)
  /\ UNCHANGED vars

\* Here too, but the rewrite has stored its prefix.
CompactionOverflows(h, m) ==
  /\ m \in DOMAIN loan
  /\ Compactable(h, m)
  /\ Undersized(h, m) /\ Overflows(m)
  /\ block' = [block EXCEPT ![object[m].block].number = AsUint32(object[m].chars + 1)]
  /\ UNCHANGED <<handle, object, loan, available, verdict>>

\* Mutant: a message is undersized by its view, not by the handle's bound.
CompactMessageInPlaceByView(h, m) ==
  LET b         == object[m].block
      rewritten == object[m].chars < object[m].view - 1
  IN /\ m \in DOMAIN loan
     /\ Compactable(h, m)
     /\ ~(rewritten /\ Overflows(m))
     /\ block' = [block EXCEPT ![b] =
                    IF rewritten
                    THEN [number |-> AsUint32(object[m].chars + 1),
                          sent |-> Sent(m, SizeOf(object[m].chars), handle[h])]
                    ELSE [@ EXCEPT !.sent = Sent(m, object[m].size, handle[h])]]
     /\ object' = [object EXCEPT ![m] = None]
     /\ Ended(m, b)
     /\ UNCHANGED handle

\* At its bound the block is released as it is, otherwise rewritten; then it is sent.
CompactMessageInPlace(h, m) ==
  LET b         == object[m].block
      rewritten == Undersized(h, m)
  IN /\ m \in DOMAIN loan
     /\ Compactable(h, m)
     /\ ~(rewritten /\ Overflows(m))
     /\ block' = [block EXCEPT ![b] =
                    IF rewritten
                    THEN [number |-> AsUint32(object[m].chars + 1),
                          sent |-> Sent(m, SizeOf(object[m].chars), handle[h])]
                    ELSE [@ EXCEPT !.sent = Sent(m, object[m].size, handle[h])]]
     /\ object' = [object EXCEPT ![m] = None]
     /\ Ended(m, b)
     /\ UNCHANGED handle

Next ==
  \/ \E h \in Handles : DestroyConstrained(h) \/ \E c \in Constraints : CreateConstrained(h, c)
  \/ \E m \in Messages :
       \/ DestroyMessage(m)
       \/ ReleaseMessage(m)
       \/ \E n \in Chars : NewMessage(m, n) \/ Assign(m, n)
       \/ \E h \in Live :
            \/ CompactionRefused(h, m)
            \/ CompactionOverflows(h, m)
            \/ CompactMessageInPlace(h, m)
            \/ \E b \in Blocks : ConstructMessageAt(h, b, m) \/ CastMessageAt(h, b, m)
            \/ \E c \in Constraints, strict \in BOOLEAN : ValidateMessage(h, m, c, strict)
            \/ \E b \in Blocks : SerializeMessageInto(m, b, GetExpectedSize(h))
            \/ \E b \in Blocks : SerializeMessageInto(m, b, GetMessageSize(m))

Spec == Init /\ [][Next]_vars

--------------------------------------------------------------------------------
Sendings ==
  [size : Nat, chars : Nat, claim : Constraints \cup {None}, view : Nat, outgrown : BOOLEAN]

Existing == {m \in Messages : object[m] # None}
Views    == {m \in Existing : object[m].block # None}

\* With the bounds of views: a view lies in its block.
TypeOK ==
  /\ handle \in [Handles -> Constraints \cup {None}]
  /\ object \in [Messages -> Objects \cup {None}]
  /\ \A m \in Views :
       SizeOf(object[m].view) <= object[m].size /\ object[m].size <= Capacity
  /\ block \in [Blocks -> [number : Nat, sent : Sendings]]
  /\ available \subseteq Blocks
  /\ verdict \in [Messages -> Constraints \cup {None}]

(***************************************************************************)
(* "Exactly one of destroy_message or release_message must be called"      *)
(* (message_type_support.h:168) can be kept by a client that goes by what  *)
(* the calls return: the pointers it believes it has to end are those on   *)
(* the heap, compaction refused, cast refused or message without storage   *)
(* included, no message views a block it believes to have back, and no two *)
(* messages view one block.                                                *)
(***************************************************************************)
BooksAgree ==
  /\ loan = [m \in Existing |-> object[m].block]
  /\ \A p, q \in Views : object[p].block = object[q].block => p = q
  /\ available = Blocks \ {object[m].block : m \in Existing}

\* The compacting handle's bound is the view's or above, and the view was big enough.
Covered(s) == ~s.outgrown /\ (s.claim # None => s.claim.bound >= s.view)

(***************************************************************************)
(* Compaction looks at the bounds of the handle it is given, while the     *)
(* block holds the prefix of the view's: as long as the handle is no       *)
(* tighter than the view, a receiver finds the text last assigned, also    *)
(* along a chain of casts, reassignments and compactions, and after        *)
(* refusals.                                                               *)
(***************************************************************************)
SentAsAssigned ==
  \A b \in Blocks :
    IsSent(b) /\ Covered(block[b].sent) => block[b].number - 1 = block[b].sent.chars

(***************************************************************************)
(* compare_constraints() is what two ends agree by: what was compacted or  *)
(* strictly validated under the candidate's constraints is accepted by     *)
(* every cast through a handle with the baseline's.                        *)
(***************************************************************************)
AgreedIsAccepted ==
  \A b \in Blocks, baseline \in Constraints \cup {None} :
    /\ IsSent(b) /\ Covered(block[b].sent) /\ block[b].sent.claim # None
    /\ Compatible(block[b].sent.claim, baseline)
    => Accepts(baseline, b)

(***************************************************************************)
(* Validation and sending agree: what a strict validation against a        *)
(* handle's constraints let pass fits storage of the handle's expected     *)
(* size, and a view of it is not refused by compaction through the handle. *)
(***************************************************************************)
ValidatedGoesThrough ==
  \A m \in Existing, h \in Handles :
    verdict[m] # None /\ handle[h] = verdict[m] =>
      /\ SizeOf(object[m].chars) <= GetExpectedSize(h)
      /\ object[m].block # None /\ ~object[m].outgrown =>
           Compactable(h, m) /\ ~(Undersized(h, m) /\ Overflows(m))
================================================================================
