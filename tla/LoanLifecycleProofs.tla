-------------------------- MODULE LoanLifecycleProofs --------------------------
(***************************************************************************)
(* LoanLifecycle for any number of handles, messages and blocks and any    *)
(* constraints. First its types and the agreement of the client's books    *)
(* with the heap, proved together: that a view lies in its block depends   *)
(* on what was sent from the block before, and that on the books. Then,    *)
(* from ContentInv, what the blocks contain and what that means for those  *)
(* who agreed on constraints.                                              *)
(***************************************************************************)
EXTENDS LoanLifecycle, TLAPS

\* What was sent fits its block.
SendingsFit == \A b \in Blocks : IsSent(b) => block[b].sent.size <= Capacity

LoanInv == TypeOK /\ BooksAgree /\ SendingsFit

--------------------------------------------------------------------------------
LEMMA ConstraintsTyped ==
  ASSUME NEW c \in Constraints
  PROVE  c.bound \in Nat \ {0} /\ c # None
BY LoanAssumption

LEMMA CapacityNatural == Capacity \in Nat
BY LoanAssumption

\* What a prefix stores, and when that is the length itself.
LEMMA LengthsStored ==
  ASSUME NEW n \in Nat
  PROVE  /\ AsUint32(n) \in Nat
         /\ n <= NumberMax => AsUint32(n) = n
<1> DEFINE d == NumberMax + 1
<1>1. d \in Nat /\ d > 0 /\ (n <= NumberMax => n < d) BY NumberAssumption
<1>2. AsUint32(n) = n % d BY DEF AsUint32
<1> HIDE DEF d
<1>3. n % d \in Nat BY <1>1
<1>4. n < d => n % d = n BY <1>1
<1> QED BY <1>1, <1>2, <1>3, <1>4

LEMMA SizesAreNatural ==
  ASSUME NEW n \in Nat
  PROVE  SizeOf(n) \in Nat /\ SizeOf(n) = n + 9
BY DEF SizeOf, HeaderSize, PrefixSize

\* A text that fits a block is as long as its prefix says.
LEMMA BlocksHoldTheirLengths ==
  ASSUME NEW n \in Nat, SizeOf(n) <= Capacity
  PROVE  AsUint32(n + 1) = n + 1
<1>1. n + 1 \in Nat /\ n + 1 <= NumberMax
  BY NumberAssumption, BlockAssumption, CapacityNatural, SizesAreNatural
<1> QED BY <1>1, LengthsStored

LEMMA ViewTyped ==
  ASSUME NEW b \in Blocks \cup {None}, NEW size \in Nat, NEW n \in Nat
  PROVE  /\ View(b, size, n) \in Objects /\ View(b, size, n) # None
         /\ View(b, size, n).block = b
         /\ View(b, size, n).size = size /\ View(b, size, n).view = n
         /\ Inline(n) \in Objects /\ Inline(n) # None /\ Inline(n).block = None
<1>1. View(b, size, n) \in Objects BY DEF View, Objects
<1>2. Inline(n) \in Objects BY DEF Inline, Objects
<1>3. None \notin Objects BY LoanAssumption
<1>4. /\ View(b, size, n).block = b /\ View(b, size, n).size = size
      /\ View(b, size, n).view = n /\ Inline(n).block = None
  BY DEF View, Inline
<1> QED BY <1>1, <1>2, <1>3, <1>4

LEMMA LiveHandles ==
  ASSUME TypeOK, NEW h \in Live, h # Base
  PROVE  h \in Handles /\ handle[h] \in Constraints /\ GetExpectedSize(h) = SizeOf(handle[h].bound)
BY DEF TypeOK, Live, GetExpectedSize

\* A message put into an available block, or into none, is entered into the books.
LEMMA LendingKeepsBooks ==
  ASSUME LoanInv, NEW m \in Messages, NEW b \in Blocks \cup {None}, NEW o \in Objects,
         object[m] = None, o.block = b, b = None \/ b \in available,
         object' = [object EXCEPT ![m] = o], Lent(m, b)
  PROVE  BooksAgree' /\ available' \subseteq Blocks
                     /\ verdict' \in [Messages -> Constraints \cup {None}]
<1> USE DEF LoanInv, TypeOK, BooksAgree, Lent
<1>1. o # None BY LoanAssumption
<1>2. Existing' = Existing \cup {m} BY <1>1 DEF Existing
<1>3. loan' = [p \in Existing' |-> object'[p].block]
  <2>1. DOMAIN loan = Existing OBVIOUS
  <2>2. DOMAIN loan' = Existing' BY <1>2, <2>1
  <2>3. ASSUME NEW p \in Existing' PROVE loan'[p] = object'[p].block
    BY <1>2, <2>1 DEF Existing
  <2> QED BY <2>2, <2>3
<1>4. \A p, q \in Views' : object'[p].block = object'[q].block => p = q
  BY <1>1, <1>2 DEF Views, Existing
<1>5. available' = Blocks \ {object'[p].block : p \in Existing'}
  <2>1. \A p \in Existing : object'[p] = object[p] BY DEF Existing
  <2>2. object'[m].block = b OBVIOUS
  <2>3. {object'[p].block : p \in Existing'} = {object[p].block : p \in Existing} \cup {b}
    BY <1>2, <2>1, <2>2
  <2> QED BY <2>3
<1> QED BY <1>3, <1>4, <1>5

\* A message that is gone has given back its block, and nobody else's.
LEMMA EndingKeepsBooks ==
  ASSUME LoanInv, NEW m \in Existing,
         object' = [object EXCEPT ![m] = None], Ended(m, object[m].block)
  PROVE  BooksAgree' /\ available' \subseteq Blocks
                     /\ verdict' \in [Messages -> Constraints \cup {None}]
<1> USE DEF LoanInv, TypeOK, BooksAgree, Ended
<1>1. m \in Messages /\ object[m] \in Objects BY DEF Existing
<1>2. Existing' = Existing \ {m} BY <1>1 DEF Existing
<1>3. loan' = [p \in Existing' |-> object'[p].block]
  <2>1. DOMAIN loan = Existing OBVIOUS
  <2>2. \A p \in Existing' : object'[p] = object[p] BY <1>2, <1>1 DEF Existing
  <2> QED BY <1>2, <2>1, <2>2
<1>4. \A p, q \in Views' : object'[p].block = object'[q].block => p = q
  BY <1>1, <1>2 DEF Views, Existing
<1>5. available' = Blocks \ {object'[p].block : p \in Existing'}
  <2>1. \A p \in Existing' : object'[p] = object[p] BY <1>2, <1>1 DEF Existing
  <2>2. {object'[p].block : p \in Existing'} = {object[p].block : p \in Existing \ {m}}
    BY <1>2, <2>1
  <2>3. \A p \in Existing \ {m} : object[p].block = object[m].block => object[m].block = None
    BY DEF Views
  <2>4. None \notin Blocks BY LoanAssumption
  <2>5. object[m].block \in Blocks \cup {None} BY <1>1 DEF Objects
  <2>6. available' = (Blocks \ {object[p].block : p \in Existing}) \cup ({object[m].block} \ {None})
    OBVIOUS
  <2>7. ASSUME NEW b \in Blocks
        PROVE  b \in available' <=> b \notin {object[p].block : p \in Existing \ {m}}
    <3>1. CASE b = object[m].block BY <3>1, <2>3, <2>4, <2>6
    <3>2. CASE b # object[m].block BY <3>2, <2>6
    <3> QED BY <3>1, <3>2
  <2>8. available' \subseteq Blocks BY <2>5, <2>6
  <2> QED BY <2>2, <2>7, <2>8
<1> QED BY <1>1, <1>3, <1>4, <1>5 DEF Objects

\* Nothing in the books is about what messages and blocks contain.
LEMMA BooksIgnoreContent ==
  ASSUME LoanInv, UNCHANGED <<loan, available>>,
         object' \in [Messages -> Objects \cup {None}],
         \A p \in Messages : /\ (object'[p] = None) = (object[p] = None)
                             /\ object[p] # None => object'[p].block = object[p].block
  PROVE  BooksAgree' /\ Existing' = Existing /\ Views' = Views
<1>1. Existing' = Existing BY DEF Existing
<1>2. Views' = Views BY <1>1 DEF Views, Existing
<1>3. \A p \in Existing : object'[p].block = object[p].block BY DEF Existing
<1>4. {object'[p].block : p \in Existing'} = {object[p].block : p \in Existing} BY <1>1, <1>3
<1>5. [p \in Existing' |-> object'[p].block] = [p \in Existing |-> object[p].block]
  BY <1>1, <1>3
<1>6. \A p, q \in Views' : object'[p].block = object'[q].block => p = q
  BY <1>2, <1>3 DEF LoanInv, BooksAgree, Views
<1> QED BY <1>1, <1>2, <1>4, <1>5, <1>6 DEF LoanInv, BooksAgree

LEMMA EndingKeepsViews ==
  ASSUME LoanInv, NEW m \in Existing, object' = [object EXCEPT ![m] = None]
  PROVE  /\ object' \in [Messages -> Objects \cup {None}]
         /\ \A p \in Views' : p \in Views /\ p # m /\ object'[p] = object[p]
BY DEF LoanInv, TypeOK, Views, Existing

LEMMA LendingKeepsViews ==
  ASSUME LoanInv, NEW m \in Messages, NEW o \in Objects, object' = [object EXCEPT ![m] = o]
  PROVE  /\ object' \in [Messages -> Objects \cup {None}]
         /\ object'[m] = o
         /\ \A p \in Views' : p # m => p \in Views /\ object'[p] = object[p]
BY DEF LoanInv, TypeOK, Views, Existing

LEMMA ViewsAreTyped ==
  ASSUME LoanInv, NEW m \in Existing
  PROVE  /\ m \in Messages /\ object[m] \in Objects /\ object[m].chars \in Nat
         /\ object[m].view \in Nat /\ object[m].size \in Nat
         /\ object[m].block \in Blocks \cup {None}
         /\ object[m].block # None => object[m].block \in Blocks /\ m \in Views
<1>1. m \in Messages /\ object[m] \in Objects BY DEF LoanInv, TypeOK, Existing
<1> QED BY <1>1 DEF Objects, Views

LEMMA SendingTyped ==
  ASSUME LoanInv, NEW m \in Existing, NEW size \in Nat, NEW c \in Constraints \cup {None}
  PROVE  /\ Sent(m, size, c) \in Sendings /\ Sent(m, size, c).size = size
         /\ [Sent(m, size, c) EXCEPT !.view = 0, !.outgrown = FALSE] \in Sendings
         /\ [Sent(m, size, c) EXCEPT !.view = 0, !.outgrown = FALSE].size = size
         /\ NotSent \in Sendings
<1>1. object[m] \in Objects BY ViewsAreTyped
<1>2. object[m].outgrown \in BOOLEAN /\ object[m].chars \in Nat /\ object[m].view \in Nat
  BY <1>1 DEF Objects
<1> QED BY <1>2 DEF Sent, Sendings, NotSent

LEMMA OwnerIsUnique ==
  ASSUME LoanInv, NEW m \in Views
  PROVE  /\ object[m].block \notin available
         /\ \A p \in Views : object[p].block = object[m].block => p = m
         /\ m \in Existing /\ DOMAIN loan = Existing /\ loan[m] = object[m].block
BY DEF LoanInv, BooksAgree, Views

--------------------------------------------------------------------------------
(* One lemma for each operation *)

LEMMA HandlesChange ==
  ASSUME LoanInv, handle' \in [Handles -> Constraints \cup {None}],
         UNCHANGED <<object, block, loan, available>>,
         verdict' \in [Messages -> Constraints \cup {None}]
  PROVE  LoanInv'
BY DEF LoanInv, TypeOK, BooksAgree, SendingsFit, Existing, Views, IsSent

LEMMA NewMessageKeeps ==
  ASSUME LoanInv, NEW m \in Messages, NEW n \in Chars, NewMessage(m, n)
  PROVE  LoanInv'
<1>1. n \in Nat BY LoanAssumption
<1>2. Inline(n) \in Objects /\ Inline(n).block = None BY <1>1, ViewTyped
<1>3. object' = [object EXCEPT ![m] = Inline(n)] /\ object[m] = None /\ Lent(m, None)
  BY DEF NewMessage
<1>4. /\ BooksAgree' /\ available' \subseteq Blocks
      /\ verdict' \in [Messages -> Constraints \cup {None}]
  BY <1>2, <1>3, LendingKeepsBooks
<1>5. /\ object' \in [Messages -> Objects \cup {None}] /\ object'[m] = Inline(n)
      /\ \A p \in Views' : p # m => p \in Views /\ object'[p] = object[p]
  BY <1>2, <1>3, LendingKeepsViews
<1>6. m \notin Views' BY <1>2, <1>5 DEF Views
<1>7. UNCHANGED <<handle, block>> BY DEF NewMessage
<1>8. TypeOK' BY <1>4, <1>5, <1>6, <1>7 DEF LoanInv, TypeOK
<1>9. SendingsFit' BY <1>5, <1>6, <1>7 DEF LoanInv, SendingsFit, IsSent
<1> QED BY <1>4, <1>8, <1>9 DEF LoanInv

LEMMA ConstructMessageAtKeeps ==
  ASSUME LoanInv, NEW h \in Live, NEW b \in Blocks, NEW m \in Messages,
         ConstructMessageAt(h, b, m)
  PROVE  LoanInv'
<1> DEFINE n == handle[h].bound
<1> DEFINE o == View(b, SizeOf(n), n)
<1>1. h \in Handles /\ handle[h] \in Constraints /\ GetExpectedSize(h) = SizeOf(n)
  BY LiveHandles DEF ConstructMessageAt, LoanInv
<1>2. n \in Nat /\ SizeOf(n) \in Nat /\ SizeOf(n) <= Capacity
  BY <1>1, ConstraintsTyped, SizesAreNatural DEF ConstructMessageAt
<1>3. o \in Objects /\ o.block = b /\ o.size = SizeOf(n) /\ o.view = n BY <1>2, ViewTyped
<1>4. /\ object' = [object EXCEPT ![m] = o] /\ object[m] = None /\ b \in available /\ Lent(m, b)
      /\ block' = [block EXCEPT ![b] = [Blank EXCEPT !.number = AsUint32(n + 1)]]
      /\ UNCHANGED handle
  BY <1>1 DEF ConstructMessageAt
<1> HIDE DEF o, n
<1>5. /\ BooksAgree' /\ available' \subseteq Blocks
      /\ verdict' \in [Messages -> Constraints \cup {None}]
  BY <1>3, <1>4, LendingKeepsBooks
<1>6. /\ object' \in [Messages -> Objects \cup {None}] /\ object'[m] = o
      /\ \A p \in Views' : p # m => p \in Views /\ object'[p] = object[p]
  BY <1>3, <1>4, LendingKeepsViews
<1>7. /\ block'[b].sent = NotSent
      /\ block' \in [Blocks -> [number : Nat, sent : Sendings]]
      /\ \A x \in Blocks : x # b => block'[x] = block[x]
  <2>1. NotSent \in Sendings BY DEF NotSent, Sendings
  <2>2. [Blank EXCEPT !.number = AsUint32(n + 1)] = [number |-> AsUint32(n + 1), sent |-> NotSent] BY DEF Blank
  <2>3. AsUint32(n + 1) \in Nat BY <1>2, LengthsStored
  <2> QED BY <1>4, <2>1, <2>2, <2>3 DEF LoanInv, TypeOK
<1>8. TypeOK' BY <1>2, <1>3, <1>4, <1>5, <1>6, <1>7 DEF LoanInv, TypeOK
<1>9. \A x \in Blocks : IsSent(x)' => block'[x].sent.size <= Capacity
  BY <1>7 DEF LoanInv, SendingsFit, IsSent
<1> QED BY <1>5, <1>8, <1>9 DEF LoanInv, SendingsFit

LEMMA CastMessageAtKeeps ==
  ASSUME LoanInv, NEW h \in Live, NEW b \in Blocks, NEW m \in Messages,
         CastMessageAt(h, b, m)
  PROVE  LoanInv'
<1> DEFINE n == block[b].number - 1
<1> DEFINE size == block[b].sent.size
<1> DEFINE o == View(b, size, n)
<1>1. UNCHANGED <<handle, block>> /\ b \in available /\ object[m] = None /\ IsSent(b)
  BY DEF CastMessageAt
<1>2. block[b].number \in Nat /\ size \in Nat
  BY DEF LoanInv, TypeOK, Sendings
<1>3. size <= Capacity BY <1>1 DEF LoanInv, SendingsFit
<1>4. CASE ~Accepts(ConstraintsOf(h), b)
  <2>1. UNCHANGED <<object, loan, available, verdict>> BY <1>4 DEF CastMessageAt
  <2> QED BY <1>1, <2>1, HandlesChange DEF LoanInv, TypeOK
<1>5. CASE Accepts(ConstraintsOf(h), b)
  <2>1. object' = [object EXCEPT ![m] = o] /\ Lent(m, b) BY <1>5 DEF CastMessageAt
  <2>2. n \in Nat /\ SizeOf(n) <= size BY <1>2, <1>5 DEF Accepts
  <2>3. o \in Objects /\ o.block = b /\ o.size = size /\ o.view = n BY <1>2, <2>2, ViewTyped
  <2> HIDE DEF o
  <2>4. /\ BooksAgree' /\ available' \subseteq Blocks
        /\ verdict' \in [Messages -> Constraints \cup {None}]
    BY <1>1, <2>1, <2>3, LendingKeepsBooks
  <2>5. /\ object' \in [Messages -> Objects \cup {None}] /\ object'[m] = o
        /\ \A p \in Views' : p # m => p \in Views /\ object'[p] = object[p]
    BY <2>1, <2>3, LendingKeepsViews
  <2>6. \A p \in Views' : SizeOf(object'[p].view) <= object'[p].size /\ object'[p].size <= Capacity
    BY <1>3, <2>2, <2>3, <2>5 DEF LoanInv, TypeOK
  <2>7. TypeOK' BY <1>1, <2>4, <2>5, <2>6 DEF LoanInv, TypeOK
  <2>8. SendingsFit' BY <1>1, <2>3, <2>5 DEF LoanInv, SendingsFit, IsSent
  <2> QED BY <2>4, <2>7, <2>8 DEF LoanInv
<1> QED BY <1>4, <1>5

LEMMA AssignKeeps ==
  ASSUME LoanInv, NEW m \in Messages, NEW n \in Chars, Assign(m, n)
  PROVE  LoanInv'
<1>1. n \in Nat /\ m \in Existing BY LoanAssumption DEF Assign, Existing
<1>2. object[m] \in Objects BY <1>1, ViewsAreTyped
<1> DEFINE grown == object[m].outgrown \/ (object[m].block # None /\ n > object[m].view)
<1> DEFINE o == [[object[m] EXCEPT !.chars = n] EXCEPT !.outgrown = grown]
<1>3. grown \in BOOLEAN BY <1>2 DEF Objects
<1>4. object' = [object EXCEPT ![m] = o] BY DEF Assign
<1> HIDE DEF grown
<1>5. /\ o \in Objects /\ o.block = object[m].block /\ o.size = object[m].size
      /\ o.view = object[m].view
  BY <1>1, <1>2, <1>3 DEF Objects
<1> HIDE DEF o
<1>6. o # None /\ object[m] # None BY <1>1, <1>5, LoanAssumption DEF Existing
<1>7. /\ object' \in [Messages -> Objects \cup {None}] /\ object'[m] = o
      /\ \A p \in Messages : p # m => object'[p] = object[p]
  BY <1>4, <1>5 DEF LoanInv, TypeOK
<1>8. UNCHANGED <<handle, loan, available>> /\ verdict' \in [Messages -> Constraints \cup {None}]
  BY DEF Assign, LoanInv, TypeOK
<1>9. BooksAgree' /\ Views' = Views
  BY <1>5, <1>6, <1>7, <1>8, BooksIgnoreContent
<1>11. block' \in [Blocks -> [number : Nat, sent : Sendings]]
  <2>1. NotSent \in Sendings BY DEF NotSent, Sendings
  <2> QED BY <2>1 DEF Assign, LoanInv, TypeOK
<1>12. \A p \in Views : /\ object'[p].view = object[p].view /\ object'[p].size = object[p].size
                         /\ object'[p].block = object[p].block /\ object[p].block \in Blocks
  BY <1>5, <1>7, ViewsAreTyped DEF Views, Existing
<1>13. TypeOK' BY <1>7, <1>8, <1>9, <1>11, <1>12 DEF LoanInv, TypeOK
<1>14. \A x \in Blocks : IsSent(x)' => block'[x].sent.size <= Capacity
  <2>1. \A x \in Blocks : block'[x].sent = block[x].sent \/ block'[x].sent = NotSent
    BY DEF Assign, LoanInv, TypeOK
  <2> QED BY <2>1 DEF LoanInv, SendingsFit, IsSent
<1> QED BY <1>9, <1>13, <1>14 DEF LoanInv, SendingsFit

LEMMA SerializeMessageIntoKeeps ==
  ASSUME LoanInv, NEW m \in Messages, NEW b \in Blocks, NEW storage \in Nat,
         SerializeMessageInto(m, b, storage)
  PROVE  LoanInv'
<1>1. /\ m \in Existing /\ b \in available /\ storage <= Capacity
      /\ UNCHANGED <<handle, object, loan, available, verdict>>
  BY DEF SerializeMessageInto, Existing
<1>2. AsUint32(object[m].chars + 1) \in Nat BY <1>1, ViewsAreTyped, LengthsStored
<1>3. verdict[m] \in Constraints \cup {None} BY DEF LoanInv, TypeOK
<1> DEFINE sent == [Sent(m, storage, verdict[m]) EXCEPT !.view = 0, !.outgrown = FALSE]
<1>4. sent \in Sendings /\ sent.size = storage /\ NotSent \in Sendings
  BY <1>1, <1>3, SendingTyped
<1>5. PICK x \in {[number |-> AsUint32(object[m].chars + 1), sent |-> sent], Blank} :
        block' = [block EXCEPT ![b] = x]
  BY DEF SerializeMessageInto
<1> HIDE DEF sent
<1>6. /\ x \in [number : Nat, sent : Sendings]
      /\ x.sent # NotSent => x.sent.size <= Capacity
  BY <1>1, <1>2, <1>4, <1>5 DEF Blank
<1>7. /\ block' \in [Blocks -> [number : Nat, sent : Sendings]] /\ block'[b] = x
      /\ \A y \in Blocks : y # b => block'[y] = block[y]
  BY <1>5, <1>6 DEF LoanInv, TypeOK
<1>8. TypeOK' BY <1>1, <1>7 DEF LoanInv, TypeOK, Views, Existing
<1>9. BooksAgree' BY <1>1 DEF LoanInv, BooksAgree, Views, Existing
<1>10. \A p \in Views : object[p].block \in Blocks /\ object[p].block # b
  BY <1>1, OwnerIsUnique, ViewsAreTyped DEF Views
<1>11. SendingsFit'
  BY <1>1, <1>6, <1>7, <1>10 DEF LoanInv, SendingsFit, IsSent, Views, Existing
<1> QED BY <1>8, <1>9, <1>11 DEF LoanInv

LEMMA MessageEnds ==
  ASSUME LoanInv, NEW m \in Existing, object' = [object EXCEPT ![m] = None],
         Ended(m, object[m].block), UNCHANGED handle,
         block' \in [Blocks -> [number : Nat, sent : Sendings]],
         \A x \in Blocks : x # object[m].block => block'[x] = block[x],
         \A x \in Blocks : IsSent(x)' => block'[x].sent.size <= Capacity
  PROVE  LoanInv'
<1>1. /\ BooksAgree' /\ available' \subseteq Blocks
      /\ verdict' \in [Messages -> Constraints \cup {None}]
  BY EndingKeepsBooks
<1>2. /\ object' \in [Messages -> Objects \cup {None}]
      /\ \A p \in Views' : p \in Views /\ p # m /\ object'[p] = object[p]
  BY EndingKeepsViews
<1>3. TypeOK' BY <1>1, <1>2 DEF LoanInv, TypeOK
<1> QED BY <1>1, <1>3 DEF LoanInv, SendingsFit

LEMMA DestroyAndReleaseKeep ==
  ASSUME LoanInv, NEW m \in Messages, DestroyMessage(m) \/ ReleaseMessage(m)
  PROVE  LoanInv'
<1>1. m \in Existing /\ loan[m] = object[m].block
  BY DEF DestroyMessage, ReleaseMessage, LoanInv, BooksAgree
<1>2. /\ object' = [object EXCEPT ![m] = None] /\ Ended(m, object[m].block)
      /\ UNCHANGED <<handle, block>>
  BY <1>1 DEF DestroyMessage, ReleaseMessage
<1>3. \A x \in Blocks : IsSent(x)' => block'[x].sent.size <= Capacity
  BY <1>2 DEF LoanInv, SendingsFit, IsSent
<1>4. block' \in [Blocks -> [number : Nat, sent : Sendings]] BY <1>2 DEF LoanInv, TypeOK
<1> QED BY <1>1, <1>2, <1>3, <1>4, MessageEnds

LEMMA CompactMessageInPlaceKeeps ==
  ASSUME LoanInv, NEW h \in Live, NEW m \in Messages, CompactMessageInPlace(h, m)
  PROVE  LoanInv'
<1> DEFINE b == object[m].block
<1>1. m \in Existing /\ b # None /\ h # Base
  BY DEF CompactMessageInPlace, Compactable, LoanInv, BooksAgree
<1>2. /\ b \in Blocks /\ m \in Views /\ object[m].chars \in Nat /\ object[m].size \in Nat
      /\ object[m].size <= Capacity
  BY <1>1, ViewsAreTyped DEF LoanInv, TypeOK
<1>3. handle[h] \in Constraints BY <1>1, LiveHandles DEF LoanInv
<1>4. /\ object' = [object EXCEPT ![m] = None] /\ Ended(m, b) /\ UNCHANGED handle
  BY DEF CompactMessageInPlace
<1>5. PICK number \in Nat, size \in Nat :
        /\ size <= Capacity
        /\ block' = [block EXCEPT ![b] = [number |-> number, sent |-> Sent(m, size, handle[h])]]
  <2>1. CASE Undersized(h, m)
    <3>1. SizeOf(object[m].chars) \in Nat /\ SizeOf(object[m].chars) <= object[m].size
      BY <2>1, <1>2, SizesAreNatural DEF CompactMessageInPlace, Overflows
    <3>2. block' = [block EXCEPT ![b] = [number |-> AsUint32(object[m].chars + 1),
                                          sent |-> Sent(m, SizeOf(object[m].chars), handle[h])]]
      BY <2>1 DEF CompactMessageInPlace
    <3>3. SizeOf(object[m].chars) <= Capacity BY <3>1, <1>2, CapacityNatural
    <3>4. AsUint32(object[m].chars + 1) \in Nat BY <1>2, LengthsStored
    <3> HIDE DEF b
    <3> QED BY <3>1, <3>2, <3>3, <3>4
  <2>2. CASE ~Undersized(h, m)
    <3>1. block' = [block EXCEPT ![b] = [block[b] EXCEPT !.sent = Sent(m, object[m].size, handle[h])]]
      BY <2>2 DEF CompactMessageInPlace
    <3>2. block[b] = [number |-> block[b].number, sent |-> block[b].sent] /\ block[b].number \in Nat
      BY <1>2 DEF LoanInv, TypeOK
    <3>3. [block[b] EXCEPT !.sent = Sent(m, object[m].size, handle[h])]
            = [number |-> block[b].number, sent |-> Sent(m, object[m].size, handle[h])]
      BY <3>2
    <3> HIDE DEF b
    <3> QED BY <3>1, <3>2, <3>3, <1>2
  <2> QED BY <2>1, <2>2
<1>6. Sent(m, size, handle[h]) \in Sendings /\ Sent(m, size, handle[h]).size = size
  BY <1>1, <1>3, SendingTyped
<1>7. /\ block' \in [Blocks -> [number : Nat, sent : Sendings]]
      /\ block'[b].sent.size <= Capacity
      /\ \A x \in Blocks : x # b => block'[x] = block[x]
  BY <1>2, <1>5, <1>6 DEF LoanInv, TypeOK
<1>8. \A x \in Blocks : IsSent(x)' => block'[x].sent.size <= Capacity
  BY <1>7 DEF LoanInv, SendingsFit, IsSent
<1> QED BY <1>1, <1>4, <1>7, <1>8, MessageEnds

\* The prefix is rewritten, in a block that stays with its message.
LEMMA CompactionOverflowsKeeps ==
  ASSUME LoanInv, NEW h \in Live, NEW m \in Messages, CompactionOverflows(h, m)
  PROVE  LoanInv'
<1> DEFINE b == object[m].block
<1> DEFINE number == AsUint32(object[m].chars + 1)
<1>1. m \in Existing /\ b # None
  BY DEF CompactionOverflows, Compactable, LoanInv, BooksAgree
<1>2. b \in Blocks /\ number \in Nat
  BY <1>1, ViewsAreTyped, LengthsStored
<1>3. /\ block' = [block EXCEPT ![b].number = number]
      /\ UNCHANGED <<handle, object, loan, available, verdict>>
  BY DEF CompactionOverflows
<1> HIDE DEF b, number
<1>4. /\ block' \in [Blocks -> [number : Nat, sent : Sendings]]
      /\ \A x \in Blocks : block'[x].sent = block[x].sent
  BY <1>2, <1>3 DEF LoanInv, TypeOK
<1>5. TypeOK' BY <1>3, <1>4 DEF LoanInv, TypeOK, Views, Existing
<1>6. BooksAgree' BY <1>3 DEF LoanInv, BooksAgree, Views, Existing
<1>7. SendingsFit' BY <1>4 DEF LoanInv, SendingsFit, IsSent
<1> QED BY <1>5, <1>6, <1>7 DEF LoanInv

LEMMA HandleOperationsKeep ==
  ASSUME LoanInv, NEW h \in Handles,
         DestroyConstrained(h) \/ \E c \in Constraints : CreateConstrained(h, c)
  PROVE  LoanInv'
<1>1. handle' \in [Handles -> Constraints \cup {None}]
  BY DEF DestroyConstrained, CreateConstrained, LoanInv, TypeOK
<1>2. UNCHANGED <<object, block, loan, available, verdict>>
  BY DEF DestroyConstrained, CreateConstrained
<1> QED BY <1>1, <1>2, HandlesChange DEF LoanInv, TypeOK

LEMMA ValidateMessageKeeps ==
  ASSUME LoanInv, NEW h \in Live, NEW m \in Messages, NEW c \in Constraints,
         NEW strict \in BOOLEAN, ValidateMessage(h, m, c, strict)
  PROVE  LoanInv'
<1>1. verdict' \in [Messages -> Constraints \cup {None}]
  BY DEF ValidateMessage, LoanInv, TypeOK
<1>2. UNCHANGED <<handle, object, block, loan, available>> BY DEF ValidateMessage
<1> QED BY <1>1, <1>2, HandlesChange DEF LoanInv, TypeOK

\* The storage a client serializes into is of a size the calls report.
LEMMA StorageIsNatural ==
  ASSUME LoanInv
  PROVE  /\ \A h \in Live : GetExpectedSize(h) \in Nat
         /\ \A m \in Existing : GetMessageSize(m) \in Nat
<1>1. ASSUME NEW h \in Live PROVE GetExpectedSize(h) \in Nat
  <2>1. CASE h = Base BY <2>1 DEF GetExpectedSize
  <2>2. CASE h # Base
    <3>1. handle[h] \in Constraints /\ GetExpectedSize(h) = SizeOf(handle[h].bound)
      BY <2>2, LiveHandles DEF LoanInv
    <3> QED BY <3>1, ConstraintsTyped, SizesAreNatural
  <2> QED BY <2>1, <2>2
<1>2. ASSUME NEW m \in Existing PROVE GetMessageSize(m) \in Nat
  BY ViewsAreTyped, SizesAreNatural DEF GetMessageSize
<1> QED BY <1>1, <1>2

LEMMA InitEstablishes == Init => LoanInv
<1> SUFFICES ASSUME Init PROVE LoanInv OBVIOUS
<1> USE DEF Init
<1>1. Existing = {} /\ Views = {} BY DEF Existing, Views
<1>2. Blank \in [number : Nat, sent : Sendings] /\ Blank.sent = NotSent
  BY DEF Blank, NotSent, Sendings
<1>3. TypeOK BY <1>1, <1>2 DEF TypeOK
<1>4. loan = [m \in Existing |-> object[m].block]
  <2>1. DOMAIN loan = {} OBVIOUS
  <2> QED BY <1>1, <2>1
<1>5. BooksAgree BY <1>1, <1>4 DEF BooksAgree
<1>6. SendingsFit BY <1>1, <1>2 DEF SendingsFit, IsSent
<1> QED BY <1>3, <1>5, <1>6 DEF LoanInv

LEMMA NextKeeps == LoanInv /\ [Next]_vars => LoanInv'
<1> SUFFICES ASSUME LoanInv, [Next]_vars PROVE LoanInv' OBVIOUS
<1>1. ASSUME UNCHANGED vars PROVE LoanInv'
  BY <1>1, HandlesChange DEF vars, LoanInv, TypeOK
<1>2. ASSUME NEW h \in Handles,
             DestroyConstrained(h) \/ \E c \in Constraints : CreateConstrained(h, c)
      PROVE  LoanInv'
  BY <1>2, HandleOperationsKeep
<1>3. ASSUME NEW m \in Messages,
             \/ DestroyMessage(m)
             \/ ReleaseMessage(m)
             \/ \E n \in Chars : NewMessage(m, n) \/ Assign(m, n)
      PROVE  LoanInv'
  BY <1>3, DestroyAndReleaseKeep, NewMessageKeeps, AssignKeeps
<1>4. ASSUME NEW m \in Messages, NEW h \in Live,
             \/ CompactionRefused(h, m)
             \/ CompactionOverflows(h, m)
             \/ CompactMessageInPlace(h, m)
      PROVE  LoanInv'
  <2>1. CASE CompactionRefused(h, m) BY <2>1, <1>1 DEF CompactionRefused
  <2>2. CASE CompactionOverflows(h, m) BY <2>2, CompactionOverflowsKeeps
  <2>3. CASE CompactMessageInPlace(h, m) BY <2>3, CompactMessageInPlaceKeeps
  <2> QED BY <1>4, <2>1, <2>2, <2>3
<1>5. ASSUME NEW m \in Messages, NEW h \in Live,
             \E b \in Blocks : ConstructMessageAt(h, b, m) \/ CastMessageAt(h, b, m)
      PROVE  LoanInv'
  BY <1>5, ConstructMessageAtKeeps, CastMessageAtKeeps
<1>6. ASSUME NEW m \in Messages, NEW h \in Live,
             \E c \in Constraints, strict \in BOOLEAN : ValidateMessage(h, m, c, strict)
      PROVE  LoanInv'
  BY <1>6, ValidateMessageKeeps
<1>7. ASSUME NEW m \in Messages, NEW h \in Live, NEW b \in Blocks,
             \/ SerializeMessageInto(m, b, GetExpectedSize(h))
             \/ SerializeMessageInto(m, b, GetMessageSize(m))
      PROVE  LoanInv'
  <2>1. m \in Existing BY <1>7 DEF SerializeMessageInto, Existing
  <2>2. GetExpectedSize(h) \in Nat /\ GetMessageSize(m) \in Nat BY <2>1, StorageIsNatural
  <2> QED BY <1>7, <2>2, SerializeMessageIntoKeeps
<1>8. CASE Next BY <1>8, <1>2, <1>3, <1>4, <1>5, <1>6, <1>7 DEF Next
<1> QED BY <1>1, <1>8

--------------------------------------------------------------------------------
LEMMA LoanInvHolds == Spec => []LoanInv
BY InitEstablishes, NextKeeps, PTL DEF Spec

(***************************************************************************)
(* Whatever clients do with handles, messages and blocks through the calls *)
(* of ext_message_type_support.cpp and demo_c.cpp, every view lies in the  *)
(* block it was lent, also where the block's prefix was written by another *)
(* handle or left behind by a compaction that failed.                      *)
(***************************************************************************)
THEOREM LoanTypeCorrect == Spec => []TypeOK
BY LoanInvHolds, PTL DEF LoanInv

(***************************************************************************)
(* A client that goes by what the calls return always knows which messages *)
(* it has to end and which blocks it may use (the ownership contract of    *)
(* message_type_support.h): nothing leaks and no block is viewed twice or  *)
(* used while it is viewed.                                                *)
(***************************************************************************)
THEOREM BooksAlwaysAgree == Spec => []BooksAgree
BY LoanInvHolds, PTL DEF LoanInv

--------------------------------------------------------------------------------
(* What messages, blocks and verdicts contain *)

\* A verdict is about the text the message still has.
VerdictsHold ==
  \A m \in Existing : verdict[m] # None => object[m].chars <= verdict[m].bound

\* As long as the text is in its view, the block has the prefix of the view; behind
\* a text that is not, the block is not what was sent any more.
ViewsHold ==
  \A m \in Views :
    /\ ~object[m].outgrown => /\ object[m].chars <= object[m].view
                              /\ block[object[m].block].number = object[m].view + 1
    /\ object[m].outgrown => ~IsSent(object[m].block)

\* The number to be read is that of the text, which fits and is as claimed.
Delivered(x) ==
  /\ x.number = x.sent.chars + 1
  /\ SizeOf(x.sent.chars) <= x.sent.size
  /\ x.sent.claim # None => x.sent.chars <= x.sent.claim.bound

Delivers(x) == x.sent # NotSent /\ Covered(x.sent) => Delivered(x)

SentHolds == \A b \in Blocks : Delivers(block[b])

ContentInv == VerdictsHold /\ ViewsHold /\ SentHolds

\* Nothing changes but which handles there are, and who may be told about it.
LEMMA ContentUntouched ==
  ASSUME ContentInv, UNCHANGED <<object, block, verdict>>
  PROVE  ContentInv'
BY DEF ContentInv, VerdictsHold, ViewsHold, SentHolds, Existing, Views, IsSent

LEMMA ValidateContent ==
  ASSUME LoanInv, ContentInv, NEW h \in Live, NEW m \in Messages, NEW c \in Constraints,
         NEW strict \in BOOLEAN, ValidateMessage(h, m, c, strict)
  PROVE  ContentInv'
<1>1. UNCHANGED <<object, block>> BY DEF ValidateMessage
<1>2. \/ verdict' = [verdict EXCEPT ![m] = None]
      \/ verdict' = [verdict EXCEPT ![m] = c] /\ object[m].chars <= c.bound
  BY DEF ValidateMessage, Valid, Satisfies
<1>3. VerdictsHold'
  BY <1>1, <1>2 DEF ContentInv, VerdictsHold, Existing, LoanInv, TypeOK
<1> QED BY <1>1, <1>3 DEF ContentInv, ViewsHold, SentHolds, Existing, Views, IsSent

\* A message lent has no verdict, the others keep theirs.
LEMMA LentVerdicts ==
  ASSUME LoanInv, ContentInv, NEW m \in Messages, NEW b, NEW o \in Objects,
         object' = [object EXCEPT ![m] = o], Lent(m, b)
  PROVE  VerdictsHold'
<1>1. /\ object'[m] = o /\ verdict'[m] = None
      /\ \A p \in Messages : p # m => object'[p] = object[p] /\ verdict'[p] = verdict[p]
  BY DEF Lent, LoanInv, TypeOK
<1>2. \A p \in Existing' : p \in Messages /\ (p # m => p \in Existing)
  BY <1>1 DEF Existing
<1> QED BY <1>1, <1>2 DEF ContentInv, VerdictsHold

LEMMA NewMessageContent ==
  ASSUME LoanInv, ContentInv, NEW m \in Messages, NEW n \in Chars, NewMessage(m, n)
  PROVE  ContentInv'
<1>1. n \in Nat BY LoanAssumption
<1>2. Inline(n) \in Objects /\ Inline(n).block = None BY <1>1, ViewTyped
<1>3. object' = [object EXCEPT ![m] = Inline(n)] /\ Lent(m, None) /\ UNCHANGED block
  BY DEF NewMessage
<1>4. VerdictsHold' BY <1>2, <1>3, LentVerdicts
<1>5. \A p \in Views' : p \in Views /\ object'[p] = object[p]
  BY <1>2, <1>3, LendingKeepsViews DEF Views
<1> QED BY <1>3, <1>4, <1>5 DEF ContentInv, ViewsHold, SentHolds, IsSent

LEMMA ConstructContent ==
  ASSUME LoanInv, ContentInv, NEW h \in Live, NEW b \in Blocks, NEW m \in Messages,
         ConstructMessageAt(h, b, m)
  PROVE  ContentInv'
<1> DEFINE n == handle[h].bound
<1> DEFINE o == View(b, SizeOf(n), n)
<1>1. h \in Handles /\ handle[h] \in Constraints /\ GetExpectedSize(h) = SizeOf(n)
  BY LiveHandles DEF ConstructMessageAt, LoanInv
<1>2. n \in Nat /\ SizeOf(n) \in Nat /\ AsUint32(n + 1) = n + 1
  <2>1. n \in Nat /\ SizeOf(n) \in Nat BY <1>1, ConstraintsTyped, SizesAreNatural
  <2>2. SizeOf(n) <= Capacity BY <1>1 DEF ConstructMessageAt
  <2> QED BY <2>1, <2>2, BlocksHoldTheirLengths
<1>3. /\ o \in Objects /\ o.block = b /\ o.view = n /\ o.chars = n /\ ~o.outgrown
  BY <1>2, ViewTyped DEF View
<1>4. /\ object' = [object EXCEPT ![m] = o] /\ b \in available /\ Lent(m, b)
      /\ block' = [block EXCEPT ![b] = [Blank EXCEPT !.number = n + 1]]
  BY <1>1, <1>2 DEF ConstructMessageAt
<1> HIDE DEF o, n
<1>5. VerdictsHold' BY <1>3, <1>4, LentVerdicts
<1>6. /\ object'[m] = o
      /\ \A p \in Views' : p # m => p \in Views /\ object'[p] = object[p]
  BY <1>3, <1>4, LendingKeepsViews
<1>7. /\ block'[b].number = n + 1 /\ block'[b].sent = NotSent
      /\ \A x \in Blocks : x # b => block'[x] = block[x]
  BY <1>2, <1>4 DEF LoanInv, TypeOK, Blank
<1>8. SentHolds' BY <1>7 DEF ContentInv, SentHolds, Delivers
<1>9. \A p \in Views : object[p].block \in Blocks /\ object[p].block # b
  BY <1>4, OwnerIsUnique, ViewsAreTyped DEF Views
<1>10. ViewsHold'
  BY <1>2, <1>3, <1>6, <1>7, <1>9 DEF ContentInv, ViewsHold, IsSent
<1> QED BY <1>5, <1>8, <1>10 DEF ContentInv

LEMMA CastContent ==
  ASSUME LoanInv, ContentInv, NEW h \in Live, NEW b \in Blocks, NEW m \in Messages,
         CastMessageAt(h, b, m)
  PROVE  ContentInv'
<1> DEFINE n == block[b].number - 1
<1> DEFINE o == View(b, block[b].sent.size, n)
<1>1. UNCHANGED block /\ b \in available /\ IsSent(b)
  BY DEF CastMessageAt
<1>2. block[b].number \in Nat /\ block[b].sent.size \in Nat
  BY DEF LoanInv, TypeOK, Sendings
<1>3. CASE ~Accepts(ConstraintsOf(h), b)
  BY <1>1, <1>3, ContentUntouched DEF CastMessageAt
<1>4. CASE Accepts(ConstraintsOf(h), b)
  <2>1. object' = [object EXCEPT ![m] = o] /\ Lent(m, b) BY <1>4 DEF CastMessageAt
  <2>2. n \in Nat /\ n + 1 = block[b].number BY <1>2, <1>4 DEF Accepts
  <2>3. o \in Objects /\ o.block = b /\ o.view = n /\ o.chars = n /\ ~o.outgrown
    BY <1>2, <2>2, ViewTyped DEF View
  <2> HIDE DEF o, n
  <2>4. VerdictsHold' BY <2>1, <2>3, LentVerdicts
  <2>5. /\ object'[m] = o
        /\ \A p \in Views' : p # m => p \in Views /\ object'[p] = object[p]
    BY <2>1, <2>3, LendingKeepsViews
  <2>6. ViewsHold' BY <1>1, <2>2, <2>3, <2>5 DEF ContentInv, ViewsHold, IsSent
  <2> QED BY <1>1, <2>4, <2>6 DEF ContentInv, SentHolds
<1> QED BY <1>3, <1>4

LEMMA AssignContent ==
  ASSUME LoanInv, ContentInv, NEW m \in Messages, NEW n \in Chars, Assign(m, n)
  PROVE  ContentInv'
<1>1. n \in Nat /\ m \in Existing BY LoanAssumption DEF Assign, Existing
<1>2. object[m] \in Objects BY <1>1, ViewsAreTyped
<1> DEFINE b == object[m].block
<1> DEFINE grown == object[m].outgrown \/ (b # None /\ n > object[m].view)
<1> DEFINE o == [[object[m] EXCEPT !.chars = n] EXCEPT !.outgrown = grown]
<1>3. grown \in BOOLEAN BY <1>2 DEF Objects
<1>4. object' = [object EXCEPT ![m] = o] BY DEF Assign
<1>5. o.chars = n /\ o.outgrown = grown /\ o.view = object[m].view /\ o.block = b /\ o \in Objects
  BY <1>1, <1>2, <1>3 DEF Objects
<1> HIDE DEF o
<1>6. /\ object'[m] = o
      /\ \A p \in Messages : p # m => object'[p] = object[p]
      /\ verdict'[m] = None
      /\ \A p \in Messages : p # m => verdict'[p] = verdict[p]
  BY <1>1, <1>4 DEF Assign, LoanInv, TypeOK, Existing
<1>7. \A p \in Existing' : p \in Messages /\ (p # m => p \in Existing) BY <1>6 DEF Existing
<1>8. VerdictsHold' BY <1>6, <1>7 DEF ContentInv, VerdictsHold
<1>9. /\ \A x \in Blocks : block'[x].number = block[x].number
      /\ \A x \in Blocks : x # b => block'[x] = block[x]
      /\ b \in Blocks => block'[b].sent = NotSent
  BY DEF Assign, LoanInv, TypeOK
<1>10. SentHolds' BY <1>9 DEF ContentInv, SentHolds, Delivers
<1>11. ASSUME NEW p \in Views'
       PROVE  /\ ~object'[p].outgrown => /\ object'[p].chars <= object'[p].view
                                         /\ block'[object'[p].block].number = object'[p].view + 1
              /\ object'[p].outgrown => block'[object'[p].block].sent = NotSent
  <2>1. CASE p = m
    <3>1. m \in Views /\ b \in Blocks /\ b # None /\ object[m].view \in Nat
      BY <1>1, <1>5, <1>6, <2>1, ViewsAreTyped DEF Views
    <3>2. ~grown => ~object[m].outgrown /\ n <= object[m].view BY <1>1, <3>1
    <3>3. ~grown => block[b].number = object[m].view + 1
      BY <3>1, <3>2 DEF ContentInv, ViewsHold
    <3> QED BY <1>5, <1>6, <1>9, <2>1, <3>1, <3>2, <3>3
  <2>2. CASE p # m
    <3>1. p \in Views /\ object'[p] = object[p] BY <1>6, <1>7, <2>2 DEF Views
    <3>2. object[p].block \in Blocks /\ object[p].block # None
      BY <3>1, ViewsAreTyped DEF Views
    <3>3. object[p].block # b
      <4>1. b = object[p].block => m \in Views BY <1>1, <3>2 DEF Views
      <4> QED BY <2>2, <3>1, <4>1, OwnerIsUnique
    <3>4. block'[object[p].block] = block[object[p].block] BY <1>9, <3>2, <3>3
    <3> QED BY <3>1, <3>2, <3>4 DEF ContentInv, ViewsHold, IsSent
  <2> QED BY <2>1, <2>2
<1>12. ViewsHold' BY <1>11 DEF ViewsHold, IsSent
<1> QED BY <1>8, <1>10, <1>12 DEF ContentInv

\* The views whose messages and blocks a step leaves alone hold what they held.
LEMMA OtherViewsHold ==
  ASSUME LoanInv, ContentInv, NEW b \in Blocks,
         \A x \in Blocks : x # b => block'[x] = block[x],
         \A p \in Views' : p \in Views /\ object[p].block # b /\ object'[p] = object[p]
  PROVE  ViewsHold'
<1>1. ASSUME NEW p \in Views'
      PROVE  /\ p \in Views /\ object'[p] = object[p]
             /\ block'[object[p].block] = block[object[p].block]
  <2>1. p \in Views /\ object[p].block # b /\ object'[p] = object[p] OBVIOUS
  <2>2. object[p].block \in Blocks BY <2>1, ViewsAreTyped DEF Views
  <2> QED BY <2>1, <2>2
<1> QED BY <1>1 DEF ContentInv, ViewsHold, IsSent

\* A block that is written delivers if what it was given does.
LEMMA OtherBlocksDeliver ==
  ASSUME ContentInv, NEW b \in Blocks, Delivers(block'[b]),
         \A x \in Blocks : x # b => block'[x] = block[x]
  PROVE  SentHolds'
BY DEF ContentInv, SentHolds

LEMMA SerializeContent ==
  ASSUME LoanInv, ContentInv, NEW m \in Messages, NEW b \in Blocks, NEW storage \in Nat,
         SerializeMessageInto(m, b, storage)
  PROVE  ContentInv'
<1> DEFINE chars == object[m].chars
<1> DEFINE sent == [Sent(m, storage, verdict[m]) EXCEPT !.view = 0, !.outgrown = FALSE]
<1>1. m \in Existing /\ b \in available /\ storage <= Capacity /\ UNCHANGED <<object, verdict>>
  BY DEF SerializeMessageInto, Existing
<1>2. chars \in Nat BY <1>1, ViewsAreTyped
<1>3. /\ block' = [block EXCEPT ![b] =
                     IF SizeOf(chars) <= storage
                     THEN [number |-> AsUint32(chars + 1), sent |-> sent] ELSE Blank]
  BY DEF SerializeMessageInto
<1>4. sent.chars = chars /\ sent.size = storage /\ sent.claim = verdict[m]
  BY DEF Sent
<1>5. verdict[m] # None => chars <= verdict[m].bound
  BY <1>1 DEF ContentInv, VerdictsHold
<1> HIDE DEF chars, sent
<1>6. /\ block'[b] = IF SizeOf(chars) <= storage
                     THEN [number |-> AsUint32(chars + 1), sent |-> sent] ELSE Blank
      /\ \A x \in Blocks : x # b => block'[x] = block[x]
  BY <1>3 DEF LoanInv, TypeOK
<1>7. Delivers(block'[b])
  <2>1. CASE SizeOf(chars) <= storage
    <3>1. SizeOf(chars) <= Capacity BY <1>1, <1>2, <2>1, CapacityNatural, SizesAreNatural
    <3>2. block'[b] = [number |-> chars + 1, sent |-> sent]
      BY <1>2, <1>6, <2>1, <3>1, BlocksHoldTheirLengths
    <3> QED BY <1>4, <1>5, <2>1, <3>2 DEF Delivers, Delivered
  <2>2. CASE ~(SizeOf(chars) <= storage)
    BY <1>6, <2>2 DEF Delivers, Blank
  <2> QED BY <2>1, <2>2
<1>8. SentHolds' BY <1>6, <1>7, OtherBlocksDeliver
<1>9. \A p \in Views' : p \in Views /\ object[p].block # b /\ object'[p] = object[p]
  BY <1>1, OwnerIsUnique DEF Views, Existing
<1>10. ViewsHold' BY <1>6, <1>9, OtherViewsHold
<1>11. VerdictsHold' BY <1>1 DEF ContentInv, VerdictsHold, Existing
<1> QED BY <1>8, <1>10, <1>11 DEF ContentInv

\* A message that is gone has no verdict, the others keep theirs.
LEMMA EndedVerdicts ==
  ASSUME LoanInv, ContentInv, NEW m \in Existing, NEW b,
         object' = [object EXCEPT ![m] = None], Ended(m, b)
  PROVE  VerdictsHold'
<1>1. m \in Messages BY ViewsAreTyped
<1>2. /\ object'[m] = None
      /\ \A p \in Messages : p # m => object'[p] = object[p] /\ verdict'[p] = verdict[p]
  BY <1>1 DEF Ended, LoanInv, TypeOK
<1>3. \A p \in Existing' : p # m /\ p \in Messages /\ p \in Existing
  BY <1>2 DEF Existing
<1> QED BY <1>2, <1>3 DEF ContentInv, VerdictsHold

LEMMA DestroyAndReleaseContent ==
  ASSUME LoanInv, ContentInv, NEW m \in Messages, DestroyMessage(m) \/ ReleaseMessage(m)
  PROVE  ContentInv'
<1>1. m \in Existing BY DEF DestroyMessage, ReleaseMessage, LoanInv, BooksAgree
<1>2. object' = [object EXCEPT ![m] = None] /\ UNCHANGED block
  BY DEF DestroyMessage, ReleaseMessage
<1>3. VerdictsHold' BY <1>1, <1>2, EndedVerdicts DEF DestroyMessage, ReleaseMessage
<1>4. \A p \in Views' : p \in Views /\ object'[p] = object[p]
  BY <1>1, <1>2, EndingKeepsViews
<1> QED BY <1>2, <1>3, <1>4 DEF ContentInv, ViewsHold, SentHolds, IsSent

\* Released as it is, the text is exactly what the view holds; rewritten, the
\* prefix is that of the text.
LEMMA CompactContent ==
  ASSUME LoanInv, ContentInv, NEW h \in Live, NEW m \in Messages, CompactMessageInPlace(h, m)
  PROVE  ContentInv'
<1> DEFINE b == object[m].block
<1> DEFINE chars == object[m].chars
<1>1. m \in Existing /\ b # None /\ h # Base /\ chars <= handle[h].bound
  BY DEF CompactMessageInPlace, Compactable, LoanInv, BooksAgree
<1>2. /\ b \in Blocks /\ m \in Views /\ chars \in Nat /\ object[m].size \in Nat
      /\ object[m].view \in Nat /\ SizeOf(object[m].view) <= object[m].size
      /\ object[m].size <= Capacity
  BY <1>1, ViewsAreTyped DEF LoanInv, TypeOK
<1>3. handle[h] \in Constraints BY <1>1, LiveHandles DEF LoanInv
<1>4. handle[h].bound \in Nat /\ handle[h] # None BY <1>3, ConstraintsTyped
<1>5. object' = [object EXCEPT ![m] = None] /\ Ended(m, b)
  BY DEF CompactMessageInPlace
<1>6. \A x \in Blocks : x # b => block'[x] = block[x]
  BY DEF CompactMessageInPlace, LoanInv, TypeOK
<1>7. Delivers(block'[b])
  <2>1. CASE Undersized(h, m)
    <3> DEFINE sent == Sent(m, SizeOf(chars), handle[h])
    <3>1. block'[b] = [number |-> chars + 1, sent |-> sent]
      <4>1. SizeOf(chars) <= Capacity
        BY <1>2, <2>1, CapacityNatural, SizesAreNatural DEF CompactMessageInPlace, Overflows
      <4>2. AsUint32(chars + 1) = chars + 1 BY <1>2, <4>1, BlocksHoldTheirLengths
      <4> QED BY <1>2, <2>1, <4>2 DEF CompactMessageInPlace, LoanInv, TypeOK
    <3>2. sent.chars = chars /\ sent.size = SizeOf(chars) /\ sent.claim = handle[h]
      BY DEF Sent
    <3>3. SizeOf(chars) \in Nat BY <1>2, SizesAreNatural
    <3> HIDE DEF b, chars, sent
    <3> QED BY <1>1, <3>1, <3>2, <3>3 DEF Delivers, Delivered
  <2>2. CASE ~Undersized(h, m)
    <3> DEFINE sent == Sent(m, object[m].size, handle[h])
    <3>1. block'[b] = [block[b] EXCEPT !.sent = sent]
      BY <1>2, <2>2 DEF CompactMessageInPlace, LoanInv, TypeOK
    <3>2. block'[b].number = block[b].number /\ block'[b].sent = sent
      BY <1>2, <3>1 DEF LoanInv, TypeOK
    <3>3. /\ sent.chars = chars /\ sent.size = object[m].size /\ sent.claim = handle[h]
          /\ sent.view = object[m].view /\ sent.outgrown = object[m].outgrown
      BY DEF Sent
    <3>4. chars = handle[h].bound BY <1>1, <1>2, <1>4, <2>2 DEF Undersized
    <3>5. ~object[m].outgrown => chars <= object[m].view /\ block[b].number = object[m].view + 1
      BY <1>2 DEF ContentInv, ViewsHold
    <3>6. SizeOf(chars) = chars + 9 /\ SizeOf(object[m].view) = object[m].view + 9
      BY <1>2, SizesAreNatural
    <3> HIDE DEF b, chars, sent
    <3>7. ASSUME Covered(sent) PROVE Delivered(block'[b])
      <4>1. ~object[m].outgrown /\ handle[h].bound >= object[m].view
        BY <1>4, <3>3, <3>7 DEF Covered
      <4>2. chars = object[m].view BY <1>2, <1>4, <3>4, <3>5, <4>1
      <4>3. block'[b].number = sent.chars + 1 BY <3>2, <3>3, <3>5, <4>1, <4>2
      <4>4. SizeOf(sent.chars) <= sent.size BY <1>2, <3>3, <4>2
      <4>5. sent.chars <= sent.claim.bound BY <1>1, <3>3
      <4> QED BY <3>2, <4>3, <4>4, <4>5 DEF Delivered
    <3> QED BY <3>2, <3>7 DEF Delivers
  <2> QED BY <2>1, <2>2
<1>8. SentHolds' BY <1>2, <1>6, <1>7, OtherBlocksDeliver
<1>9. \A p \in Views' : p \in Views /\ object[p].block # b /\ object'[p] = object[p]
  BY <1>1, <1>2, <1>5, EndingKeepsViews, OwnerIsUnique
<1>10. ViewsHold' BY <1>2, <1>6, <1>9, OtherViewsHold
<1>11. VerdictsHold' BY <1>1, <1>5, EndedVerdicts
<1> QED BY <1>8, <1>10, <1>11 DEF ContentInv

\* What does not fit its storage outgrew its view, so the block is not sent.
LEMMA OverflowsContent ==
  ASSUME LoanInv, ContentInv, NEW h \in Live, NEW m \in Messages, CompactionOverflows(h, m)
  PROVE  ContentInv'
<1> DEFINE b == object[m].block
<1>1. m \in Existing /\ b # None /\ Overflows(m)
  BY DEF CompactionOverflows, Compactable, LoanInv, BooksAgree
<1>2. /\ b \in Blocks /\ m \in Views /\ object[m].chars \in Nat /\ object[m].size \in Nat
      /\ object[m].view \in Nat /\ SizeOf(object[m].view) <= object[m].size
  BY <1>1, ViewsAreTyped DEF LoanInv, TypeOK
<1>3. object[m].chars > object[m].view BY <1>1, <1>2, SizesAreNatural DEF Overflows
<1>4. object[m].outgrown /\ block[b].sent = NotSent
  BY <1>2, <1>3 DEF ContentInv, ViewsHold, IsSent
<1>5. /\ block' = [block EXCEPT ![b].number = AsUint32(object[m].chars + 1)]
      /\ UNCHANGED <<object, verdict>>
  BY DEF CompactionOverflows
<1>6. /\ \A x \in Blocks : x # b => block'[x] = block[x]
      /\ \A x \in Blocks : block'[x].sent = block[x].sent
  BY <1>2, <1>5 DEF LoanInv, TypeOK
<1>7. Delivers(block'[b]) BY <1>2, <1>4, <1>6 DEF Delivers
<1>8. SentHolds' BY <1>2, <1>6, <1>7, OtherBlocksDeliver
<1>9. ASSUME NEW p \in Views
      PROVE  /\ ~object[p].outgrown => /\ object[p].chars <= object[p].view
                                       /\ block'[object[p].block].number = object[p].view + 1
             /\ object[p].outgrown => block'[object[p].block].sent = NotSent
  <2>1. CASE p = m BY <1>2, <1>4, <1>6, <2>1
  <2>2. CASE p # m
    <3>1. object[p].block \in Blocks /\ object[p].block # b
      BY <1>2, <2>2, OwnerIsUnique, ViewsAreTyped DEF Views
    <3>2. block'[object[p].block] = block[object[p].block] BY <1>6, <3>1
    <3> QED BY <3>2 DEF ContentInv, ViewsHold, IsSent
  <2> QED BY <2>1, <2>2
<1>10. ViewsHold' BY <1>5, <1>9 DEF ViewsHold, IsSent, Views, Existing
<1>11. VerdictsHold' BY <1>5 DEF ContentInv, VerdictsHold, Existing
<1> QED BY <1>8, <1>10, <1>11 DEF ContentInv


LEMMA InitContent == Init => ContentInv
<1> SUFFICES ASSUME Init PROVE ContentInv OBVIOUS
<1>1. Existing = {} /\ Views = {} BY DEF Init, Existing, Views
<1>2. \A b \in Blocks : block[b].sent = NotSent BY DEF Init, Blank
<1> QED BY <1>1, <1>2 DEF ContentInv, VerdictsHold, ViewsHold, SentHolds, Delivers

LEMMA NextContent == LoanInv /\ ContentInv /\ [Next]_vars => ContentInv'
<1> SUFFICES ASSUME LoanInv, ContentInv, [Next]_vars PROVE ContentInv' OBVIOUS
<1>1. ASSUME UNCHANGED vars PROVE ContentInv' BY <1>1, ContentUntouched DEF vars
<1>2. ASSUME NEW h \in Handles,
             DestroyConstrained(h) \/ \E c \in Constraints : CreateConstrained(h, c)
      PROVE  ContentInv'
  BY <1>2, ContentUntouched DEF DestroyConstrained, CreateConstrained
<1>3. ASSUME NEW m \in Messages,
             \/ DestroyMessage(m)
             \/ ReleaseMessage(m)
             \/ \E n \in Chars : NewMessage(m, n) \/ Assign(m, n)
      PROVE  ContentInv'
  BY <1>3, DestroyAndReleaseContent, NewMessageContent, AssignContent
<1>4. ASSUME NEW m \in Messages, NEW h \in Live,
             \/ CompactionRefused(h, m)
             \/ CompactionOverflows(h, m)
             \/ CompactMessageInPlace(h, m)
      PROVE  ContentInv'
  <2>1. CASE CompactionRefused(h, m) BY <2>1, <1>1 DEF CompactionRefused
  <2>2. CASE CompactionOverflows(h, m) BY <2>2, OverflowsContent
  <2>3. CASE CompactMessageInPlace(h, m) BY <2>3, CompactContent
  <2> QED BY <1>4, <2>1, <2>2, <2>3
<1>5. ASSUME NEW m \in Messages, NEW h \in Live,
             \E b \in Blocks : ConstructMessageAt(h, b, m) \/ CastMessageAt(h, b, m)
      PROVE  ContentInv'
  BY <1>5, ConstructContent, CastContent
<1>6. ASSUME NEW m \in Messages, NEW h \in Live,
             \E c \in Constraints, strict \in BOOLEAN : ValidateMessage(h, m, c, strict)
      PROVE  ContentInv'
  BY <1>6, ValidateContent
<1>7. ASSUME NEW m \in Messages, NEW h \in Live, NEW b \in Blocks,
             \/ SerializeMessageInto(m, b, GetExpectedSize(h))
             \/ SerializeMessageInto(m, b, GetMessageSize(m))
      PROVE  ContentInv'
  <2>1. m \in Existing BY <1>7 DEF SerializeMessageInto, Existing
  <2>2. GetExpectedSize(h) \in Nat /\ GetMessageSize(m) \in Nat BY <2>1, StorageIsNatural
  <2> QED BY <1>7, <2>2, SerializeContent
<1>8. CASE Next BY <1>8, <1>2, <1>3, <1>4, <1>5, <1>6, <1>7 DEF Next
<1> QED BY <1>1, <1>8

LEMMA ContentInvHolds == Spec => [](LoanInv /\ ContentInv)
<1>1. Init => LoanInv /\ ContentInv BY InitEstablishes, InitContent
<1>2. LoanInv /\ ContentInv /\ [Next]_vars => (LoanInv /\ ContentInv)'
  BY NextKeeps, NextContent
<1> QED BY <1>1, <1>2, PTL DEF Spec

(***************************************************************************)
(* Whatever chain of constructions, casts, assignments, refusals and       *)
(* compactions (demo_c.cpp) a block has been through, what was last sent   *)
(* from it reads as the text its sender last assigned, as long as that     *)
(* stayed in its view and the compacting handle was no tighter than the    *)
(* view. For blocks whose sizes fit a prefix (BlockAssumption).            *)
(***************************************************************************)
THEOREM SentAlwaysAsAssigned == Spec => []SentAsAssigned
<1>1. ASSUME LoanInv, ContentInv PROVE SentAsAssigned
  <2>1. ASSUME NEW b \in Blocks, IsSent(b), Covered(block[b].sent)
        PROVE  block[b].number - 1 = block[b].sent.chars
    <3>1. block[b].sent.chars \in Nat BY <1>1, <2>1 DEF LoanInv, TypeOK, Sendings
    <3>2. block[b].number = block[b].sent.chars + 1
      BY <1>1, <2>1 DEF ContentInv, SentHolds, Delivers, Delivered, IsSent
    <3> QED BY <3>1, <3>2
  <2> QED BY <2>1 DEF SentAsAssigned
<1> QED BY <1>1, ContentInvHolds, PTL

(***************************************************************************)
(* Two ends that agreed by compare_constraints() (demo_c.cpp) never        *)
(* disagree over a message: what the sender compacted or strictly          *)
(* validated under the candidate's constraints is accepted by every cast   *)
(* under the baseline's, whatever happened to the block in between. What   *)
(* is sent lies in a block, so its length fits a prefix (BlockAssumption). *)
(***************************************************************************)
THEOREM AgreedAlwaysAccepted == Spec => []AgreedIsAccepted
<1>1. ASSUME LoanInv, ContentInv PROVE AgreedIsAccepted
  <2>1. ASSUME NEW b \in Blocks, NEW baseline \in Constraints \cup {None},
               IsSent(b), Covered(block[b].sent), block[b].sent.claim # None,
               Compatible(block[b].sent.claim, baseline)
        PROVE  Accepts(baseline, b)
    <3> DEFINE s == block[b].sent
    <3>1. s.chars \in Nat /\ s.claim \in Constraints
      BY <1>1, <2>1 DEF LoanInv, TypeOK, Sendings
    <3>2. s.claim.bound \in Nat BY <3>1, ConstraintsTyped
    <3>3. Delivered(block[b])
      BY <1>1, <2>1 DEF ContentInv, SentHolds, Delivers, IsSent
    <3>4. block[b].number # 0 /\ block[b].number - 1 = s.chars BY <3>1, <3>3 DEF Delivered
    <3>5. SizeOf(s.chars) <= s.size /\ s.chars <= s.claim.bound
      BY <2>1, <3>3 DEF Delivered
    <3>6. baseline # None => s.claim.bound <= baseline.bound BY <2>1 DEF Compatible
    <3>7. baseline # None => baseline.bound \in Nat BY ConstraintsTyped
    <3>8. baseline # None => s.chars <= baseline.bound
      <4> HIDE DEF s
      <4> QED BY <3>1, <3>2, <3>5, <3>6, <3>7
    <3> QED BY <3>4, <3>5, <3>8 DEF Accepts
  <2> QED BY <2>1 DEF AgreedIsAccepted
<1> QED BY <1>1, ContentInvHolds, PTL

(***************************************************************************)
(* A strict validation (demo_c.cpp, Constraints::CheckCompatible()) is     *)
(* worth something: the message fits storage of the expected size, and     *)
(* compaction of a view through the handle is not refused, neither for its *)
(* bounds nor, half way, for want of room.                                 *)
(***************************************************************************)
THEOREM ValidatedAlwaysGoesThrough == Spec => []ValidatedGoesThrough
<1>1. ASSUME LoanInv, ContentInv PROVE ValidatedGoesThrough
  <2>1. ASSUME NEW m \in Existing, NEW h \in Handles, verdict[m] # None, handle[h] = verdict[m]
        PROVE  /\ SizeOf(object[m].chars) <= GetExpectedSize(h)
               /\ object[m].block # None /\ ~object[m].outgrown =>
                    Compactable(h, m) /\ ~(Undersized(h, m) /\ Overflows(m))
    <3>1. h # Base BY LoanAssumption
    <3>2. handle[h] \in Constraints BY <1>1, <2>1 DEF LoanInv, TypeOK
    <3>3. handle[h].bound \in Nat BY <3>2, ConstraintsTyped
    <3>4. object[m].chars \in Nat /\ object[m].view \in Nat /\ object[m].size \in Nat
      BY <1>1, ViewsAreTyped
    <3>5. object[m].chars <= handle[h].bound
      BY <1>1, <2>1 DEF ContentInv, VerdictsHold
    <3>6. SizeOf(object[m].chars) <= GetExpectedSize(h)
      BY <3>1, <3>3, <3>4, <3>5, SizesAreNatural DEF GetExpectedSize
    <3>7. ASSUME object[m].block # None, ~object[m].outgrown
          PROVE  Compactable(h, m) /\ ~Overflows(m)
      <4>1. m \in Views BY <3>7 DEF Views
      <4>2. SizeOf(object[m].view) <= object[m].size BY <1>1, <4>1 DEF LoanInv, TypeOK
      <4>3. object[m].chars <= object[m].view
        BY <1>1, <3>7, <4>1 DEF ContentInv, ViewsHold
      <4>4. ~Overflows(m) BY <3>4, <4>2, <4>3, SizesAreNatural DEF Overflows
      <4> QED BY <3>1, <3>5, <3>7, <4>4 DEF Compactable
    <3> QED BY <3>6, <3>7
  <2> QED BY <2>1 DEF ValidatedGoesThrough
<1> QED BY <1>1, ContentInvHolds, PTL

================================================================================
