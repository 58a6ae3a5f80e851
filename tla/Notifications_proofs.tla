------------------------ MODULE Notifications_proofs ------------------------
(***************************************************************************)
(* Theorems about Notifications, for every number of packages, messages,   *)
(* edits, decisions and restarts.                                          *)
(***************************************************************************)
EXTENDS Notifications, SequenceTheorems, TLAPS

USE OwnersAssumption, BoundsAssumption, FaultsAssumption

\* A scan would add a revision, or rewrite the latest one.
Stale ==
  \/ rows = <<>>
  \/ rows[Last].content # content
  \/ content.sendable = "conflict" /\ State(Last) # "HELD"

\* The bounds of the model are never what stops it: a revision that a scan
\* would add has been paid for by a package or a turn.
Counted ==
  /\ content.text <= turns
  /\ Len(rows) <= content.packages + 2 * turns
  /\ Stale => Len(rows) < content.packages + 2 * turns

\* What the rows and the checks say of messages, and of each other.
Linked ==
  /\ \A r \in DOMAIN rows :
       /\ rows[r].msg \in 0..Len(posts)
       /\ State(r) \in Undelivered => rows[r].msg # 0
       /\ rows[r].owner # Nobody => State(r) \in Undelivered
       /\ State(r) = "AWAITING_REVIEW" => r = Last /\ ~rows[r].tried
       /\ State(r) = "SENDING" => rows[r].tried
  /\ \A r \in Revisions : calls[r].msg \in 0..Len(posts)
  /\ queued \subseteq DOMAIN rows
  /\ \A o \in Owners :
       /\ checks[o].pc # "none" => checks[o].row \in DOMAIN rows
       /\ checks[o].pc = "asked" => checks[o].msg \in DOMAIN posts

\* A lookup that has asked is about the message its revision has, and nobody
\* else is asking, unless the operator has decided meanwhile.
AskedOf(o) ==
  LET r == checks[o].row
  IN  checks[o].pc = "asked" =>
        \/ State(r) \in Decided
        \/ State(r) \in Undelivered /\ rows[r].owner = o /\ rows[r].msg = checks[o].msg

Receipts == "slow_receipt" \notin Faults => ReceiptIsTrue /\ \A o \in Owners : AskedOf(o)

\* An automatic send that has not been posted.
Unposted(r) == calls[r].by = "auto" /\ calls[r].msg = 0

\* Every message comes from a revision that was tried and tells of the same
\* packages, and whose automatic send, if any, is the message.
Sourced ==
  \A m \in DOMAIN posts : \E q \in DOMAIN rows :
    rows[q].tried /\ rows[q].content.packages = posts[m].packages /\ ~Unposted(q)

\* No other revision that was tried tells of all the packages of this one.
Newest(r) ==
  \A q \in DOMAIN rows \ {r} :
    rows[q].tried => rows[q].content.packages < rows[r].content.packages

\* What a candidate was admitted for still holds when it is posted.
StillNew ==
  \A r \in DOMAIN rows :
    (r \in queued /\ State(r) = "AWAITING_REVIEW") \/ Unposted(r) => Newest(r)

Inv == TypeOK /\ Counted /\ Linked /\ OneSendAtATime /\ Receipts
       /\ Sourced /\ StillNew /\ AutomaticIsNew

------------------------------------------------------------------------------
(* What the operators that draft do to the revisions. *)

\* An approved or waiting text that a new one may close.
Open == {"AWAITING_REVIEW", "HELD", "RETRYABLE"}

\* One revision while drafts are made and decisions taken: it stays, is closed,
\* held or decided about; only the reason noted on it may change beside that.
Moves(x, y) ==
  /\ y.tried = x.tried /\ y.content = x.content /\ y.msg = x.msg
  /\ \/ y.state = x.state /\ y.owner = x.owner
     \/ x.state \in Open /\ y.state \in {"REJECTED", "HELD"} /\ y.owner = x.owner
     \/ x.state # "SENDING" /\ y.state \in Decided /\ y.owner = Nobody

\* A revision nobody has tried to send.
New(y) ==
  /\ ~y.tried /\ y.msg = 0 /\ y.owner = Nobody
  /\ y.state \in {"AWAITING_REVIEW", "HELD"} \cup Decided

\* An unsent draft rewritten for more packages.
Rewritten(x, y) ==
  /\ x.state = "AWAITING_REVIEW" /\ New(y) /\ y.state \notin Decided
  /\ y.content.packages > x.content.packages

Redrafted(new) ==
  /\ new \in Seq(Row) /\ Len(new) \in {Last, Last + 1}
  /\ \A r \in 1..Last :
       Moves(rows[r], new[r]) \/ (r = Len(new) /\ Rewritten(rows[r], new[r]))
  /\ Len(new) = Last + 1 =>
       New(new[Last + 1]) /\ \A r \in 1..Last : new[r].state # "AWAITING_REVIEW"

LEMMA SeqFacts ==
    ASSUME NEW rs \in Seq(Row)
    PROVE  /\ Len(rs) \in Nat /\ DOMAIN rs = 1..Len(rs)
           /\ rs = <<>> <=> Len(rs) = 0
           /\ \A r \in 1..Len(rs) : rs[r] \in Row
OBVIOUS

LEMMA RowsAre ==
    ASSUME rows \in Seq(Row)
    PROVE  /\ Last \in Nat /\ Len(rows) = Last /\ DOMAIN rows = 1..Last
           /\ rows = <<>> <=> Last = 0
           /\ Last > 0 => Last \in 1..Last
           /\ \A r \in 1..Last : rows[r] \in Row
BY SeqFacts DEF Last

LEMMA RowIs ==
    ASSUME NEW x \in Row
    PROVE  /\ x.state \in States /\ x.content \in Contents /\ x.msg \in 0..MaxPosts
           /\ x.tried \in BOOLEAN /\ x.err \in BOOLEAN /\ x.sent \in BOOLEAN
           /\ x.reopened \in BOOLEAN /\ x.owner \in Owners \cup {Nobody}
BY DEF Row

LEMMA Replaced ==
    ASSUME NEW rs \in Seq(Row), NEW i \in 1..Len(rs), NEW x \in Row
    PROVE  /\ [rs EXCEPT ![i] = x] \in Seq(Row) /\ Len([rs EXCEPT ![i] = x]) = Len(rs)
           /\ \A r \in 1..Len(rs) : [rs EXCEPT ![i] = x][r] = IF r = i THEN x ELSE rs[r]
BY ExceptSeq

LEMMA Added ==
    ASSUME NEW rs \in Seq(Row), NEW x \in Row
    PROVE  /\ Append(rs, x) \in Seq(Row) /\ Len(Append(rs, x)) = Len(rs) + 1
           /\ \A r \in 1..Len(rs) : Append(rs, x)[r] = rs[r]
           /\ Append(rs, x)[Len(rs) + 1] = x
BY AppendProperties

LEMMA Kinds ==
    /\ Decided \subseteq States /\ Undelivered \subseteq States /\ Open \subseteq States
    /\ {"SENDING", "DELIVERED", "FAILED", "REJECTED"} \subseteq States
    /\ Decided \cap Undelivered = {} /\ Decided \cap Open = {} /\ Undelivered \cap Open = {}
    /\ {"SENDING", "DELIVERED", "FAILED", "REJECTED"}
          \cap (Decided \cup Undelivered \cup Open) = {}
BY DEF Decided, Undelivered, Open, States

LEMMA DraftIs ==
    ASSUME NEW state \in States, NEW text \in Contents, NEW reopened \in BOOLEAN
    PROVE  /\ Draft(state, text, reopened) \in Row
           /\ Draft(state, text, reopened).state = state
           /\ Draft(state, text, reopened).content = text
           /\ Draft(state, text, reopened).reopened = reopened
           /\ state \in {"AWAITING_REVIEW", "HELD"} \cup Decided => New(Draft(state, text, reopened))
BY DEF Draft, Row, New

\* A row that is closed or held, or has a reason noted, is a row that has moved.
LEMMA ClosedRow ==
    ASSUME NEW x \in Row, x.state \in Open, NEW s \in {"REJECTED", "HELD"}
    PROVE  [x EXCEPT !.state = s] \in Row /\ [x EXCEPT !.state = s].state = s
           /\ Moves(x, [x EXCEPT !.state = s])
<1>1. s \in States
  BY Kinds DEF Open
<1> QED BY <1>1 DEF Row, Moves

LEMMA NotedRow ==
    ASSUME NEW x \in Row
    PROVE  /\ [x EXCEPT !.err = TRUE] \in Row /\ Moves(x, [x EXCEPT !.err = TRUE])
           /\ [x EXCEPT !.err = TRUE].state = x.state /\ [x EXCEPT !.err = TRUE].owner = x.owner
BY DEF Row, Moves

LEMMA NotedIs ==
    ASSUME NEW rs \in Seq(Row)
    PROVE  /\ Noted(rs) \in Seq(Row) /\ Len(Noted(rs)) = Len(rs)
           /\ \A r \in 1..Len(rs) :
                \/ Noted(rs)[r] = rs[r]
                \/ Noted(rs)[r] = [rs[r] EXCEPT !.err = TRUE]
<1> DEFINE n == Len(rs)
<1>1. CASE n > 0 /\ rs[n].state = "AWAITING_REVIEW"
  <2>1. rs[n] \in Row /\ n \in 1..n
    BY <1>1, SeqFacts
  <2>2. [rs[n] EXCEPT !.err = TRUE] \in Row
    BY <2>1, NotedRow
  <2>3. Noted(rs) = [rs EXCEPT ![n] = [rs[n] EXCEPT !.err = TRUE]]
    BY <1>1, <2>1 DEF Noted
  <2>4. /\ Noted(rs) \in Seq(Row) /\ Len(Noted(rs)) = n
        /\ \A r \in 1..n : Noted(rs)[r] = IF r = n THEN [rs[n] EXCEPT !.err = TRUE] ELSE rs[r]
    BY <2>1, <2>2, <2>3, Replaced
  <2> QED BY <2>4
<1>2. CASE ~(n > 0 /\ rs[n].state = "AWAITING_REVIEW")
  BY <1>2, SeqFacts DEF Noted
<1> QED BY <1>1, <1>2

LEMMA SupersededIs ==
    ASSUME NEW rs \in Seq(Row), NEW open \in SUBSET Open
    PROVE  /\ Superseded(rs, open) \in Seq(Row) /\ Len(Superseded(rs, open)) = Len(rs)
           /\ \A r \in 1..Len(rs) :
                \/ Superseded(rs, open)[r] = rs[r] /\ (r = Len(rs) => rs[r].state \notin open)
                \/ /\ r = Len(rs) /\ rs[r].state \in open
                   /\ Superseded(rs, open)[r] = [rs[r] EXCEPT !.state = "REJECTED"]
<1> DEFINE n == Len(rs)
<1>1. CASE rs # <<>> /\ rs[n].state \in open
  <2>1. rs[n] \in Row /\ n \in 1..n
    BY <1>1, SeqFacts
  <2>2. [rs[n] EXCEPT !.state = "REJECTED"] \in Row
    BY <1>1, <2>1, ClosedRow
  <2>3. Superseded(rs, open) = [rs EXCEPT ![n] = [rs[n] EXCEPT !.state = "REJECTED"]]
    BY <1>1, <2>1 DEF Superseded
  <2> QED BY <1>1, <2>1, <2>2, <2>3, Replaced
<1>2. CASE ~(rs # <<>> /\ rs[n].state \in open)
  BY <1>2, SeqFacts DEF Superseded
<1> QED BY <1>1, <1>2

LEMMA DraftStateIs ==
    /\ DraftState \in {"AWAITING_REVIEW", "HELD"} /\ DraftState \in States /\ DraftState \notin Decided
    /\ content.sendable = "conflict" => DraftState = "HELD"
BY Kinds DEF DraftState, Decided, Open

\* What prepare_notification and reopen_for_review make of a closed draft.
LEMMA Closed ==
    ASSUME rows \in Seq(Row), \A r \in DOMAIN rows : State(r) = "AWAITING_REVIEW" => r = Last,
           NEW open \in SUBSET Open, "AWAITING_REVIEW" \in open,
           NEW y \in Row, New(y)
    PROVE  LET new == Append(Superseded(rows, open), y)
           IN  Redrafted(new) /\ Len(new) = Last + 1 /\ new[Last + 1] = y
<1> DEFINE old == Superseded(rows, open)
           new == Append(old, y)
<1>1. old \in Seq(Row) /\ Len(old) = Last /\ Last \in Nat
  BY SupersededIs, SeqFacts DEF Last
<1>2. /\ new \in Seq(Row) /\ Len(new) = Last + 1 /\ new[Last + 1] = y
      /\ \A r \in 1..Last : new[r] = old[r]
  BY <1>1, Added
<1>3. ASSUME NEW r \in 1..Last
      PROVE  Moves(rows[r], old[r]) /\ old[r].state # "AWAITING_REVIEW"
  <2>0. rows[r] \in Row
    BY SeqFacts DEF Last
  <2>1. CASE old[r] = rows[r] /\ (r = Last => State(r) \notin open)
    BY <2>0, <2>1, SeqFacts DEF Moves, State, Last
  <2>2. CASE r = Last /\ State(r) \in open /\ old[r] = [rows[r] EXCEPT !.state = "REJECTED"]
    BY <2>0, <2>2, ClosedRow DEF State
  <2> QED BY <2>1, <2>2, SupersededIs DEF Last, State
<1> HIDE DEF new, old
<1>4. \A r \in 1..Last : Moves(rows[r], new[r]) /\ new[r].state # "AWAITING_REVIEW"
  BY <1>2, <1>3
<1> QED BY <1>1, <1>2, <1>4 DEF Redrafted, new, old

\* Either the latest revision says what is current and was drafted because none
\* did, or it says what it said.
Fits(new) ==
  \/ /\ Stale /\ new # <<>> /\ new[Len(new)].content = content
     /\ content.sendable = "conflict" => new[Len(new)].state = "HELD"
  \/ /\ Len(new) = Last
     /\ Last > 0 => /\ new[Last].content = rows[Last].content
                    /\ State(Last) = "HELD" => new[Last].state = "HELD"

LEMMA Unchanged ==
    ASSUME rows \in Seq(Row)
    PROVE  Redrafted(rows) /\ Fits(rows)
BY SeqFacts DEF Redrafted, Fits, Moves, Last, State

\* A draft for more packages takes the place of the one that waits.
LEMMA Rewrites ==
    ASSUME rows \in Seq(Row), rows # <<>>, State(Last) = "AWAITING_REVIEW",
           NEW y \in Row, New(y), y.state \notin Decided,
           y.content.packages > rows[Last].content.packages
    PROVE  LET new == [rows EXCEPT ![Last] = y]
           IN  Redrafted(new) /\ Len(new) = Last /\ new[Last] = y
<1> DEFINE new == [rows EXCEPT ![Last] = y]
<1>1. Last \in 1..Last /\ Last \in Nat
  BY SeqFacts DEF Last
<1>2. /\ new \in Seq(Row) /\ Len(new) = Last
      /\ \A r \in 1..Last : new[r] = IF r = Last THEN y ELSE rows[r]
  BY <1>1, Replaced DEF Last
<1>3. Rewritten(rows[Last], y)
  BY DEF Rewritten, State
<1>4. \A r \in 1..Last : Moves(rows[r], rows[r])
  BY DEF Moves
<1> HIDE DEF new
<1> QED BY <1>1, <1>2, <1>3, <1>4 DEF Redrafted, new

LEMMA PreparedIs ==
    ASSUME TypeOK, Linked, NEW conflict \in BOOLEAN, conflict => content.sendable = "conflict"
    PROVE  /\ Redrafted(Prepared(conflict)) /\ Fits(Prepared(conflict))
           /\ Len(Prepared(conflict)) > Last /\ Last > 0 /\ ~conflict => State(Last) # "CANCELLED"
<1> DEFINE y(b) == Draft(DraftState, content, b)
           open == {"AWAITING_REVIEW", "HELD", "RETRYABLE"}
<1>0. /\ rows \in Seq(Row) /\ content \in Contents /\ DOMAIN rows = 1..Last /\ Last \in Nat
      /\ rows = <<>> <=> Last = 0
  BY RowsAre DEF TypeOK
<1>1. ASSUME NEW b \in BOOLEAN
      PROVE  /\ y(b) \in Row /\ New(y(b)) /\ y(b).state = DraftState /\ y(b).content = content
             /\ y(b).state \notin Decided
  BY <1>0, DraftIs, DraftStateIs
<1> HIDE DEF y
<1>a. \A r \in DOMAIN rows : State(r) = "AWAITING_REVIEW" => r = Last
  BY DEF Linked
<1>2. CASE Keeps(conflict)
  BY <1>0, <1>2, Unchanged, SeqFacts DEF Prepared, Last
<1>3. CASE ~Keeps(conflict)
  <2>1. Stale
    BY <1>0, <1>3 DEF Stale, Keeps, State
  <2>2. CASE rows # <<>> /\ State(Last) = "AWAITING_REVIEW"
             /\ content.packages > rows[Last].content.packages
    <3> DEFINE b == rows[Last].reopened
    <3>1. b \in BOOLEAN /\ Last \in 1..Last
      BY <1>0, <2>2, RowsAre, RowIs
    <3>2. Prepared(conflict) = [rows EXCEPT ![Last] = y(b)]
      BY <1>0, <1>3, <2>2, <3>1 DEF Prepared, y
    <3> HIDE DEF b
    <3>3. Redrafted(Prepared(conflict)) /\ Len(Prepared(conflict)) = Last
          /\ Prepared(conflict)[Last] = y(b)
      BY <1>0, <1>1, <2>2, <3>1, <3>2, Rewrites
    <3>4. Prepared(conflict) # <<>>
      BY <3>1, <3>3, SeqFacts DEF Redrafted
    <3> QED BY <1>0, <1>1, <2>1, <3>1, <3>3, <3>4, DraftStateIs DEF Fits
  <2>3. CASE ~(rows # <<>> /\ State(Last) = "AWAITING_REVIEW"
               /\ content.packages > rows[Last].content.packages)
    <3>1. Prepared(conflict) = Append(Superseded(rows, open), y(FALSE))
      BY <1>3, <2>3 DEF Prepared, y
    <3>2. open \in SUBSET Open /\ "AWAITING_REVIEW" \in open
      BY DEF Open
    <3> HIDE DEF open
    <3>3. /\ Redrafted(Prepared(conflict)) /\ Len(Prepared(conflict)) = Last + 1
          /\ Prepared(conflict)[Last + 1] = y(FALSE)
      BY <1>0, <1>1, <3>1, <3>2, <1>a, Closed
    <3>4. Prepared(conflict) # <<>>
      BY <1>0, <3>3, SeqFacts DEF Redrafted
    <3>5. Fits(Prepared(conflict))
      BY <1>0, <1>1, <2>1, <3>3, <3>4, DraftStateIs DEF Fits
    <3>6. Last > 0 /\ ~conflict => State(Last) # "CANCELLED"
      BY <1>0, <1>3 DEF Keeps, State
    <3> QED BY <3>3, <3>5, <3>6
  <2> QED BY <2>2, <2>3
<1> QED BY <1>2, <1>3

\* The note of a failure disturbs nothing of this.
LEMMA NotesFit ==
    ASSUME rows \in Seq(Row), NEW new, Redrafted(new), Fits(new)
    PROVE  Redrafted(Noted(new)) /\ Fits(Noted(new)) /\ Len(Noted(new)) = Len(new)
<1> DEFINE noted == Noted(new)
<1>1. /\ new \in Seq(Row) /\ Last \in Nat /\ Len(new) \in {Last, Last + 1} /\ Len(new) \in Nat
      /\ new = <<>> <=> Len(new) = 0
  BY SeqFacts DEF Redrafted, Last
<1>2. /\ noted \in Seq(Row) /\ Len(noted) = Len(new)
      /\ noted = <<>> <=> Len(noted) = 0
  BY <1>1, NotedIs, SeqFacts
<1>3. ASSUME NEW r \in 1..Len(new)
      PROVE  /\ noted[r].tried = new[r].tried /\ noted[r].content = new[r].content
             /\ noted[r].msg = new[r].msg /\ noted[r].state = new[r].state
             /\ noted[r].owner = new[r].owner
  <2>1. new[r] \in Row
    BY <1>1, SeqFacts
  <2>2. \/ noted[r] = new[r] \/ noted[r] = [new[r] EXCEPT !.err = TRUE]
    BY <1>1, NotedIs
  <2> QED BY <2>1, <2>2, NotedRow DEF Moves
<1> HIDE DEF noted
<1>4. Redrafted(noted)
  <2>1. ASSUME NEW r \in 1..Last, Moves(rows[r], new[r]) PROVE Moves(rows[r], noted[r])
    BY <1>1, <1>3, <2>1 DEF Moves
  <2>2. ASSUME NEW r \in 1..Len(new), New(new[r]) PROVE New(noted[r])
    BY <1>3, <2>2 DEF New
  <2>3. ASSUME NEW r \in 1..Last, r = Len(new), Rewritten(rows[r], new[r])
        PROVE  Rewritten(rows[r], noted[r])
    BY <1>1, <1>3, <2>2, <2>3 DEF Rewritten
  <2> QED BY <1>1, <1>2, <1>3, <2>1, <2>2, <2>3 DEF Redrafted
<1>5. Fits(noted)
  BY <1>1, <1>2, <1>3 DEF Fits
<1> QED BY <1>2, <1>4, <1>5 DEF noted

------------------------------------------------------------------------------
(* What most steps leave as it is. *)

LEMMA Types ==
    ASSUME TypeOK
    PROVE  /\ Last \in Nat /\ Last <= MaxRows /\ DOMAIN rows = 1..Last /\ 1..Last \subseteq Revisions
           /\ rows \in Seq(Row) /\ \A r \in 1..Last : rows[r] \in Row
           /\ Len(posts) \in Nat /\ Len(posts) <= MaxPosts /\ DOMAIN posts = 1..Len(posts)
           /\ \A m \in 1..Len(posts) : posts[m] \in Message
<1>1. MaxRows \in Nat
  BY DEF MaxRows
<1>2. posts \in Seq(Message) /\ Len(posts) <= MaxPosts /\ rows \in Seq(Row) /\ Last <= MaxRows
  BY DEF TypeOK, Last
<1>3. Len(posts) \in Nat /\ DOMAIN posts = 1..Len(posts)
      /\ \A m \in 1..Len(posts) : posts[m] \in Message
  BY <1>2, LenProperties, ElementOfSeq
<1> QED BY <1>1, <1>2, <1>3, RowsAre DEF Revisions

\* No send begins, and no draft becomes what it was not.
Calm ==
  /\ rows' \in Seq(Row) /\ Last' \in Last..MaxRows /\ queued' \subseteq queued
  /\ \A q \in 1..Last :
       /\ rows'[q].tried = rows[q].tried
       /\ rows'[q].content.packages >= rows[q].content.packages
       /\ rows[q].tried => rows'[q].content.packages = rows[q].content.packages
       /\ rows'[q].state \in {"AWAITING_REVIEW", "SENDING"} => rows'[q].state = rows[q].state
  /\ \A q \in 1..Last' \ 1..Last : ~rows'[q].tried /\ rows'[q].state # "SENDING"
  /\ \A r \in Revisions : Unposted(r)' => Unposted(r)

\* The messages so far still have their revisions.
StillSourced ==
  \A m \in 1..Len(posts) : \E q \in 1..Last' :
    rows'[q].tried /\ rows'[q].content.packages = posts[m].packages /\ ~Unposted(q)'

\* No message is added.
SamePosts ==
  /\ Len(posts') = Len(posts) /\ DOMAIN posts' = DOMAIN posts
  /\ \A m \in 1..Len(posts) :
       posts'[m].packages = posts[m].packages /\ posts'[m].by = posts[m].by

LEMMA Packages ==
    ASSUME NEW x \in Row
    PROVE  x.content.packages \in 1..MaxPackages
BY RowIs DEF Contents

LEMMA CalmStep ==
    ASSUME Inv, Calm
    PROVE  OneSendAtATime' /\ StillNew' /\ StillSourced
<1>0. /\ TypeOK /\ Linked /\ OneSendAtATime /\ Sourced /\ StillNew
      /\ Last \in Nat /\ DOMAIN rows = 1..Last /\ 1..Last \subseteq Revisions
      /\ Last' \in Nat /\ DOMAIN rows' = 1..Last' /\ 1..Last \subseteq 1..Last'
      /\ DOMAIN posts = 1..Len(posts)
  <2>1. Last' \in Nat /\ DOMAIN rows' = 1..Last'
    BY SeqFacts DEF Last, Calm
  <2> QED BY <2>1, Types DEF Inv, Calm
<1>1. OneSendAtATime'
  BY <1>0 DEF OneSendAtATime, Calm, State
<1>2. StillSourced
  <2> SUFFICES ASSUME NEW m \in 1..Len(posts)
               PROVE  \E q \in 1..Last' : rows'[q].tried /\ ~Unposted(q)'
                                          /\ rows'[q].content.packages = posts[m].packages
    BY DEF StillSourced
  <2>1. PICK q \in 1..Last : rows[q].tried /\ ~Unposted(q)
                             /\ rows[q].content.packages = posts[m].packages
    BY <1>0 DEF Sourced
  <2> QED BY <1>0, <2>1 DEF Calm
<1>3. StillNew'
  <2> SUFFICES ASSUME NEW r \in 1..Last',
                      (r \in queued /\ State(r) = "AWAITING_REVIEW")' \/ Unposted(r)',
                      NEW q \in 1..Last', q # r, rows'[q].tried
               PROVE  rows'[q].content.packages < rows'[r].content.packages
    BY <1>0 DEF StillNew, Newest
  <2>1. r \in 1..Last
    <3>1. CASE r \in queued'
      BY <1>0, <3>1 DEF Calm, Linked
    <3>2. CASE Unposted(r)'
      <4>1. r \in Revisions
        BY <1>0 DEF Calm, Revisions, MaxRows
      <4>2. calls[r] # NoCall
        BY <3>2, <4>1 DEF Calm, Unposted, NoCall
      <4>3. \A s \in Revisions : calls[s] # NoCall => s \in DOMAIN rows
        BY <1>0 DEF TypeOK
      <4> QED BY <1>0, <4>1, <4>2, <4>3
    <3> QED BY <3>1, <3>2
  <2>2. q \in 1..Last
    BY DEF Calm
  <2>3. (r \in queued /\ State(r) = "AWAITING_REVIEW") \/ Unposted(r)
    BY <1>0, <2>1 DEF Calm, State
  <2>4. rows[q].content.packages < rows[r].content.packages
    BY <1>0, <2>1, <2>2, <2>3 DEF StillNew, Newest, Calm
  <2>5. /\ rows[r].content.packages \in Int /\ rows[q].content.packages \in Int
        /\ rows'[r].content.packages \in Int
    BY <1>0, <2>1, <2>2, Types, SeqFacts, Packages DEF Calm, Last
  <2> QED BY <2>1, <2>2, <2>4, <2>5 DEF Calm
<1> QED BY <1>1, <1>2, <1>3

LEMMA SamePostsStep ==
    ASSUME Inv, rows' \in Seq(Row), StillSourced, SamePosts
    PROVE  Sourced' /\ AutomaticIsNew'
<1>1. DOMAIN rows' = 1..Last' /\ DOMAIN posts = 1..Len(posts) /\ AutomaticIsNew
  BY SeqFacts, Types DEF Inv, Last
<1>2. Sourced'
  BY <1>1 DEF Sourced, StillSourced, SamePosts
<1>3. AutomaticIsNew'
  BY <1>1 DEF AutomaticIsNew, SamePosts
<1> QED BY <1>2, <1>3

\* No lookup is begun or answered, no receipt recorded, no row a lookup asks
\* about changed but by a decision.
Unasked ==
  /\ rows' \in Seq(Row) /\ Last' >= Last
  /\ \A o \in Owners : checks'[o] = checks[o] \/ checks'[o].pc = "none"
  /\ \A m \in 1..Len(posts) : posts'[m].fate = posts[m].fate
  /\ \A r \in 1..Last' :
       rows'[r].state = "DELIVERED" \/ (rows'[r].state = "RETRYABLE" /\ rows'[r].msg # 0) =>
         r \in 1..Last /\ rows'[r].state = rows[r].state /\ rows'[r].msg = rows[r].msg
  /\ \A r \in 1..Last :
       /\ State(r) \in Decided => rows'[r].state \in Decided
       /\ State(r) \in Undelivered =>
            \/ rows'[r].state \in Decided
            \/ /\ rows'[r].state \in Undelivered
               /\ rows'[r].owner = rows[r].owner /\ rows'[r].msg = rows[r].msg

LEMMA UnaskedStep ==
    ASSUME Inv, Unasked
    PROVE  Receipts'
<1> SUFFICES ASSUME "slow_receipt" \notin Faults
             PROVE  ReceiptIsTrue' /\ \A o \in Owners : AskedOf(o)'
  BY DEF Receipts
<1>0. /\ TypeOK /\ Linked /\ ReceiptIsTrue /\ \A o \in Owners : AskedOf(o)
      /\ Last \in Nat /\ DOMAIN rows = 1..Last /\ DOMAIN rows' = 1..Last'
      /\ \A r \in 1..Last : rows[r].msg \in 0..Len(posts)
      /\ Len(posts) \in Nat
  <2>1. DOMAIN rows' = 1..Last'
    BY SeqFacts DEF Last, Unasked
  <2> QED BY <2>1, Types DEF Inv, Linked, Receipts
<1>1. ReceiptIsTrue'
  <2> SUFFICES ASSUME NEW r \in 1..Last',
                      rows'[r].state = "DELIVERED"
                        \/ (rows'[r].state = "RETRYABLE" /\ rows'[r].msg # 0)
               PROVE  /\ rows'[r].msg # 0
                      /\ rows'[r].state = "DELIVERED" => posts'[rows'[r].msg].fate = "delivered"
                      /\ rows'[r].state = "RETRYABLE" => posts'[rows'[r].msg].fate = "failed"
    BY <1>0 DEF ReceiptIsTrue, State
  <2>1. r \in 1..Last /\ rows'[r].state = rows[r].state /\ rows'[r].msg = rows[r].msg
    BY DEF Unasked
  <2>2. rows[r].msg # 0 /\ rows[r].msg \in 1..Len(posts)
    BY <1>0, <2>1 DEF ReceiptIsTrue, State
  <2> QED BY <1>0, <2>1, <2>2 DEF ReceiptIsTrue, State, Unasked
<1>2. ASSUME NEW o \in Owners PROVE AskedOf(o)'
  <2>1. CASE checks'[o].pc = "none"
    BY <2>1 DEF AskedOf
  <2>2. CASE checks'[o] = checks[o] /\ checks[o].pc = "asked"
    <3>1. checks[o].row \in 1..Last
      BY <1>0, <2>2 DEF Linked
    <3> QED BY <1>0, <2>2, <3>1 DEF AskedOf, Unasked, State
  <2>3. CASE checks'[o] = checks[o] /\ checks[o].pc # "asked"
    BY <2>3 DEF AskedOf
  <2> QED BY <2>1, <2>2, <2>3 DEF Unasked
<1> QED BY <1>1, <1>2

\* The bounds, for a step that drafts or rejects; a wish pays for two revisions.
LEMMA CountedStep ==
    ASSUME TypeOK, Counted, Redrafted(rows'), UNCHANGED content,
           (turns' = turns /\ Fits(rows')) \/ turns' = turns + 1
    PROVE  Counted'
<1>1. /\ turns \in Nat /\ content.packages \in Nat /\ content.text \in Nat
      /\ rows \in Seq(Row) /\ rows' \in Seq(Row) /\ Last \in Nat /\ Last' \in Nat
      /\ (rows = <<>> <=> Last = 0) /\ (rows' = <<>> <=> Last' = 0)
      /\ Last' \in {Last, Last + 1} /\ Len(rows') = Last' /\ Len(rows) = Last
  <2>1. rows' \in Seq(Row) /\ Len(rows') \in {Last, Last + 1} /\ Last' = Len(rows')
    BY DEF Redrafted, Last
  <2>2. turns \in Nat /\ content.packages \in Nat /\ content.text \in Nat /\ rows \in Seq(Row)
    BY DEF TypeOK, Contents
  <2> QED BY <2>1, <2>2, SeqFacts DEF Last
<1>2. CASE turns' = turns + 1
  BY <1>1, <1>2 DEF Counted
<1>3. CASE turns' = turns /\ Fits(rows')
  <2>1. CASE Stale /\ rows' # <<>> /\ rows'[Last'].content = content
             /\ (content.sendable = "conflict" => rows'[Last'].state = "HELD")
    <3>1. ~Stale'
      BY <1>1, <2>1 DEF Stale, State
    <3> QED BY <1>1, <1>3, <2>1, <3>1 DEF Counted
  <2>2. CASE /\ Last' = Last
             /\ Last > 0 => /\ rows'[Last].content = rows[Last].content
                            /\ State(Last) = "HELD" => rows'[Last].state = "HELD"
    <3>1. Stale' => Stale
      BY <1>1, <2>2 DEF Stale, State
    <3> QED BY <1>1, <1>3, <2>2, <3>1 DEF Counted
  <2> QED BY <1>1, <1>3, <2>1, <2>2 DEF Fits
<1> QED BY <1>2, <1>3

------------------------------------------------------------------------------
(* The steps that draft, reject, edit, hand back and decide. *)

\* A revision that moves keeps what the rows promise.
LEMMA MovedRow ==
    ASSUME NEW x \in Row, NEW y \in Row, Moves(x, y)
    PROVE  /\ y.state \in {"AWAITING_REVIEW", "SENDING", "ACCEPTED", "DELIVERY_UNCONFIRMED",
                           "DELIVERED", "RETRYABLE"} => y.state = x.state /\ y.owner = x.owner
           /\ x.state \in Decided => y.state \in Decided
           /\ x.state = "SENDING" => y.state = "SENDING"
           /\ x.state \in Undelivered => y.state \in Decided \/ (y.state = x.state /\ y.owner = x.owner)
           /\ y.owner # Nobody => y.owner = x.owner
           /\ y.state \in Undelivered => x.state \in Undelivered
           /\ y.state = "HELD" => x.state \in Open
           /\ y.state \in {"REJECTED", "HELD"} => y.owner = x.owner
BY Kinds DEF Moves, Decided, Undelivered, Open

LEMMA RedraftStep ==
    ASSUME Inv, Redrafted(rows'), Counted', UNCHANGED <<calls, posts, checks>>,
           content' \in Contents, turns' \in 0..MaxTurns,
           queued' \subseteq queued, queued' \subseteq dispatched', dispatched' \subseteq Revisions
    PROVE  Inv'
<1>0. /\ TypeOK /\ Linked
      /\ Last \in Nat /\ DOMAIN rows = 1..Last /\ \A r \in 1..Last : rows[r] \in Row
      /\ rows' \in Seq(Row) /\ Last' \in {Last, Last + 1} /\ Last' \in Nat
      /\ DOMAIN rows' = 1..Last' /\ \A r \in 1..Last' : rows'[r] \in Row
      /\ \A r \in 1..Last : \/ Moves(rows[r], rows'[r])
                            \/ r = Last /\ Last' = Last /\ Rewritten(rows[r], rows'[r])
      /\ Last' = Last + 1 => /\ New(rows'[Last']) 
                             /\ \A r \in 1..Last : rows'[r].state # "AWAITING_REVIEW"
  <2>1. rows' \in Seq(Row) /\ Last' \in {Last, Last + 1} /\ Last' = Len(rows')
    BY DEF Redrafted, Last
  <2>2. TypeOK /\ Linked
    BY DEF Inv
  <2>3. DOMAIN rows' = 1..Last' /\ Last' \in Nat /\ \A r \in 1..Last' : rows'[r] \in Row
    BY <2>1, SeqFacts
  <2>4. Last \in Nat /\ DOMAIN rows = 1..Last /\ \A r \in 1..Last : rows[r] \in Row
    BY <2>2, Types
  <2> QED BY <2>1, <2>2, <2>3, <2>4 DEF Redrafted
<1>1. Last' <= MaxRows
  <2>1. content'.packages \in 1..MaxPackages
    BY DEF Contents
  <2>2. Last' <= content'.packages + 2 * turns'
    BY DEF Counted, Last
  <2>3. content'.packages <= MaxPackages /\ turns' <= MaxTurns
        /\ content'.packages \in Int /\ turns' \in Int
    BY <2>1
  <2> QED BY <1>0, <2>2, <2>3 DEF MaxRows
<1>2. ASSUME NEW r \in 1..Last, Moves(rows[r], rows'[r])
      PROVE  /\ rows'[r].tried = rows[r].tried /\ rows'[r].content = rows[r].content
             /\ rows'[r].msg = rows[r].msg
             /\ rows'[r].state \in {"AWAITING_REVIEW", "SENDING"} => rows'[r].state = rows[r].state
  BY <1>0, <1>2, MovedRow DEF Moves
<1>3. ASSUME NEW r \in 1..Last, Rewritten(rows[r], rows'[r])
      PROVE  /\ ~rows'[r].tried /\ ~rows[r].tried /\ r = Last /\ New(rows'[r])
             /\ rows'[r].content.packages > rows[r].content.packages
             /\ rows[r].state = "AWAITING_REVIEW"
             /\ rows'[r].state \in {"AWAITING_REVIEW", "HELD"}
  BY <1>0, <1>3 DEF Rewritten, New, Linked, State
<1>4. TypeOK'
  <2>1. ASSUME NEW r \in Revisions, calls'[r] # NoCall PROVE r \in 1..Last' /\ rows'[r].state = "SENDING"
    <3>1. r \in 1..Last /\ rows[r].state = "SENDING"
      BY <1>0, <2>1 DEF TypeOK, State
    <3> QED BY <1>0, <1>3, <3>1, MovedRow
  <2> QED BY <1>0, <1>1, <2>1 DEF TypeOK, Last, State
<1>5. Calm
  <2>1. ASSUME NEW q \in 1..Last
        PROVE  /\ rows'[q].tried = rows[q].tried
               /\ rows'[q].content.packages >= rows[q].content.packages
               /\ rows[q].tried => rows'[q].content.packages = rows[q].content.packages
               /\ rows'[q].state \in {"AWAITING_REVIEW", "SENDING"} => rows'[q].state = rows[q].state
    <3>0. rows[q].content.packages \in Int /\ rows'[q].content.packages \in Int
          /\ rows[q].tried \in BOOLEAN /\ rows'[q].tried \in BOOLEAN
      BY <1>0, Packages, RowIs
    <3>1. CASE Moves(rows[q], rows'[q])
      BY <1>2, <3>0, <3>1
    <3>2. CASE Rewritten(rows[q], rows'[q])
      BY <1>3, <3>0, <3>2
    <3> QED BY <1>0, <3>1, <3>2
  <2>2. ASSUME NEW q \in 1..Last' \ 1..Last PROVE ~rows'[q].tried /\ rows'[q].state # "SENDING"
    <3>1. q = Last' /\ Last' = Last + 1
      BY <1>0
    <3> QED BY <1>0, <3>1, Kinds DEF New, Decided
  <2>3. Last' \in Last..MaxRows
    BY <1>0, <1>1 DEF MaxRows
  <2> QED BY <1>0, <2>1, <2>2, <2>3 DEF Calm, Unposted
<1>6. Unasked
  <2>1. ASSUME NEW r \in 1..Last',
               rows'[r].state = "DELIVERED" \/ (rows'[r].state = "RETRYABLE" /\ rows'[r].msg # 0)
        PROVE  r \in 1..Last /\ rows'[r].state = rows[r].state /\ rows'[r].msg = rows[r].msg
    <3>1. ~New(rows'[r])
      BY <2>1, Kinds DEF New, Decided
    <3>2. r \in 1..Last
      BY <1>0, <3>1
    <3>3. Moves(rows[r], rows'[r])
      BY <1>0, <3>1, <3>2 DEF Rewritten
    <3> QED BY <1>0, <1>2, <2>1, <3>2, <3>3, MovedRow
  <2>2. ASSUME NEW r \in 1..Last
        PROVE  /\ State(r) \in Decided => rows'[r].state \in Decided
               /\ State(r) \in Undelivered =>
                    \/ rows'[r].state \in Decided
                    \/ /\ rows'[r].state \in Undelivered
                       /\ rows'[r].owner = rows[r].owner /\ rows'[r].msg = rows[r].msg
    <3>1. CASE Moves(rows[r], rows'[r])
      BY <1>0, <1>2, <3>1, MovedRow DEF State
    <3>2. CASE Rewritten(rows[r], rows'[r])
      BY <1>3, <3>2 DEF State, Decided, Undelivered
    <3> QED BY <1>0, <3>1, <3>2
  <2>3. Last' >= Last
    BY <1>0
  <2> QED BY <1>0, <2>1, <2>2, <2>3 DEF Unasked
<1>7. Linked'
  <2>1. ASSUME NEW r \in 1..Last'
        PROVE  /\ rows'[r].msg \in 0..Len(posts)
               /\ rows'[r].state \in Undelivered => rows'[r].msg # 0
               /\ rows'[r].owner # Nobody => rows'[r].state \in Undelivered
               /\ rows'[r].state = "AWAITING_REVIEW" => r = Last' /\ ~rows'[r].tried
               /\ rows'[r].state = "SENDING" => rows'[r].tried
    <3>a. Len(posts) \in Nat
      BY <1>0, Types
    <3>1. CASE r \in 1..Last /\ Moves(rows[r], rows'[r])
      <4>1. /\ rows[r].msg \in 0..Len(posts)
            /\ rows[r].state \in Undelivered => rows[r].msg # 0
            /\ rows[r].owner # Nobody => rows[r].state \in Undelivered
            /\ rows[r].state = "AWAITING_REVIEW" => r = Last /\ ~rows[r].tried
            /\ rows[r].state = "SENDING" => rows[r].tried
        BY <1>0, <3>1 DEF Linked, State
      <4>2. rows'[r].owner # Nobody => rows'[r].state \in Undelivered
        BY <3>1, <4>1, Kinds DEF Moves
      <4> QED BY <1>0, <1>2, <3>1, <4>1, <4>2, MovedRow
    <3>2. CASE New(rows'[r]) /\ r = Last'
      BY <3>2, <3>a DEF New, Decided, Undelivered
    <3> QED BY <1>0, <1>3, <3>1, <3>2
  <2>2. queued' \subseteq 1..Last'
    BY <1>0 DEF Linked
  <2> QED BY <1>0, <2>1, <2>2 DEF Linked, State
<1>8. Sourced' /\ AutomaticIsNew'
  BY <1>0, <1>5, CalmStep, SamePostsStep DEF SamePosts
<1> QED BY <1>4, <1>5, <1>6, <1>7, <1>8, CalmStep, UnaskedStep DEF Inv

\* What DecisionStands says of a step.
Stands ==
  /\ \A r \in DOMAIN rows : State(r) \in Decided => rows'[r].state \in Decided
  /\ Last > 0 /\ State(Last) = "CANCELLED" /\ Len(rows') > Last => rows'[Len(rows')].reopened

LEMMA RedraftStands ==
    ASSUME TypeOK, Redrafted(rows'),
           Len(rows') > Last /\ Last > 0 /\ State(Last) = "CANCELLED" => rows'[Last + 1].reopened
    PROVE  Stands
<1>0. /\ DOMAIN rows = 1..Last /\ \A r \in 1..Last : rows[r] \in Row
      /\ rows' \in Seq(Row) /\ Len(rows') \in {Last, Last + 1} /\ Last \in Nat
      /\ \A r \in 1..Len(rows') : rows'[r] \in Row
  BY Types, SeqFacts DEF Redrafted
<1>1. ASSUME NEW r \in 1..Last, State(r) \in Decided PROVE rows'[r].state \in Decided
  <2>1. Moves(rows[r], rows'[r])
    BY <1>0, <1>1, Kinds DEF Redrafted, Rewritten, State, Open
  <2> QED BY <1>0, <1>1, <2>1, MovedRow DEF State
<1> QED BY <1>0, <1>1 DEF Stands

\* A claim either begins a send or only drafts and notes.
LEMMA Claims ==
    ASSUME Inv, NEW r \in Revisions, NEW state \in {"AWAITING_REVIEW", "RETRYABLE"}, NEW by,
           ClaimOf(r, state, by)
    PROVE  \/ /\ Redrafted(rows') /\ Fits(rows') /\ calls' = calls
              /\ Len(rows') > Last /\ Last > 0 => State(Last) # "CANCELLED"
           \/ /\ Claimable(r, state) /\ rows[r].content = content /\ content.sendable = "yes"
              /\ rows' = [rows EXCEPT ![r].state = "SENDING", ![r].tried = TRUE]
              /\ calls' = [calls EXCEPT ![r] = [NoCall EXCEPT !.by = by]]
<1>0. /\ TypeOK /\ Linked /\ rows \in Seq(Row) /\ Last \in Nat
      /\ DOMAIN rows = 1..Last /\ Len(rows) = Last /\ \A q \in 1..Last : rows[q] \in Row
  BY Types DEF Inv, Last
<1>1. Redrafted(Noted(rows)) /\ Fits(Noted(rows)) /\ Len(Noted(rows)) = Last
  BY <1>0, Unchanged, NotesFit
<1>2. CASE ~Claimable(r, state)
  BY <1>0, <1>1, <1>2 DEF ClaimOf
<1>3. CASE Claimable(r, state) /\ rows[r].content # content
  <2>1. rows' = Noted(Prepared(FALSE)) /\ calls' = calls
    BY <1>3 DEF ClaimOf
  <2>2. /\ Redrafted(Prepared(FALSE)) /\ Fits(Prepared(FALSE))
        /\ Len(Prepared(FALSE)) > Last /\ Last > 0 => State(Last) # "CANCELLED"
    BY <1>0, PreparedIs
  <2> QED BY <1>0, <2>1, <2>2, NotesFit
<1>4. CASE Claimable(r, state) /\ rows[r].content = content /\ content.sendable # "yes"
  <2>1. r = Last /\ r \in 1..Last /\ rows[r].state = state
    BY <1>0, <1>4 DEF Claimable, Latest, State
  <2>2. CASE rows' = Noted(rows) /\ calls' = calls
    BY <1>0, <1>1, <2>2
  <2>3. CASE rows' = [rows EXCEPT ![r].state = "HELD"] /\ calls' = calls
    <3> DEFINE y == [rows[r] EXCEPT !.state = "HELD"]
    <3>1. y \in Row /\ Moves(rows[r], y) /\ y.state = "HELD"
      BY <1>0, <2>1, ClosedRow DEF Open
    <3>2. rows' = [rows EXCEPT ![r] = y]
      BY <1>0, <2>3
    <3> HIDE DEF y
    <3>3. /\ rows' \in Seq(Row) /\ Len(rows') = Last
          /\ \A q \in 1..Last : rows'[q] = IF q = r THEN y ELSE rows[q]
      BY <1>0, <2>1, <3>1, <3>2, Replaced
    <3>4. Redrafted(rows')
      BY <1>0, <3>1, <3>3 DEF Redrafted, Moves
    <3>5. Fits(rows')
      BY <1>0, <2>1, <3>1, <3>3 DEF Fits, Moves
    <3> QED BY <1>0, <2>3, <3>3, <3>4, <3>5
  <2> QED BY <1>4, <2>2, <2>3 DEF ClaimOf
<1>5. CASE Claimable(r, state) /\ rows[r].content = content /\ content.sendable = "yes"
  BY <1>5 DEF ClaimOf
<1> QED BY <1>2, <1>3, <1>4, <1>5

NoConflicts == "name_conflict" \notin Faults

\* A failed claim, or a scan: drafts may be made, nothing else changes.
LEMMA DraftingStep ==
    ASSUME Inv, Redrafted(rows'), Fits(rows'), UNCHANGED <<content, calls, posts, checks, turns>>,
           queued' \subseteq queued, UNCHANGED dispatched,
           (Len(rows') > Last /\ Last > 0 /\ NoConflicts) => State(Last) # "CANCELLED"
    PROVE  Inv' /\ (NoConflicts => Stands)
<1>1. Counted'
  BY CountedStep DEF Inv
<1>2. content' \in Contents /\ turns' \in 0..MaxTurns /\ queued' \subseteq dispatched'
      /\ dispatched' \subseteq Revisions
  BY DEF Inv, TypeOK
<1>3. NoConflicts => Stands
  BY RedraftStands DEF Inv
<1> QED BY <1>1, <1>2, <1>3, RedraftStep

LEMMA ScanStep ==
    ASSUME Inv, Scan
    PROVE  Inv' /\ (NoConflicts => Stands)
<1> DEFINE c == content.sendable = "conflict"
<1>1. TypeOK /\ Linked /\ c \in BOOLEAN /\ rows' = Prepared(c)
  BY DEF Inv, Scan
<1>2. NoConflicts => ~c
  BY <1>1 DEF TypeOK, Contents, Sendable, NoConflicts
<1> QED BY <1>1, <1>2, PreparedIs, DraftingStep DEF Scan

\* The order changes, and its revisions do not.
LEMMA OrderStep ==
    ASSUME Inv, NewPackage \/ Edit
    PROVE  Inv' /\ (NoConflicts => Stands)
<1>1. /\ rows' = rows /\ UNCHANGED <<calls, posts, checks, queued, dispatched>> /\ Last' = Last
      /\ turns \in 0..MaxTurns /\ content \in Contents /\ rows \in Seq(Row) /\ Last \in Nat
      /\ Redrafted(rows') /\ TypeOK /\ Counted
  BY Unchanged, Types DEF Inv, TypeOK, NewPackage, Edit, Last
<1>2. content' \in Contents /\ turns' \in 0..MaxTurns /\ Counted'
  <2>1. CASE NewPackage
    <3>1. /\ content.packages < MaxPackages /\ turns' = turns
          /\ content' = [content EXCEPT !.packages = @ + 1]
      BY <2>1 DEF NewPackage
    <3>2. /\ content' \in Contents /\ content'.packages = content.packages + 1
          /\ content'.text = content.text /\ content.packages \in Nat
      BY <1>1, <3>1 DEF Contents
    <3> QED BY <1>1, <3>1, <3>2 DEF Counted
  <2>2. CASE Edit
    <3>1. PICK s \in Sendable : /\ turns < MaxTurns /\ turns' = turns + 1
                                /\ content' = [content EXCEPT !.text = @ + 1, !.sendable = s]
      BY <2>2 DEF Edit
    <3>2. /\ content.text \in Nat /\ content.text <= turns /\ content.packages \in 1..MaxPackages
          /\ content.text + 1 \in 0..MaxTurns
      BY <1>1, <3>1 DEF Contents, Counted
    <3>3. content' = [packages |-> content.packages, text |-> content.text + 1, sendable |-> s]
      BY <1>1, <3>1 DEF Contents
    <3>4. /\ content' \in Contents /\ content'.packages = content.packages
          /\ content'.text = content.text + 1
      BY <3>2, <3>3 DEF Contents
    <3> QED BY <1>1, <3>1, <3>2, <3>4 DEF Counted, Last
  <2> QED BY <2>1, <2>2
<1>3. queued' \subseteq queued /\ queued' \subseteq dispatched' /\ dispatched' \subseteq Revisions
  BY <1>1 DEF TypeOK
<1>4. Stands
  BY <1>1 DEF Stands, State, Last
<1> QED BY <1>1, <1>2, <1>3, <1>4, RedraftStep

\* A wish: the operator's decision, a reopened review or a rejection.
LEMMA WishStep ==
    ASSUME Inv, Wish, Redrafted(rows'),
           Len(rows') > Last /\ Last > 0 /\ State(Last) = "CANCELLED" => rows'[Last + 1].reopened
    PROVE  Inv' /\ Stands
<1>1. /\ UNCHANGED <<content, calls, posts, checks, queued, dispatched>>
      /\ turns' = turns + 1 /\ turns < MaxTurns /\ TypeOK /\ Counted
  BY DEF Inv, Wish
<1>2. content' \in Contents /\ turns' \in 0..MaxTurns /\ queued' \subseteq dispatched'
      /\ dispatched' \subseteq Revisions /\ queued' \subseteq queued
  BY <1>1 DEF TypeOK
<1>3. Counted'
  BY <1>1, CountedStep
<1>4. Stands
  BY <1>1, RedraftStands
<1> QED BY <1>1, <1>2, <1>3, <1>4, RedraftStep

LEMMA DecideStep ==
    ASSUME Inv, NEW d \in Decided, Decide(d)
    PROVE  Inv' /\ Stands
<1>0. /\ TypeOK /\ Linked /\ Wish /\ rows \in Seq(Row) /\ Last \in 1..Last /\ Last \in Nat
      /\ Len(rows) = Last /\ DOMAIN rows = 1..Last /\ \A r \in 1..Last : rows[r] \in Row
      /\ d \in States
  BY Types, Kinds DEF Inv, Decide, Last
<1>1. CASE State(Last) = "SENDING"
  <2> DEFINE y == Draft(d, rows[Last].content, FALSE)
  <2>1. y \in Row /\ New(y)
    BY <1>0, DraftIs, RowIs
  <2>2. rows' = Append(rows, y)
    BY <1>0, <1>1 DEF Decide
  <2> HIDE DEF y
  <2>3. /\ rows' \in Seq(Row) /\ Len(rows') = Last + 1 /\ rows'[Last + 1] = y
        /\ \A r \in 1..Last : rows'[r] = rows[r]
    BY <1>0, <2>1, <2>2, Added
  <2>4. \A r \in 1..Last : rows[r].state # "AWAITING_REVIEW"
    BY <1>0, <1>1 DEF Linked, State
  <2>5. Redrafted(rows')
    BY <2>1, <2>3, <2>4 DEF Redrafted, Moves
  <2> QED BY <1>0, <1>1, <2>5, WishStep
<1>2. CASE State(Last) # "SENDING"
  <2> DEFINE y == [rows[Last] EXCEPT !.state = d, !.owner = Nobody, !.err = FALSE]
  <2>1. y \in Row /\ Moves(rows[Last], y)
    BY <1>0, <1>2 DEF Row, Moves, State
  <2>2. rows' = [rows EXCEPT ![Last] = y]
    BY <1>0, <1>2 DEF Decide
  <2> HIDE DEF y
  <2>3. /\ rows' \in Seq(Row) /\ Len(rows') = Last
        /\ \A r \in 1..Last : rows'[r] = IF r = Last THEN y ELSE rows[r]
    BY <1>0, <2>1, <2>2, Replaced
  <2>4. Redrafted(rows')
    BY <1>0, <2>1, <2>3 DEF Redrafted, Moves
  <2> QED BY <1>0, <2>3, <2>4, WishStep
<1> QED BY <1>1, <1>2

LEMMA ReopenStep ==
    ASSUME Inv, Reopen
    PROVE  Inv' /\ Stands
<1> DEFINE y == Draft("AWAITING_REVIEW", content, TRUE)
           open == {"AWAITING_REVIEW", "RETRYABLE"}
<1>0. /\ TypeOK /\ Wish /\ rows \in Seq(Row) /\ content \in Contents /\ Last \in Nat
      /\ \A r \in DOMAIN rows : State(r) = "AWAITING_REVIEW" => r = Last
      /\ rows' = Append(Superseded(rows, open), y)
  BY Types DEF Inv, Reopen, TypeOK, Linked
<1>1. y \in Row /\ New(y) /\ y.reopened
  BY <1>0, DraftIs, Kinds DEF Open
<1>2. open \in SUBSET Open /\ "AWAITING_REVIEW" \in open
  BY DEF Open
<1> HIDE DEF y, open
<1>3. Redrafted(rows') /\ rows'[Last + 1] = y
  BY <1>0, <1>1, <1>2, Closed
<1> QED BY <1>0, <1>1, <1>3, WishStep

LEMMA RejectStep ==
    ASSUME Inv, NEW r \in Revisions, Reject(r)
    PROVE  Inv' /\ Stands
<1> DEFINE y == [rows[r] EXCEPT !.state = "REJECTED"]
<1>0. /\ TypeOK /\ Wish /\ rows \in Seq(Row) /\ Last \in Nat /\ r \in 1..Last /\ rows[r] \in Row
      /\ Len(rows) = Last /\ rows[r].state \in Open
  BY Types DEF Inv, Reject, Last, State, Open
<1>1. y \in Row /\ Moves(rows[r], y)
  BY <1>0, ClosedRow
<1>2. rows' = [rows EXCEPT ![r] = y]
  BY DEF Reject
<1> HIDE DEF y
<1>3. /\ rows' \in Seq(Row) /\ Len(rows') = Last
      /\ \A q \in 1..Last : rows'[q] = IF q = r THEN y ELSE rows[q]
  BY <1>0, <1>1, <1>2, Replaced
<1>4. Redrafted(rows')
  BY <1>0, <1>1, <1>3 DEF Redrafted, Moves
<1> QED BY <1>0, <1>3, <1>4, WishStep

\* A task that gives its revision back.
LEMMA WithdrawStep ==
    ASSUME Inv, NEW r \in Revisions, Withdraw(r)
    PROVE  Inv' /\ Stands
<1>1. /\ TypeOK /\ Counted /\ rows' = rows /\ UNCHANGED <<content, calls, posts, checks, turns>>
      /\ queued' = queued \ {r} /\ dispatched' = dispatched \ {r}
      /\ Redrafted(rows')
  BY Unchanged, Types DEF Inv, Withdraw
<1>2. Counted'
  BY <1>1 DEF Counted, Stale, State, Last
<1>3. content' \in Contents /\ turns' \in 0..MaxTurns /\ queued' \subseteq queued
      /\ queued' \subseteq dispatched' /\ dispatched' \subseteq Revisions
  BY <1>1 DEF TypeOK
<1>4. Stands
  BY <1>1 DEF Stands, State, Last
<1> QED BY <1>1, <1>2, <1>3, <1>4, RedraftStep

------------------------------------------------------------------------------
(* Sending. *)

\* What an action that writes one row does to the rows.
RowPut(r, y) ==
  /\ rows' \in Seq(Row) /\ Last' = Last /\ DOMAIN rows' = 1..Last
  /\ rows'[r] = y /\ \A q \in 1..Last \ {r} : rows'[q] = rows[q]

LEMMA RowPuts ==
    ASSUME TypeOK, NEW r \in 1..Last, NEW y \in Row, rows' = [rows EXCEPT ![r] = y]
    PROVE  RowPut(r, y)
<1>1. rows \in Seq(Row) /\ Len(rows) = Last
  BY DEF TypeOK, Last
<1>2. /\ rows' \in Seq(Row) /\ Len(rows') = Len(rows)
      /\ \A q \in 1..Len(rows) : rows'[q] = IF q = r THEN y ELSE rows[q]
  BY <1>1, Replaced
<1> QED BY <1>1, <1>2, SeqFacts DEF RowPut, Last

LEMMA BeginStep ==
    ASSUME Inv, NEW r \in Revisions, NEW state \in {"AWAITING_REVIEW", "RETRYABLE"},
           NEW by \in {"hand", "auto"}, by = "auto" => r \in queued /\ state = "AWAITING_REVIEW",
           Claimable(r, state), content.sendable = "yes",
           rows' = [rows EXCEPT ![r].state = "SENDING", ![r].tried = TRUE],
           calls' = [calls EXCEPT ![r] = [NoCall EXCEPT !.by = by]], queued' \subseteq queued,
           UNCHANGED <<content, posts, checks, dispatched, turns>>
    PROVE  Inv' /\ Stands
<1> DEFINE y == [rows[r] EXCEPT !.state = "SENDING", !.tried = TRUE]
<1>0. /\ TypeOK /\ Counted /\ Linked /\ OneSendAtATime /\ Sourced /\ StillNew
      /\ Last \in Nat /\ Last <= MaxRows /\ DOMAIN rows = 1..Last /\ 1..Last \subseteq Revisions
      /\ rows \in Seq(Row) /\ \A q \in 1..Last : rows[q] \in Row
      /\ Len(posts) \in Nat /\ Len(rows) = Last /\ r = Last /\ r \in 1..Last
      /\ rows[r].state = state
  BY Types DEF Inv, Claimable, Latest, State, Last
<1>1. /\ y \in Row /\ y.state = "SENDING" /\ y.tried /\ y.content = rows[r].content
      /\ y.msg = rows[r].msg /\ y.owner = rows[r].owner
  BY <1>0, Kinds DEF Row
<1>2. rows' = [rows EXCEPT ![r] = y]
  OBVIOUS
<1> HIDE DEF y
<1>3. /\ rows' \in Seq(Row) /\ Len(rows') = Last /\ Last' = Last /\ DOMAIN rows' = 1..Last
      /\ \A q \in 1..Last : rows'[q] = IF q = r THEN y ELSE rows[q]
  BY <1>0, <1>1, <1>2, RowPuts DEF RowPut, Last
<1>4. /\ calls' \in [Revisions -> [by : {"none", "hand", "auto"}, msg : 0..MaxPosts]]
      /\ calls'[r].by = by /\ calls'[r].msg = 0
      /\ \A q \in Revisions \ {r} : calls'[q] = calls[q]
  BY DEF TypeOK, Inv, NoCall
<1>5. \A q \in 1..Last \ {r} : rows[q].state \notin {"SENDING", "AWAITING_REVIEW"} /\ ~Unposted(q)
  <2> TAKE q \in 1..Last \ {r}
  <2>1. rows[q].state # "SENDING"
    BY <1>0 DEF Claimable, InFlight, State
  <2>2. rows[q].state # "AWAITING_REVIEW"
    BY <1>0 DEF Linked, State
  <2>3. ~Unposted(q)
    BY <1>0, <2>1 DEF TypeOK, Unposted, NoCall, State
  <2> QED BY <2>1, <2>2, <2>3
<1>6. TypeOK'
  <2>1. \A q \in Revisions : calls'[q] # NoCall => q \in DOMAIN rows' /\ State(q)' = "SENDING"
    BY <1>0, <1>1, <1>3, <1>4, <1>5 DEF TypeOK, State
  <2>2. queued' \subseteq dispatched'
    BY <1>0 DEF TypeOK
  <2> QED BY <1>0, <1>3, <1>4, <2>1, <2>2 DEF TypeOK, Last
<1>7. Counted'
  <2>1. Stale' => Stale
    BY <1>0, <1>1, <1>3 DEF Stale, State
  <2> QED BY <1>0, <1>3, <2>1 DEF Counted
<1>8. Linked'
  <2>1. ASSUME NEW q \in 1..Last
        PROVE  /\ rows'[q].msg \in 0..Len(posts)
               /\ rows'[q].state \in Undelivered => rows'[q].msg # 0
               /\ rows'[q].owner # Nobody => rows'[q].state \in Undelivered
               /\ rows'[q].state = "AWAITING_REVIEW" => q = Last /\ ~rows'[q].tried
               /\ rows'[q].state = "SENDING" => rows'[q].tried
    <3>1. /\ rows[q].msg \in 0..Len(posts)
          /\ rows[q].state \in Undelivered => rows[q].msg # 0
          /\ rows[q].owner # Nobody => rows[q].state \in Undelivered
          /\ rows[q].state = "AWAITING_REVIEW" => q = Last /\ ~rows[q].tried
          /\ rows[q].state = "SENDING" => rows[q].tried
      BY <1>0 DEF Linked, State
    <3>2. state \notin Undelivered
      BY DEF Undelivered
    <3> QED BY <1>0, <1>1, <1>3, <3>1, <3>2, Kinds
  <2>2. \A q \in Revisions : calls'[q].msg \in 0..Len(posts)
    BY <1>0, <1>4 DEF Linked
  <2>3. queued' \subseteq 1..Last
    BY <1>0 DEF Linked
  <2>4. \A o \in Owners : /\ checks'[o].pc # "none" => checks'[o].row \in 1..Last
                          /\ checks'[o].pc = "asked" => checks'[o].msg \in DOMAIN posts
    BY <1>0 DEF Linked
  <2> QED BY <1>3, <2>1, <2>2, <2>3, <2>4 DEF Linked, State
<1>9. OneSendAtATime'
  BY <1>0, <1>3, <1>5 DEF OneSendAtATime, State
<1>10. Unasked
  BY <1>0, <1>1, <1>3, Kinds DEF Unasked, State, Open
<1>11. Sourced'
  <2> SUFFICES ASSUME NEW m \in DOMAIN posts
               PROVE  \E q \in 1..Last : rows'[q].tried /\ ~Unposted(q)'
                                         /\ rows'[q].content.packages = posts[m].packages
    BY <1>3 DEF Sourced
  <2>1. PICK q \in 1..Last : rows[q].tried /\ ~Unposted(q)
                             /\ rows[q].content.packages = posts[m].packages
    BY <1>0 DEF Sourced
  <2>2. q = r => by = "hand"
    BY <1>0, <2>1 DEF Linked, State
  <2> QED BY <1>0, <1>1, <1>3, <1>4, <2>1, <2>2 DEF Unposted
<1>12. StillNew'
  <2> SUFFICES ASSUME NEW s \in 1..Last,
                      (s \in queued /\ State(s) = "AWAITING_REVIEW")' \/ Unposted(s)'
               PROVE  Newest(s)'
    BY <1>3 DEF StillNew
  <2>1. s = r /\ by = "auto"
    BY <1>0, <1>1, <1>3, <1>4, <1>5 DEF Unposted, State
  <2>2. Newest(r)
    BY <1>0, <2>1 DEF StillNew, State
  <2> QED BY <1>0, <1>1, <1>3, <2>1, <2>2 DEF Newest
<1>13. AutomaticIsNew'
  BY DEF Inv, AutomaticIsNew
<1>14. Stands
  BY <1>0, <1>1, <1>3 DEF Stands, State, Decided
<1> QED BY <1>6, <1>7, <1>8, <1>9, <1>10, <1>11, <1>12, <1>13, <1>14, UnaskedStep DEF Inv

\* An operator's send, and an automatic one: it begins, or drafts and notes.
LEMMA ApproveStep ==
    ASSUME Inv, NEW r \in Revisions, Approve(r)
    PROVE  Inv' /\ (NoConflicts => Stands)
<1>1. /\ ClaimOf(r, State(r), "hand") /\ State(r) \in {"AWAITING_REVIEW", "RETRYABLE"}
      /\ UNCHANGED <<content, posts, checks, queued, dispatched, turns>>
  BY DEF Approve
<1>2. CASE /\ Redrafted(rows') /\ Fits(rows') /\ calls' = calls
           /\ Len(rows') > Last /\ Last > 0 => State(Last) # "CANCELLED"
  BY <1>1, <1>2, DraftingStep
<1>3. CASE /\ Claimable(r, State(r)) /\ content.sendable = "yes"
           /\ rows' = [rows EXCEPT ![r].state = "SENDING", ![r].tried = TRUE]
           /\ calls' = [calls EXCEPT ![r] = [NoCall EXCEPT !.by = "hand"]]
  BY <1>1, <1>3, BeginStep
<1> QED BY <1>1, <1>2, <1>3, Claims

LEMMA AutoSendStep ==
    ASSUME Inv, NEW r \in Revisions, AutoSend(r)
    PROVE  Inv' /\ (NoConflicts => Stands)
<1>1. /\ ClaimOf(r, "AWAITING_REVIEW", "auto") /\ r \in queued /\ queued' \subseteq queued
      /\ UNCHANGED <<content, posts, checks, dispatched, turns>>
  BY DEF AutoSend
<1>2. CASE /\ Redrafted(rows') /\ Fits(rows') /\ calls' = calls
           /\ Len(rows') > Last /\ Last > 0 => State(Last) # "CANCELLED"
  BY <1>1, <1>2, DraftingStep
<1>3. CASE /\ Claimable(r, "AWAITING_REVIEW") /\ content.sendable = "yes"
           /\ rows' = [rows EXCEPT ![r].state = "SENDING", ![r].tried = TRUE]
           /\ calls' = [calls EXCEPT ![r] = [NoCall EXCEPT !.by = "auto"]]
  BY <1>1, <1>3, BeginStep
<1> QED BY <1>1, <1>2, <1>3, Claims

\* Nothing but who waits to send, or to ask, changes.
LEMMA SameRows ==
    ASSUME Inv, UNCHANGED <<rows, content, turns>>
    PROVE  /\ Counted' /\ OneSendAtATime' /\ Stands /\ Last' = Last /\ DOMAIN rows' = DOMAIN rows
           /\ \A q : State(q)' = State(q)
BY DEF Inv, Counted, Stale, OneSendAtATime, Stands, State, Last

\* What a candidate is admitted for: no other revision that was tried tells of
\* all its packages.
LEMMA CandidateIsNewest ==
    ASSUME TypeOK, NEW r \in Revisions, Candidate(r)
    PROVE  r \in DOMAIN rows /\ Newest(r)
<1>1. DOMAIN rows = 1..Last /\ Last \in Nat /\ \A q \in 1..Last : rows[q] \in Row
  BY Types
<1>2. r \in 1..Last
  BY <1>1 DEF Candidate, Latest
<1> QED BY <1>1, <1>2 DEF Candidate, Newest

LEMMA AdmitStep ==
    ASSUME Inv, NEW r \in Revisions, Admit(r)
    PROVE  Inv' /\ Stands
<1>1. /\ TypeOK /\ Linked /\ Receipts /\ Sourced /\ StillNew /\ AutomaticIsNew
      /\ Candidate(r) /\ queued' = queued \cup {r} /\ dispatched' = dispatched \cup {r}
      /\ UNCHANGED <<content, rows, calls, posts, checks, turns>>
  BY DEF Inv, Admit
<1>2. r \in DOMAIN rows /\ Newest(r)
  BY <1>1, CandidateIsNewest
<1>3. TypeOK'
  BY <1>1, SameRows DEF TypeOK, Row, Contents, Message
<1>4. Linked'
  BY <1>1, <1>2 DEF Linked, State, Last
<1>5. StillNew'
  BY <1>1, <1>2 DEF StillNew, Newest, State, Unposted
<1>6. Receipts' /\ Sourced' /\ AutomaticIsNew'
  BY <1>1 DEF Receipts, ReceiptIsTrue, AskedOf, State, Sourced, Unposted, AutomaticIsNew
<1> QED BY <1>1, <1>3, <1>4, <1>5, <1>6, SameRows DEF Inv

\* A send that ends: its revision is accepted with a message of its own, or may
\* be retried, and the others keep all but the reason noted on them.
Ended(r) ==
  /\ rows' \in Seq(Row) /\ Last' = Last
  /\ \A q \in 1..Last : rows'[q].content = rows[q].content /\ rows'[q].tried = rows[q].tried
  /\ \A q \in 1..Last \ {r} : /\ rows'[q].state = rows[q].state /\ rows'[q].msg = rows[q].msg
                              /\ rows'[q].owner = rows[q].owner
  /\ rows'[r].owner = Nobody
  /\ \/ rows'[r].state \in {"FAILED", "RETRYABLE"} /\ rows'[r].msg = 0
     \/ rows'[r].state = "ACCEPTED" /\ rows'[r].msg \in 1..Len(posts)

\* Messages are added, and nothing becomes of those there are.
Posted ==
  /\ posts' \in Seq(Message) /\ Len(posts') \in Len(posts)..MaxPosts
  /\ \A m \in 1..Len(posts) : posts'[m] = posts[m]

LEMMA SendingRow ==
    ASSUME Inv, NEW r \in Revisions, calls[r] # NoCall
    PROVE  /\ r \in 1..Last /\ rows[r] \in Row /\ rows[r].state = "SENDING" /\ rows[r].tried
           /\ rows[r].content.packages \in 1..MaxPackages
<1>1. /\ TypeOK /\ Linked /\ DOMAIN rows = 1..Last /\ \A q \in 1..Last : rows[q] \in Row
      /\ r \in DOMAIN rows /\ State(r) = "SENDING"
  BY Types DEF Inv, TypeOK
<1> QED BY <1>1, Packages DEF Linked, State

LEMMA EndStep ==
    ASSUME Inv, NEW r \in Revisions, calls[r] # NoCall, Ended(r), Posted,
           calls' = [calls EXCEPT ![r] = NoCall],
           UNCHANGED <<content, checks, queued, dispatched, turns>>
    PROVE  /\ TypeOK' /\ Counted' /\ Linked' /\ Calm /\ Receipts' /\ Stands
           /\ ~Unposted(r)'
<1>0. /\ TypeOK /\ Linked /\ Counted /\ Last \in Nat /\ Last <= MaxRows
      /\ DOMAIN rows = 1..Last /\ 1..Last \subseteq Revisions /\ Len(rows) = Last
      /\ \A q \in 1..Last : rows[q] \in Row
      /\ Len(posts) \in Nat /\ DOMAIN posts = 1..Len(posts)
      /\ r \in 1..Last /\ rows[r].state = "SENDING" /\ rows[r].tried
  BY Types, SendingRow DEF Inv, Last
<1>1. /\ Last' = Last /\ Len(rows') = Last /\ DOMAIN rows' = 1..Last
      /\ \A q \in 1..Last : rows'[q] \in Row
  BY SeqFacts DEF Ended, Last
<1>2. /\ calls' \in [Revisions -> [by : {"none", "hand", "auto"}, msg : 0..MaxPosts]]
      /\ calls'[r] = NoCall /\ \A q \in Revisions \ {r} : calls'[q] = calls[q]
  BY DEF TypeOK, Inv, NoCall
<1>3. /\ Len(posts') \in Nat /\ Len(posts) <= Len(posts') /\ Len(posts') <= MaxPosts
      /\ DOMAIN posts' = 1..Len(posts')
  BY <1>0, LenProperties DEF Posted
<1>4. TypeOK'
  <2>1. \A q \in Revisions : calls'[q] # NoCall => q \in DOMAIN rows' /\ rows'[q].state = "SENDING"
    <3> TAKE q \in Revisions
    <3>1. calls'[q] # NoCall => q # r /\ calls[q] # NoCall
      BY <1>2
    <3>2. calls[q] # NoCall => q \in 1..Last /\ rows[q].state = "SENDING"
      BY <1>0 DEF TypeOK, State
    <3> QED BY <1>1, <3>1, <3>2 DEF Ended
  <2> QED BY <1>0, <1>1, <1>2, <1>3, <2>1 DEF TypeOK, Last, State, Ended, Posted
<1>5. Counted'
  <2>1. rows' = <<>> => rows = <<>>
    BY <1>0, <1>1
  <2>2. Stale' => Stale
    BY <1>0, <1>1, <2>1 DEF Stale, State, Ended
  <2> QED BY <1>0, <1>1, <2>2 DEF Counted
<1>6. Linked'
  <2>1. ASSUME NEW q \in 1..Last
        PROVE  /\ rows'[q].msg \in 0..Len(posts')
               /\ rows'[q].state \in Undelivered => rows'[q].msg # 0
               /\ rows'[q].owner # Nobody => rows'[q].state \in Undelivered
               /\ rows'[q].state = "AWAITING_REVIEW" => q = Last /\ ~rows'[q].tried
               /\ rows'[q].state = "SENDING" => rows'[q].tried
    <3>1. CASE q = r
      BY <1>0, <1>3, <3>1, Kinds DEF Ended, Undelivered
    <3>2. CASE q # r
      <4>1. /\ rows[q].msg \in 0..Len(posts)
            /\ rows[q].state \in Undelivered => rows[q].msg # 0
            /\ rows[q].owner # Nobody => rows[q].state \in Undelivered
            /\ rows[q].state = "AWAITING_REVIEW" => q = Last /\ ~rows[q].tried
            /\ rows[q].state = "SENDING" => rows[q].tried
        BY <1>0 DEF Linked, State
      <4>2. /\ rows'[q].tried = rows[q].tried /\ rows'[q].state = rows[q].state
            /\ rows'[q].msg = rows[q].msg /\ rows'[q].owner = rows[q].owner
        BY <3>2 DEF Ended
      <4>3. 0..Len(posts) \subseteq 0..Len(posts')
        BY <1>0, <1>3
      <4> QED BY <4>1, <4>2, <4>3
    <3> QED BY <3>1, <3>2
  <2>2. \A q \in Revisions : calls'[q].msg \in 0..Len(posts')
    <3> TAKE q \in Revisions
    <3>1. calls[q].msg \in 0..Len(posts) /\ NoCall.msg = 0
      BY <1>0 DEF Linked, NoCall
    <3>2. calls'[q] = NoCall \/ calls'[q] = calls[q]
      BY <1>2
    <3> QED BY <1>0, <1>3, <3>1, <3>2
  <2>3. queued' \subseteq 1..Last
    BY <1>0 DEF Linked
  <2>4. \A o \in Owners : /\ checks'[o].pc # "none" => checks'[o].row \in 1..Last
                          /\ checks'[o].pc = "asked" => checks'[o].msg \in DOMAIN posts'
    BY <1>0, <1>3 DEF Linked
  <2> QED BY <1>1, <2>1, <2>2, <2>3, <2>4 DEF Linked, State
<1>7. Calm
  <2>1. \A q \in 1..Last : rows'[q].content.packages >= rows[q].content.packages
    BY <1>0, Packages DEF Ended
  <2>2. Last' \in Last..MaxRows
    BY <1>0, <1>1 DEF MaxRows
  <2> QED BY <1>0, <1>1, <1>2, <2>1, <2>2 DEF Calm, Ended, Unposted, NoCall
<1>8. Unasked
  BY <1>0, <1>1, Kinds DEF Unasked, Ended, Posted, State
<1>9. Stands
  BY <1>0, <1>1, Kinds DEF Stands, State, Ended
<1>10. ~Unposted(r)'
  BY <1>2 DEF Unposted, NoCall
<1> QED BY <1>4, <1>5, <1>6, <1>7, <1>8, <1>9, <1>10, UnaskedStep

\* What the two records of an ending, finalize_send and a failure, amount to.
LEMMA FailedIs ==
    ASSUME TypeOK, NEW r \in 1..Last, NEW state \in {"FAILED", "RETRYABLE"},
           rows' = Failed(r, state)
    PROVE  Ended(r)
<1> DEFINE y == [rows[r] EXCEPT !.state = state, !.msg = 0, !.owner = Nobody]
           rs == [rows EXCEPT ![r] = y]
<1>0. rows \in Seq(Row) /\ Len(rows) = Last /\ Last \in Nat /\ rows[r] \in Row /\ state \in States
  BY Types, Kinds DEF Last, Open
<1>1. y \in Row /\ y.state = state /\ y.msg = 0 /\ y.owner = Nobody
      /\ y.content = rows[r].content /\ y.tried = rows[r].tried
  <2> HIDE DEF rs
  <2>1. rows[r] \in Row /\ state \in States /\ 0 \in 0..MaxPosts
    BY <1>0
  <2> QED BY <2>1 DEF Row
<1>2. rows' = Noted(rs)
  BY <1>0 DEF Failed
<1> HIDE DEF y
<1>3. /\ rs \in Seq(Row) /\ Len(rs) = Last
      /\ \A q \in 1..Last : rs[q] = IF q = r THEN y ELSE rows[q]
  BY <1>0, <1>1, Replaced
<1> HIDE DEF rs
<1>4. /\ rows' \in Seq(Row) /\ Len(rows') = Last
      /\ \A q \in 1..Last : rows'[q] = rs[q] \/ rows'[q] = [rs[q] EXCEPT !.err = TRUE]
  BY <1>2, <1>3, NotedIs
<1>5. ASSUME NEW q \in 1..Last
      PROVE  /\ rows'[q].content = rs[q].content /\ rows'[q].tried = rs[q].tried
             /\ rows'[q].state = rs[q].state /\ rows'[q].msg = rs[q].msg
             /\ rows'[q].owner = rs[q].owner
  <2>1. rs[q] \in Row
    BY <1>3, SeqFacts
  <2> QED BY <1>4, <2>1, NotedRow DEF Moves
<1> QED BY <1>1, <1>3, <1>4, <1>5 DEF Ended, Last

LEMMA AcceptedIs ==
    ASSUME TypeOK, NEW r \in 1..Last, NEW m \in 1..Len(posts),
           rows' = Accepted(r, m)
    PROVE  Ended(r)
<1> DEFINE y == [rows[r] EXCEPT !.state = "ACCEPTED", !.sent = TRUE, !.msg = m, !.owner = Nobody]
<1>0. rows[r] \in Row /\ m \in 0..MaxPosts /\ "ACCEPTED" \in States /\ r \in DOMAIN rows
  BY Types, Kinds DEF Undelivered
<1>1. y \in Row /\ y.state = "ACCEPTED" /\ y.msg = m /\ y.owner = Nobody
      /\ y.content = rows[r].content /\ y.tried = rows[r].tried
  BY <1>0 DEF Row
<1>2. rows' = [rows EXCEPT ![r] = y]
  BY <1>0 DEF Accepted
<1> HIDE DEF y
<1>3. RowPut(r, y)
  BY <1>1, <1>2, RowPuts
<1> QED BY <1>1, <1>3 DEF Ended, RowPut

\* An ending that brings no message.
LEMMA EndWithoutPost ==
    ASSUME Inv, NEW r \in Revisions, calls[r] # NoCall, Ended(r), posts' = posts,
           calls' = [calls EXCEPT ![r] = NoCall],
           UNCHANGED <<content, checks, queued, dispatched, turns>>
    PROVE  Inv' /\ Stands
<1>1. Posted /\ SamePosts /\ rows' \in Seq(Row)
  BY Types DEF Posted, SamePosts, Inv, TypeOK, Ended
<1>2. /\ TypeOK' /\ Counted' /\ Linked' /\ Calm /\ Receipts' /\ Stands
  BY <1>1, EndStep
<1> QED BY <1>1, <1>2, CalmStep, SamePostsStep DEF Inv

LEMMA PostFailsStep ==
    ASSUME Inv, NEW r \in Revisions, PostFails(r)
    PROVE  Inv' /\ Stands
<1>1. PICK state \in {"FAILED", "RETRYABLE"} : rows' = Failed(r, state)
  BY DEF PostFails
<1>2. TypeOK /\ calls[r] # NoCall
  BY DEF Inv, PostFails, NoCall
<1>3. Ended(r)
  BY <1>1, <1>2, SendingRow, FailedIs
<1> QED BY <1>2, <1>3, EndWithoutPost DEF PostFails

LEMMA FinalizeStep ==
    ASSUME Inv, NEW r \in Revisions, Finalize(r)
    PROVE  Inv' /\ Stands
<1>1. TypeOK /\ calls[r] # NoCall /\ calls[r].msg \in 0..Len(posts) /\ calls[r].msg # 0
      /\ Len(posts) \in Nat
  BY Types DEF Inv, Linked, Finalize, NoCall
<1>2. calls[r].msg \in 1..Len(posts)
  BY <1>1
<1>3. Ended(r)
  BY <1>1, <1>2, SendingRow, AcceptedIs DEF Finalize
<1> QED BY <1>1, <1>3, EndWithoutPost DEF Finalize

\* The provider takes the message and answers.
LEMMA AnsweredPost ==
    ASSUME Inv, NEW r \in Revisions, calls[r].by # "none", calls[r].msg = 0, Posted,
           Len(posts') = Len(posts) + 1, calls' = [calls EXCEPT ![r].msg = Len(posts')],
           UNCHANGED <<content, rows, checks, queued, dispatched, turns>>
    PROVE  /\ TypeOK' /\ Counted' /\ Linked' /\ Calm /\ Receipts' /\ Stands
           /\ ~Unposted(r)'
<1>0. /\ TypeOK /\ Linked /\ Last \in Nat /\ Last <= MaxRows
      /\ DOMAIN rows = 1..Last /\ 1..Last \subseteq Revisions
      /\ \A q \in 1..Last : rows[q] \in Row
      /\ Len(posts) \in Nat /\ Len(posts') \in 1..MaxPosts
      /\ DOMAIN posts = 1..Len(posts) /\ DOMAIN posts' = 1..Len(posts')
  <2>1. Len(posts) \in Nat /\ Len(posts') \in Len(posts)..MaxPosts /\ DOMAIN posts' = 1..Len(posts')
    BY Types, LenProperties DEF Inv, Posted
  <2> QED BY <2>1, Types DEF Inv
<1>1. /\ calls' \in [Revisions -> [by : {"none", "hand", "auto"}, msg : 0..MaxPosts]]
      /\ calls'[r].msg = Len(posts') /\ calls[r] # NoCall
      /\ \A q \in Revisions \ {r} : calls'[q] = calls[q]
  BY <1>0 DEF TypeOK, NoCall
<1>2. TypeOK'
  <2>1. \A q \in Revisions : calls'[q] # NoCall => q \in DOMAIN rows /\ State(q) = "SENDING"
    <3> TAKE q \in Revisions
    <3>1. calls'[q] # NoCall => calls[q] # NoCall
      BY <1>1
    <3> QED BY <1>0, <3>1 DEF TypeOK
  <2> QED BY <1>0, <1>1, <2>1 DEF TypeOK, Posted, State
<1>3. Linked'
  <2>1. 0..Len(posts) \subseteq 0..Len(posts')
    BY <1>0
  <2>2. \A q \in Revisions : calls'[q].msg \in 0..Len(posts')
    BY <1>0, <1>1, <2>1 DEF Linked
  <2>3. \A q \in 1..Last : rows[q].msg \in 0..Len(posts')
    BY <1>0, <2>1 DEF Linked
  <2> QED BY <1>0, <2>2, <2>3 DEF Linked, State, Last
<1>4. Unasked /\ Last' = Last
  BY <1>0 DEF Unasked, Posted, State, TypeOK, Last
<1>5. ~Unposted(r)'
  BY <1>0, <1>1 DEF Unposted
<1>6. Calm
  <2>1. \A q \in 1..Last : rows[q].content.packages >= rows[q].content.packages
    BY <1>0, Packages
  <2>2. Last' \in Last..MaxRows
    BY <1>0, <1>4 DEF MaxRows
  <2>3. \A q \in Revisions : Unposted(q)' => Unposted(q)
    BY <1>1, <1>5 DEF Unposted
  <2> QED BY <1>0, <1>4, <2>1, <2>2, <2>3 DEF Calm, TypeOK
<1> QED BY <1>2, <1>3, <1>4, <1>5, <1>6, SameRows, UnaskedStep

\* A message is posted: what an automatic send posts is new.
LEMMA PostStep ==
    ASSUME Inv, NEW r \in Revisions, Post(r)
    PROVE  Inv' /\ Stands
<1> DEFINE new == [packages |-> rows[r].content.packages, by |-> calls[r].by, fate |-> "open"]
<1>0. /\ TypeOK /\ Linked /\ Sourced /\ StillNew /\ AutomaticIsNew
      /\ calls[r] # NoCall /\ calls[r].by # "none" /\ calls[r].msg = 0
      /\ Len(posts) < MaxPosts /\ posts' = Append(posts, new)
      /\ UNCHANGED <<content, checks, queued, dispatched, turns>>
      /\ posts \in Seq(Message) /\ Len(posts) \in Nat /\ DOMAIN posts = 1..Len(posts)
      /\ DOMAIN rows = 1..Last /\ Last \in Nat /\ \A q \in 1..Last : rows[q] \in Row
  BY Types DEF Inv, TypeOK, Post, NoCall
<1>1. /\ r \in 1..Last /\ rows[r].tried /\ rows[r].content.packages \in 1..MaxPackages
  BY <1>0, SendingRow
<1>2. /\ new \in Message /\ new.packages = rows[r].content.packages /\ new.by = calls[r].by
  BY <1>0, <1>1 DEF TypeOK, Message
<1> HIDE DEF new
<1>3. /\ posts' \in Seq(Message) /\ Len(posts') = Len(posts) + 1 /\ posts'[Len(posts) + 1] = new
      /\ \A m \in 1..Len(posts) : posts'[m] = posts[m]
      /\ Len(posts') <= MaxPosts /\ DOMAIN posts' = 1..Len(posts) + 1
  <2>1. /\ posts' \in Seq(Message) /\ Len(posts') = Len(posts) + 1
        /\ posts'[Len(posts) + 1] = new
        /\ \A m \in 1..Len(posts) : posts'[m] = posts[m]
    BY <1>0, <1>2, AppendProperties
  <2>2. DOMAIN posts' = 1..Len(posts')
    BY <2>1, LenProperties
  <2> QED BY <1>0, <2>1, <2>2
<1>4. Posted
  BY <1>0, <1>3 DEF Posted
<1>5. /\ TypeOK' /\ Counted' /\ Linked' /\ Calm /\ Receipts' /\ Stands /\ ~Unposted(r)'
      /\ DOMAIN rows' = 1..Last'
  <2>1. CASE calls' = [calls EXCEPT ![r].msg = Len(posts')] /\ rows' = rows
    BY <1>0, <1>3, <1>4, <2>1, AnsweredPost, SeqFacts DEF Last, TypeOK
  <2>2. CASE calls' = [calls EXCEPT ![r] = NoCall] /\ rows' = Failed(r, "RETRYABLE")
    <3>1. Ended(r)
      BY <1>0, <1>1, <2>2, FailedIs
    <3>2. rows' \in Seq(Row)
      BY <3>1 DEF Ended
    <3> QED BY <1>0, <1>4, <2>2, <3>1, <3>2, EndStep, SeqFacts DEF Last
  <2> QED BY <2>1, <2>2 DEF Post
<1>6. OneSendAtATime' /\ StillNew' /\ StillSourced
  BY <1>5, CalmStep
<1>7. Sourced'
  <2> SUFFICES ASSUME NEW m \in 1..Len(posts) + 1
               PROVE  \E q \in 1..Last' : rows'[q].tried /\ ~Unposted(q)'
                                          /\ rows'[q].content.packages = posts'[m].packages
    BY <1>3, <1>5 DEF Sourced
  <2>1. CASE m \in 1..Len(posts)
    BY <1>3, <1>6, <2>1 DEF StillSourced
  <2>2. CASE m = Len(posts) + 1
    <3>1. rows'[r].tried /\ rows'[r].content.packages = new.packages /\ r \in 1..Last'
      BY <1>0, <1>1, <1>2, <1>5 DEF Calm
    <3> QED BY <1>3, <1>5, <2>2, <3>1
  <2> QED BY <1>0, <2>1, <2>2
<1>8. AutomaticIsNew'
  <2> SUFFICES ASSUME NEW m \in 1..Len(posts) + 1, NEW n \in 1..Len(posts) + 1,
                      m < n, posts'[n].by = "auto"
               PROVE  posts'[m].packages < posts'[n].packages
    BY <1>3 DEF AutomaticIsNew
  <2>1. m \in 1..Len(posts)
    BY <1>0
  <2>2. CASE n \in 1..Len(posts)
    BY <1>0, <1>3, <2>1, <2>2 DEF AutomaticIsNew
  <2>3. CASE n = Len(posts) + 1
    <3>1. Unposted(r) /\ Newest(r)
      BY <1>0, <1>1, <1>2, <1>3, <2>3 DEF Unposted, StillNew
    <3>2. PICK q \in 1..Last : rows[q].tried /\ rows[q].content.packages = posts[m].packages
                               /\ ~Unposted(q)
      BY <1>0, <2>1 DEF Sourced
    <3> QED BY <1>0, <1>2, <1>3, <2>1, <2>3, <3>1, <3>2 DEF Newest
  <2> QED BY <1>0, <2>2, <2>3
<1> QED BY <1>5, <1>6, <1>7, <1>8 DEF Inv

------------------------------------------------------------------------------
(* Receipts. *)

\* One revision whose message was accepted changes in its state or its owner.
Settling(r) ==
  /\ RowPut(r, rows'[r]) /\ rows'[r].content = rows[r].content
  /\ rows'[r].tried = rows[r].tried /\ rows'[r].msg = rows[r].msg
  /\ \/ rows'[r].state = rows[r].state
     \/ /\ rows[r].state \notin Decided \cup {"SENDING", "AWAITING_REVIEW", "HELD"}
        /\ rows'[r].state \in {"DELIVERY_UNCONFIRMED", "DELIVERED", "RETRYABLE"}
  /\ rows'[r].state \in Undelivered => rows[r].state \in Undelivered
  /\ rows'[r].owner # Nobody => rows'[r].state \in Undelivered

\* What a lookup's steps keep, but for what they say of receipts.
LEMMA SettleStep ==
    ASSUME Inv, NEW r \in 1..Last, Settling(r), posts' \in Seq(Message), SamePosts,
           checks' \in [Owners -> [pc : CheckStates, row : 0..MaxRows, msg : 0..MaxPosts]],
           \A o \in Owners : /\ checks'[o].pc # "none" => checks'[o].row \in 1..Last
                             /\ checks'[o].pc = "asked" => checks'[o].msg \in DOMAIN posts,
           UNCHANGED <<content, calls, queued, dispatched, turns>>
    PROVE  /\ TypeOK' /\ Counted' /\ Linked' /\ OneSendAtATime' /\ StillNew' /\ Sourced'
           /\ AutomaticIsNew' /\ Stands
<1>0. /\ TypeOK /\ Linked /\ Counted /\ Last \in Nat /\ Last <= MaxRows
      /\ DOMAIN rows = 1..Last /\ \A q \in 1..Last : rows[q] \in Row
      /\ Len(posts) \in Nat
      /\ Last' = Last /\ DOMAIN rows' = 1..Last /\ rows' \in Seq(Row)
      /\ \A q \in 1..Last \ {r} : rows'[q] = rows[q]
  BY Types DEF Inv, Settling, RowPut
<1>1. TypeOK'
  <2>1. \A q \in Revisions : calls'[q] # NoCall => q \in 1..Last /\ rows'[q].state = "SENDING"
    <3> SUFFICES ASSUME NEW q \in Revisions, calls[q] # NoCall
                 PROVE  q \in 1..Last /\ rows'[q].state = "SENDING"
      OBVIOUS
    <3>1. q \in 1..Last /\ rows[q].state = "SENDING"
      BY <1>0 DEF TypeOK, State
    <3> QED BY <1>0, <3>1 DEF Settling
  <2>2. Len(posts') <= MaxPosts
    BY <1>0 DEF TypeOK, SamePosts
  <2> QED BY <1>0, <2>1, <2>2 DEF TypeOK, State, Last
<1>2. Counted'
  <2>1. Stale' => Stale
    <3>1. /\ rows' = <<>> <=> Last = 0
          /\ rows = <<>> <=> Last = 0
      BY <1>0, RowsAre, SeqFacts DEF TypeOK, Last
    <3>2. Last > 0 => /\ rows'[Last].content = rows[Last].content
                      /\ rows[Last].state = "HELD" => rows'[Last].state = "HELD"
      BY <1>0 DEF Settling
    <3> QED BY <1>0, <3>1, <3>2 DEF Stale, State
  <2> QED BY <1>0, <2>1 DEF Counted, Last
<1>3. Linked'
  <2>1. ASSUME NEW q \in 1..Last
        PROVE  /\ rows'[q].msg \in 0..Len(posts)
               /\ rows'[q].state \in Undelivered => rows'[q].msg # 0
               /\ rows'[q].owner # Nobody => rows'[q].state \in Undelivered
               /\ rows'[q].state = "AWAITING_REVIEW" => q = Last /\ ~rows'[q].tried
               /\ rows'[q].state = "SENDING" => rows'[q].tried
    <3>1. /\ rows[q].msg \in 0..Len(posts)
          /\ rows[q].state \in Undelivered => rows[q].msg # 0
          /\ rows[q].owner # Nobody => rows[q].state \in Undelivered
          /\ rows[q].state = "AWAITING_REVIEW" => q = Last /\ ~rows[q].tried
          /\ rows[q].state = "SENDING" => rows[q].tried
      BY <1>0 DEF Linked, State
    <3> QED BY <1>0, <3>1 DEF Settling
  <2>2. /\ \A q \in Revisions : calls[q].msg \in 0..Len(posts)
        /\ queued \subseteq 1..Last
    BY <1>0 DEF Linked
  <2> QED BY <1>0, <2>1, <2>2 DEF Linked, State, SamePosts
<1>4. Calm
  <2>1. \A q \in 1..Last : rows[q].content.packages >= rows[q].content.packages
    BY <1>0, Packages
  <2>2. Last' \in Last..MaxRows
    BY <1>0 DEF MaxRows
  <2> QED BY <1>0, <2>1, <2>2 DEF Calm, Settling, Unposted
<1>5. Stands
  BY <1>0 DEF Stands, State, Settling
<1> QED BY <1>0, <1>1, <1>2, <1>3, <1>4, <1>5, CalmStep, SamePostsStep

\* A lookup begins: nobody else asks about its revision.
LEMMA AskStep ==
    ASSUME Inv, NEW o \in Owners, NEW r \in Revisions, Ask(o, r)
    PROVE  Inv' /\ Stands
<1> DEFINE y == [rows[r] EXCEPT !.owner = o]
           new == [pc |-> "asked", row |-> r, msg |-> rows[r].msg]
<1>0. /\ TypeOK /\ Linked /\ Receipts /\ r \in 1..Last /\ rows[r] \in Row
      /\ DOMAIN rows = 1..Last /\ DOMAIN posts = 1..Len(posts) /\ Len(posts) \in Nat
      /\ State(r) \in Undelivered /\ rows[r].msg # 0 /\ CheckFree(o, r) /\ o # Nobody
      /\ rows' = [rows EXCEPT ![r].owner = o] /\ checks' = [checks EXCEPT ![o] = new]
      /\ UNCHANGED <<content, calls, posts, queued, dispatched, turns>>
  BY Types DEF Inv, Ask, Owners, Undelivered
<1>1. /\ y \in Row /\ y.owner = o /\ y.state = rows[r].state /\ y.msg = rows[r].msg
      /\ y.content = rows[r].content /\ y.tried = rows[r].tried
  BY <1>0 DEF Row
<1>2. rows' = [rows EXCEPT ![r] = y]
  BY <1>0
<1> HIDE DEF y
<1>3. RowPut(r, y)
  BY <1>0, <1>1, <1>2, RowPuts
<1>4. Settling(r)
  BY <1>0, <1>1, <1>3 DEF Settling, RowPut, State
<1>5. rows[r].msg \in 1..Len(posts) /\ rows[r].msg \in 0..MaxPosts
  BY <1>0, RowIs DEF Linked
<1>6. /\ new.pc = "asked" /\ new.row = r /\ new.msg = rows[r].msg
      /\ checks'[o] = new /\ \A p \in Owners \ {o} : checks'[p] = checks[p]
      /\ checks' \in [Owners -> [pc : CheckStates, row : 0..MaxRows, msg : 0..MaxPosts]]
  BY <1>0, <1>5 DEF TypeOK, CheckStates, Revisions
<1> HIDE DEF new
<1>7. \A p \in Owners : /\ checks'[p].pc # "none" => checks'[p].row \in 1..Last
                        /\ checks'[p].pc = "asked" => checks'[p].msg \in DOMAIN posts
  BY <1>0, <1>5, <1>6 DEF Linked
<1>8. posts' \in Seq(Message) /\ SamePosts
  BY <1>0 DEF TypeOK, SamePosts
<1>9. Receipts'
  <2> SUFFICES ASSUME "slow_receipt" \notin Faults
               PROVE  ReceiptIsTrue' /\ \A p \in Owners : AskedOf(p)'
    BY DEF Receipts
  <2>1. ReceiptIsTrue'
    BY <1>0, <1>1, <1>3 DEF Receipts, ReceiptIsTrue, RowPut, State
  <2>2. AskedOf(o)'
    BY <1>0, <1>1, <1>3, <1>6 DEF AskedOf, RowPut, State
  <2>3. ASSUME NEW p \in Owners, p # o PROVE AskedOf(p)'
    <3>1. CASE checks[p].pc = "asked" /\ checks[p].row = r
      <4>1. rows[r].owner = p
        BY <1>0, <3>1, Kinds DEF Receipts, AskedOf
      <4> QED BY <1>0, <2>3, <3>1, <4>1 DEF CheckFree
    <3>2. CASE checks[p].pc = "asked" /\ checks[p].row # r
      BY <1>0, <1>3, <1>6, <2>3, <3>2 DEF Receipts, AskedOf, Linked, RowPut, State
    <3>3. CASE checks[p].pc # "asked"
      BY <1>6, <2>3, <3>3 DEF AskedOf
    <3> QED BY <3>1, <3>2, <3>3
  <2> QED BY <2>1, <2>2, <2>3
<1> QED BY <1>0, <1>4, <1>6, <1>7, <1>8, <1>9, SettleStep DEF Inv

\* What an answer does to the row it is about: nothing, or it settles it.
LEMMA SettledIs ==
    ASSUME Inv, NEW r \in 1..Last, NEW to \in {"DELIVERED", "RETRYABLE"},
           NEW from \in SUBSET (Undelivered \cup {"DELIVERED", "FAILED", "RETRYABLE"}),
           rows' = Settled(r, from, to)
    PROVE  /\ Settling(r)
           /\ State(r) \in from => rows'[r].state = to
           /\ State(r) \notin from => rows'[r] = rows[r]
<1>0. TypeOK /\ Linked /\ rows[r] \in Row /\ rows \in Seq(Row) /\ DOMAIN rows = 1..Last
  BY Types DEF Inv
<1>1. CASE State(r) \in from
  <2> DEFINE y == [rows[r] EXCEPT !.state = to, !.owner = Nobody]
  <2>1. to \in States /\ to \notin Undelivered
    BY DEF States, Undelivered
  <2>2. y \in Row /\ y.state = to /\ y.owner = Nobody /\ y.msg = rows[r].msg
        /\ y.content = rows[r].content /\ y.tried = rows[r].tried
    BY <1>0, <2>1 DEF Row
  <2>3. rows' = [rows EXCEPT ![r] = y]
    BY <1>0, <1>1 DEF Settled
  <2> HIDE DEF y
  <2>4. RowPut(r, y)
    BY <1>0, <2>2, <2>3, RowPuts
  <2>5. rows[r].state \notin Decided \cup {"SENDING", "AWAITING_REVIEW", "HELD"}
    BY <1>1 DEF State, Undelivered, Decided
  <2> QED BY <1>1, <2>1, <2>2, <2>4, <2>5 DEF Settling, RowPut
<1>2. CASE State(r) \notin from
  <2>1. rows' = rows
    BY <1>2 DEF Settled
  <2>2. rows[r].owner # Nobody => rows[r].state \in Undelivered
    BY <1>0 DEF Linked, State
  <2> QED BY <1>0, <1>2, <2>1, <2>2 DEF Settling, RowPut, Last
<1> QED BY <1>1, <1>2

\* What becomes of a message is told of it alone.
LEMMA FateIs ==
    ASSUME TypeOK, NEW m \in DOMAIN posts, NEW f \in {"delivered", "failed"},
           posts' = [posts EXCEPT ![m].fate = f]
    PROVE  /\ posts' \in Seq(Message) /\ SamePosts /\ posts'[m].fate = f
           /\ \A n \in 1..Len(posts) : n # m => posts'[n] = posts[n]
<1> DEFINE x == [posts[m] EXCEPT !.fate = f]
<1>0. posts \in Seq(Message) /\ DOMAIN posts = 1..Len(posts) /\ posts[m] \in Message
  BY Types DEF TypeOK
<1>1. x \in Message /\ x.packages = posts[m].packages /\ x.by = posts[m].by /\ x.fate = f
  BY <1>0 DEF Message
<1>2. posts' = [posts EXCEPT ![m] = x]
  BY <1>0
<1> HIDE DEF x
<1>3. /\ posts' \in Seq(Message) /\ Len(posts') = Len(posts)
      /\ \A n \in 1..Len(posts) : posts'[n] = IF n = m THEN x ELSE posts[n]
  BY <1>0, <1>1, <1>2, ExceptSeq
<1>4. DOMAIN posts' = 1..Len(posts')
  BY <1>3, LenProperties
<1> QED BY <1>0, <1>1, <1>3, <1>4 DEF SamePosts

\* An answer is about the message its revision has, unless the operator decided.
LEMMA AnswerStep ==
    ASSUME Inv, NEW o \in Owners, NEW r \in Revisions, Answer(o, r)
    PROVE  Inv' /\ Stands
<1> DEFINE m == checks[o].msg
           done == [pc |-> "finish", row |-> r, msg |-> 0]
           delivered == Undelivered \cup {"DELIVERED", "FAILED", "RETRYABLE"}
           failed == Undelivered \cup {"FAILED"}
<1>0. /\ TypeOK /\ Linked /\ Receipts /\ checks[o].pc = "asked" /\ checks[o].row = r
      /\ r \in 1..Last /\ m \in DOMAIN posts /\ DOMAIN posts = 1..Len(posts)
      /\ DOMAIN rows = 1..Last /\ Len(posts) \in Nat
      /\ \A q \in 1..Last : rows[q] \in Row
      /\ checks' = [checks EXCEPT ![o] = done]
      /\ UNCHANGED <<content, calls, queued, dispatched, turns>>
  BY Types DEF Inv, Answer, CheckAt, Linked
<1>1. \/ /\ posts[m].fate # "failed" /\ posts' = [posts EXCEPT ![m].fate = "delivered"]
         /\ rows' = Settled(r, delivered, "DELIVERED")
      \/ /\ posts[m].fate # "delivered" /\ posts' = [posts EXCEPT ![m].fate = "failed"]
         /\ rows' = Settled(r, failed, "RETRYABLE")
      \/ posts' = posts /\ rows' = rows
  BY DEF Answer
<1>2. /\ checks'[o].pc = "finish" /\ checks'[o].row = r
      /\ \A p \in Owners \ {o} : checks'[p] = checks[p]
      /\ checks' \in [Owners -> [pc : CheckStates, row : 0..MaxRows, msg : 0..MaxPosts]]
  BY <1>0 DEF TypeOK, CheckStates, Revisions
<1>3. \A p \in Owners : /\ checks'[p].pc # "none" => checks'[p].row \in 1..Last
                        /\ checks'[p].pc = "asked" => checks'[p].msg \in DOMAIN posts
  BY <1>0, <1>2 DEF Linked
<1> HIDE DEF m, done
<1>4. /\ Settling(r) /\ posts' \in Seq(Message) /\ SamePosts
      /\ \A n \in 1..Len(posts) : n # m => posts'[n].fate = posts[n].fate
      /\ \/ /\ posts[m].fate # "failed" /\ posts'[m].fate = "delivered"
            /\ State(r) \in delivered => rows'[r].state = "DELIVERED"
            /\ State(r) \notin delivered => rows'[r] = rows[r]
         \/ /\ posts[m].fate # "delivered" /\ posts'[m].fate = "failed"
            /\ State(r) \in failed => rows'[r].state = "RETRYABLE"
            /\ State(r) \notin failed => rows'[r] = rows[r]
         \/ posts'[m].fate = posts[m].fate /\ rows'[r] = rows[r]
  <2>1. CASE posts[m].fate # "failed" /\ posts' = [posts EXCEPT ![m].fate = "delivered"]
             /\ rows' = Settled(r, delivered, "DELIVERED")
    <3>1. /\ Settling(r)
          /\ State(r) \in delivered => rows'[r].state = "DELIVERED"
          /\ State(r) \notin delivered => rows'[r] = rows[r]
      BY <1>0, <2>1, SettledIs
    <3>2. /\ posts' \in Seq(Message) /\ SamePosts /\ posts'[m].fate = "delivered"
          /\ \A n \in 1..Len(posts) : n # m => posts'[n] = posts[n]
      BY <1>0, <2>1, FateIs
    <3> QED BY <2>1, <3>1, <3>2
  <2>2. CASE posts[m].fate # "delivered" /\ posts' = [posts EXCEPT ![m].fate = "failed"]
             /\ rows' = Settled(r, failed, "RETRYABLE")
    BY <1>0, <2>2, SettledIs, FateIs
  <2>3. CASE posts' = posts /\ rows' = rows
    <3>1. rows[r].owner # Nobody => rows[r].state \in Undelivered
      BY <1>0 DEF Linked, State
    <3> QED BY <1>0, <2>3, <3>1 DEF Settling, RowPut, SamePosts, TypeOK, Last
  <2> QED BY <1>1, <2>1, <2>2, <2>3
<1>5. Receipts'
  <2> SUFFICES ASSUME "slow_receipt" \notin Faults
               PROVE  ReceiptIsTrue' /\ \A p \in Owners : AskedOf(p)'
    BY DEF Receipts
  <2>0. /\ ReceiptIsTrue /\ \A p \in Owners : AskedOf(p)
        /\ \A q \in 1..Last \ {r} : rows'[q] = rows[q]
        /\ DOMAIN rows' = 1..Last /\ rows'[r].msg = rows[r].msg
    BY <1>0, <1>4 DEF Receipts, Settling, RowPut
  <2>1. \/ State(r) \in Decided
        \/ State(r) \in Undelivered /\ rows[r].owner = o /\ rows[r].msg = m
    BY <1>0, <2>0 DEF AskedOf, m
  <2>2. ASSUME NEW q \in 1..Last
        PROVE  /\ rows'[q].state = "DELIVERED" =>
                    rows'[q].msg # 0 /\ posts'[rows'[q].msg].fate = "delivered"
               /\ rows'[q].state = "RETRYABLE" /\ rows'[q].msg # 0 =>
                    posts'[rows'[q].msg].fate = "failed"
    <3>1. /\ State(q) = "DELIVERED" => rows[q].msg # 0 /\ posts[rows[q].msg].fate = "delivered"
          /\ State(q) = "RETRYABLE" /\ rows[q].msg # 0 => posts[rows[q].msg].fate = "failed"
          /\ rows[q].msg \in 0..Len(posts)
      BY <1>0, <2>0 DEF ReceiptIsTrue, Linked
    <3>2. CASE rows'[q] = rows[q]
      <4>1. rows[q].msg # 0 => rows[q].msg \in 1..Len(posts)
        BY <1>0, <3>1
      <4> QED BY <1>4, <3>1, <3>2, <4>1 DEF State
    <3>3. CASE q = r /\ rows'[r] # rows[r]
      <4>1. State(r) \in Undelivered /\ rows[r].msg = m /\ m \in 1..Len(posts) /\ m # 0
        BY <1>0, <1>4, <2>1, <3>3, Kinds DEF Open
      <4> QED BY <1>4, <2>0, <3>3, <4>1
    <3> QED BY <2>0, <3>2, <3>3
  <2>3. ReceiptIsTrue'
    BY <2>0, <2>2 DEF ReceiptIsTrue, State
  <2>4. ASSUME NEW p \in Owners PROVE AskedOf(p)'
    <3>1. CASE p = o
      BY <1>2, <3>1 DEF AskedOf
    <3>2. CASE p # o /\ checks[p].pc = "asked" /\ checks[p].row = r
      <4>1. State(r) \in Decided
        BY <2>0, <2>1, <3>2 DEF AskedOf
      <4>2. rows'[r] = rows[r]
        BY <1>4, <4>1, Kinds DEF Open
      <4> QED BY <1>2, <3>2, <4>1, <4>2 DEF AskedOf, State
    <3>3. CASE p # o /\ checks[p].pc = "asked" /\ checks[p].row # r
      BY <1>0, <1>2, <2>0, <3>3 DEF AskedOf, Linked, State
    <3>4. CASE p # o /\ checks[p].pc # "asked"
      BY <1>2, <3>4 DEF AskedOf
    <3> QED BY <3>1, <3>2, <3>3, <3>4
  <2> QED BY <2>3, <2>4
<1> QED BY <1>0, <1>2, <1>3, <1>4, <1>5, SettleStep DEF Inv

\* The end of a lookup gives the revision back, or finds the wait over; another's
\* revision it leaves alone.
LEMMA FinishCheckStep ==
    ASSUME Inv, NEW o \in Owners, NEW r \in Revisions, NEW late \in BOOLEAN,
           FinishCheck(o, r, late)
    PROVE  Inv' /\ Stands
<1>0. /\ TypeOK /\ Linked /\ Receipts /\ checks[o].pc = "finish" /\ checks[o].row = r
      /\ r \in 1..Last /\ rows[r] \in Row /\ DOMAIN rows = 1..Last
      /\ DOMAIN posts = 1..Len(posts) /\ rows \in Seq(Row)
      /\ checks' = [checks EXCEPT ![o] = NoCheck]
      /\ UNCHANGED <<content, calls, posts, queued, dispatched, turns>>
      /\ o # Nobody
  BY Types DEF Inv, FinishCheck, CheckAt, Linked, Owners
<1>1. /\ checks'[o].pc = "none" /\ \A p \in Owners \ {o} : checks'[p] = checks[p]
      /\ checks' \in [Owners -> [pc : CheckStates, row : 0..MaxRows, msg : 0..MaxPosts]]
  BY <1>0 DEF TypeOK, CheckStates, NoCheck, MaxRows
<1>2. \A p \in Owners : /\ checks'[p].pc # "none" => checks'[p].row \in 1..Last
                        /\ checks'[p].pc = "asked" => checks'[p].msg \in DOMAIN posts
  BY <1>0, <1>1 DEF Linked
<1>3. posts' \in Seq(Message) /\ SamePosts
  BY <1>0 DEF TypeOK, SamePosts
<1>4. rows[r].owner # Nobody => State(r) \in Undelivered
  BY <1>0 DEF Linked
<1>5. /\ Settling(r)
      /\ rows'[r].state \in Undelivered <=> State(r) \in Undelivered
      /\ rows'[r].state = State(r) \/ State(r) \in Undelivered
      /\ rows[r].owner # o => rows'[r] = rows[r]
  <2>1. CASE rows[r].owner = o
    <3> DEFINE s == IF late /\ rows[r].state \notin {"DELIVERED", "RETRYABLE"}
                      THEN "DELIVERY_UNCONFIRMED" ELSE rows[r].state
               y == [rows[r] EXCEPT !.owner = Nobody, !.state = s]
    <3>1. State(r) \in Undelivered /\ s \in Undelivered /\ s \in States
          /\ (s = rows[r].state \/ s = "DELIVERY_UNCONFIRMED")
      BY <1>0, <1>4, <2>1 DEF Undelivered, State, States
    <3>2. rows' = [rows EXCEPT ![r] = y]
      BY <1>0, <2>1 DEF FinishCheck, MayFinish
    <3> HIDE DEF s
    <3>3. y \in Row /\ y.state = s /\ y.owner = Nobody /\ y.msg = rows[r].msg
          /\ y.content = rows[r].content /\ y.tried = rows[r].tried
      BY <1>0, <3>1 DEF Row
    <3> HIDE DEF y
    <3>4. RowPut(r, y)
      BY <1>0, <3>2, <3>3, RowPuts
    <3>5. rows[r].state \notin Decided \cup {"SENDING", "AWAITING_REVIEW", "HELD"}
      BY <3>1 DEF State, Undelivered, Decided
    <3> QED BY <2>1, <3>1, <3>3, <3>4, <3>5 DEF Settling, RowPut, State
  <2>2. CASE rows[r].owner # o
    <3>1. rows' = rows
      BY <2>2 DEF FinishCheck, MayFinish
    <3> QED BY <1>0, <1>4, <2>2, <3>1 DEF Settling, RowPut, Last, State
  <2> QED BY <2>1, <2>2
<1>6. Receipts'
  <2> SUFFICES ASSUME "slow_receipt" \notin Faults
               PROVE  ReceiptIsTrue' /\ \A p \in Owners : AskedOf(p)'
    BY DEF Receipts
  <2>0. /\ ReceiptIsTrue /\ \A p \in Owners : AskedOf(p)
        /\ \A q \in 1..Last \ {r} : rows'[q] = rows[q]
        /\ DOMAIN rows' = 1..Last /\ rows'[r].msg = rows[r].msg
        /\ "DELIVERED" \notin Undelivered /\ "RETRYABLE" \notin Undelivered
    <3>1. "DELIVERED" \notin Undelivered /\ "RETRYABLE" \notin Undelivered
      BY DEF Undelivered
    <3> QED BY <1>0, <1>5, <3>1 DEF Receipts, Settling, RowPut
  <2>1. ReceiptIsTrue'
    <3> SUFFICES ASSUME NEW q \in 1..Last
                 PROVE  /\ rows'[q].state = "DELIVERED" =>
                             rows'[q].msg # 0 /\ posts[rows'[q].msg].fate = "delivered"
                        /\ rows'[q].state = "RETRYABLE" /\ rows'[q].msg # 0 =>
                             posts[rows'[q].msg].fate = "failed"
      BY <1>0, <2>0 DEF ReceiptIsTrue, State
    <3>1. rows'[q].state \in {"DELIVERED", "RETRYABLE"} => rows'[q].state = State(q)
      BY <1>5, <2>0 DEF State
    <3>2. rows'[q].msg = rows[q].msg
      BY <2>0
    <3> QED BY <1>0, <2>0, <3>1, <3>2 DEF ReceiptIsTrue
  <2>2. ASSUME NEW p \in Owners PROVE AskedOf(p)'
    <3>1. CASE p = o \/ checks[p].pc # "asked"
      BY <1>1, <3>1 DEF AskedOf
    <3>2. CASE p # o /\ checks[p].pc = "asked" /\ checks[p].row = r
      <4>1. State(r) \in Decided \/ rows[r].owner = p
        BY <2>0, <3>2 DEF AskedOf
      <4>2. rows'[r] = rows[r] \/ State(r) \in Decided
        BY <1>5, <3>2, <4>1
      <4>3. State(r) \in Decided => rows'[r].state \in Decided
        BY <1>5, Kinds
      <4> QED BY <1>1, <2>0, <3>2, <4>2, <4>3 DEF AskedOf, State
    <3>3. CASE p # o /\ checks[p].pc = "asked" /\ checks[p].row # r
      BY <1>0, <1>1, <2>0, <3>3 DEF AskedOf, Linked, State
    <3> QED BY <3>1, <3>2, <3>3
  <2> QED BY <2>1, <2>2
<1> QED BY <1>0, <1>1, <1>2, <1>3, <1>5, <1>6, SettleStep DEF Inv

\* The process ends: sends, lookups and waiting tasks end with it.
LEMMA CrashStep ==
    ASSUME Inv, Crash
    PROVE  Inv' /\ Stands
<1>0. /\ TypeOK /\ Linked /\ Counted /\ queued' = {} /\ turns' = turns + 1 /\ turns < MaxTurns
      /\ calls' = [r \in Revisions |-> NoCall] /\ checks' = [o \in Owners |-> NoCheck]
      /\ UNCHANGED <<content, rows, posts, dispatched>> /\ Last' = Last
      /\ Last \in Nat /\ Last <= MaxRows /\ DOMAIN rows = 1..Last /\ rows \in Seq(Row)
      /\ \A q \in 1..Last : rows[q] \in Row
      /\ Len(posts) \in Nat /\ DOMAIN posts = 1..Len(posts) /\ turns \in Nat
      /\ content.packages \in Nat /\ content.text \in Nat /\ turns' \in 0..MaxTurns
  BY Types DEF Inv, Crash, Last, TypeOK, Contents
<1>1. /\ \A r \in Revisions : calls'[r] = NoCall /\ calls'[r].by = "none" /\ calls'[r].msg = 0
      /\ \A o \in Owners : checks'[o].pc = "none"
      /\ calls' \in [Revisions -> [by : {"none", "hand", "auto"}, msg : 0..MaxPosts]]
      /\ checks' \in [Owners -> [pc : CheckStates, row : 0..MaxRows, msg : 0..MaxPosts]]
  BY <1>0 DEF NoCall, NoCheck, CheckStates, MaxRows
<1>2. TypeOK'
  BY <1>0, <1>1 DEF TypeOK
<1>3. Counted'
  BY <1>0 DEF Counted, Last
<1>4. Linked'
  BY <1>0, <1>1 DEF Linked, State
<1>5. Calm
  <2>1. \A q \in 1..Last : rows[q].content.packages >= rows[q].content.packages
    BY <1>0, Packages
  <2>2. Last' \in Last..MaxRows
    BY <1>0 DEF MaxRows
  <2> QED BY <1>0, <1>1, <2>1, <2>2 DEF Calm, Unposted
<1>6. Unasked
  BY <1>0, <1>1 DEF Unasked, State
<1>7. SamePosts /\ Stands
  BY <1>0 DEF SamePosts, Stands, State
<1> QED BY <1>0, <1>2, <1>3, <1>4, <1>5, <1>6, <1>7, CalmStep, SamePostsStep, UnaskedStep DEF Inv

------------------------------------------------------------------------------
(* The inductive invariant, and what it gives. *)

LEMMA InitStep == Init => Inv
<1> SUFFICES ASSUME Init PROVE Inv
  OBVIOUS
<1>1. /\ rows = <<>> /\ Last = 0 /\ DOMAIN rows = {} /\ posts = <<>> /\ Len(posts) = 0
      /\ DOMAIN posts = {}
      /\ \A r \in Revisions : calls[r] = NoCall /\ calls[r].msg = 0
      /\ \A o \in Owners : checks[o].pc = "none"
      /\ content.text = 0 /\ content.packages = 1 /\ content.sendable = "yes"
      /\ turns = 0 /\ queued = {} /\ dispatched = {}
  BY DEF Init, Last, NoCall, NoCheck
<1>2. TypeOK
  BY <1>1 DEF Init, TypeOK, NoCall, NoCheck, Contents, Sendable, CheckStates, Last, MaxRows
<1>3. Counted
  BY <1>1 DEF Counted, Last
<1>4. Linked /\ OneSendAtATime /\ Sourced /\ StillNew /\ AutomaticIsNew
  BY <1>1 DEF Linked, OneSendAtATime, Sourced, StillNew, AutomaticIsNew
<1>5. Receipts
  BY <1>1 DEF Receipts, ReceiptIsTrue, AskedOf
<1> QED BY <1>2, <1>3, <1>4, <1>5 DEF Inv

LEMMA NextStep ==
    ASSUME Inv, Next
    PROVE  Inv' /\ (NoConflicts => Stands)
<1>1. CASE Scan
  BY <1>1, ScanStep
<1>2. CASE NewPackage \/ Edit
  BY <1>2, OrderStep
<1>3. CASE Reopen
  BY <1>3, ReopenStep
<1>4. CASE Crash
  BY <1>4, CrashStep
<1>5. ASSUME NEW d \in Decided, Decide(d) PROVE Inv' /\ Stands
  BY <1>5, DecideStep
<1>6. ASSUME NEW r \in Revisions, Approve(r) \/ AutoSend(r) PROVE Inv' /\ (NoConflicts => Stands)
  BY <1>6, ApproveStep, AutoSendStep
<1>7. ASSUME NEW r \in Revisions,
             \/ Admit(r) \/ Withdraw(r) \/ Post(r) \/ PostFails(r) \/ Finalize(r) \/ Reject(r)
      PROVE  Inv' /\ Stands
  BY <1>7, AdmitStep, WithdrawStep, PostStep, PostFailsStep, FinalizeStep, RejectStep
<1>8. ASSUME NEW o \in Owners, NEW r \in Revisions, Check(o, r) PROVE Inv' /\ Stands
  BY <1>8, AskStep, AnswerStep, FinishCheckStep DEF Check
<1> QED BY <1>1, <1>2, <1>3, <1>4, <1>5, <1>6, <1>7, <1>8 DEF Next

LEMMA Stutter ==
    ASSUME Inv, UNCHANGED vars
    PROVE  Inv'
<1>1. /\ UNCHANGED <<content, rows, calls, posts, checks, queued, dispatched, turns>>
      /\ TypeOK /\ Linked /\ Receipts /\ Sourced /\ StillNew /\ AutomaticIsNew
  BY DEF vars, Inv
<1>2. TypeOK'
  BY <1>1, SameRows DEF TypeOK
<1>3. Linked'
  BY <1>1 DEF Linked, State, Last
<1>4. Receipts' /\ Sourced' /\ StillNew' /\ AutomaticIsNew'
  BY <1>1 DEF Receipts, ReceiptIsTrue, AskedOf, State, Sourced, StillNew, Newest, Unposted,
              AutomaticIsNew
<1> QED BY <1>1, <1>2, <1>3, <1>4, SameRows DEF Inv

\* What the rows, the messages, the sends under way and the lookups say of each
\* other, in every state of every run.
THEOREM Invariance == Spec => []Inv
<1>1. Inv /\ [Next]_vars => Inv'
  BY NextStep, Stutter
<1> QED BY <1>1, InitStep, PTL DEF Spec

\* The revisions, the sends, the messages and the lookups keep their types, and
\* the bounds on revisions and messages are never passed: scans add no revision
\* without a change of the order or of the operator's mind.
THEOREM TypeCorrect == Spec => []TypeOK
<1>1. Inv => TypeOK
  BY DEF Inv
<1> QED BY <1>1, Invariance, PTL

\* Two revisions of one order are never being sent, whatever the operator, the
\* automatic mode and a restart do between claim and answer.
THEOREM OneAtATime == Spec => []OneSendAtATime
<1>1. Inv => OneSendAtATime
  BY DEF Inv
<1> QED BY <1>1, Invariance, PTL

\* The automatic mode never tells a customer of a package again: not after an
\* answer that was lost, a restart, a decision, a reopened review, or a message
\* sent by hand between its admission and its claim.
THEOREM NeverTwice == Spec => []AutomaticIsNew
<1>1. Inv => AutomaticIsNew
  BY DEF Inv
<1> QED BY <1>1, Invariance, PTL

\* While no lookup outlives its lease, what the queue shows of a message is what
\* became of it: the answers of the monitor and of the desk never cross.
THEOREM ReceiptsTrue ==
    ASSUME "slow_receipt" \notin Faults
    PROVE  Spec => []ReceiptIsTrue
<1>1. Inv => ReceiptIsTrue
  BY DEF Inv, Receipts
<1> QED BY <1>1, Invariance, PTL

\* Where no scan finds two names nobody chose between, the operator's decision
\* stands against answers, receipts, endings and scans, and no scan drafts over
\* a cancelled notification.
THEOREM DecisionsStand ==
    ASSUME "name_conflict" \notin Faults
    PROVE  Spec => DecisionStands
<1>1. Inv /\ [Next]_vars =>
        [/\ \A r \in DOMAIN rows : State(r) \in Decided => rows'[r].state \in Decided
         /\ Last > 0 /\ State(Last) = "CANCELLED" /\ Len(rows') > Last
              => rows'[Len(rows')].reopened]_vars
  BY NextStep DEF NoConflicts, Stands
<1> QED BY <1>1, Invariance, PTL DEF Spec, DecisionStands

\* Whatever the revisions have been through, a package the latest of them does
\* not tell of is drafted by the next scan, unless the order's notification was
\* cancelled.
THEOREM PackagesOffered == Spec => []PackageIsOffered
<1>1. TypeOK => PackageIsOffered
  <2> SUFFICES ASSUME TypeOK PROVE PackageIsOffered
    OBVIOUS
  <2> DEFINE c == content.sendable = "conflict"
             y(b) == Draft(DraftState, content, b)
             open == {"AWAITING_REVIEW", "HELD", "RETRYABLE"}
  <2>0. /\ rows \in Seq(Row) /\ Last \in Nat /\ content \in Contents
        /\ content.packages \in Nat /\ (rows = <<>> <=> Last = 0)
        /\ Last > 0 => Last \in 1..Last /\ rows[Last] \in Row
        /\ \A q \in 1..Last : rows[q].content.packages \in Nat
    BY RowsAre, Packages DEF TypeOK, Contents
  <2>1. \A b \in BOOLEAN : y(b) \in Row /\ y(b).content = content
    BY <2>0, DraftIs, DraftStateIs
  <2> HIDE DEF y
  <2>2. CASE Keeps(c)
    <3>1. /\ rows # <<>>
          /\ \/ rows[Last].content = content \/ rows[Last].state = "CANCELLED"
             \/ content.packages <= rows[Last].content.packages
      BY <2>2 DEF Keeps
    <3>2. rows[Last].content.packages >= content.packages \/ rows[Last].state = "CANCELLED"
      BY <2>0, <3>1
    <3> QED BY <3>1, <3>2 DEF PackageIsOffered, Last
  <2>3. CASE /\ ~Keeps(c) /\ rows # <<>> /\ State(Last) = "AWAITING_REVIEW"
             /\ content.packages > rows[Last].content.packages
    <3> DEFINE b == rows[Last].reopened
    <3>1. b \in BOOLEAN /\ Prepared(c) = [rows EXCEPT ![Last] = y(b)]
      BY <2>0, <2>3, RowIs DEF Prepared, y
    <3> HIDE DEF b
    <3>2. /\ Prepared(c) \in Seq(Row) /\ Len(Prepared(c)) = Last /\ Prepared(c)[Last] = y(b)
      BY <2>0, <2>1, <2>3, <3>1, Replaced DEF Last
    <3>3. Prepared(c) # <<>>
      BY <2>0, <2>3, <3>2, SeqFacts
    <3> QED BY <2>0, <2>1, <3>1, <3>2, <3>3 DEF PackageIsOffered
  <2>4. CASE ~Keeps(c) /\ ~(rows # <<>> /\ State(Last) = "AWAITING_REVIEW"
                            /\ content.packages > rows[Last].content.packages)
    <3> DEFINE old == Superseded(rows, open)
               new == Prepared(c)
    <3>1. new = Append(old, y(FALSE)) /\ open \in SUBSET Open
      BY <2>4 DEF Prepared, y, Open
    <3> HIDE DEF open
    <3>2. old \in Seq(Row) /\ Len(old) = Last
      BY <2>0, <3>1, SupersededIs DEF Last
    <3> HIDE DEF old, new
    <3>3. new \in Seq(Row) /\ Len(new) = Last + 1 /\ new[Last + 1] = y(FALSE)
      BY <2>1, <3>1, <3>2, Added
    <3>4. new # <<>> /\ new[Len(new)].content = content
      <4>1. y(FALSE).content = content
        BY <2>1
      <4>2. Len(new) # 0
        BY <2>0, <3>3
      <4> QED BY <3>3, <4>1, <4>2, SeqFacts
    <3>5. new[Len(new)].content.packages >= content.packages
      BY <2>0, <3>4
    <3> QED BY <3>4, <3>5 DEF PackageIsOffered, new
  <2> QED BY <2>2, <2>3, <2>4
<1> QED BY <1>1, TypeCorrect, PTL
=============================================================================
