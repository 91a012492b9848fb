----------------------------- MODULE RestProofs -----------------------------
(***************************************************************************)
(* What the requests that change the stores (RestServer) keep, for any     *)
(* clients, rows, patches and configuration, however many requests overlap *)
(* and fail.                                                               *)
(***************************************************************************)
EXTENDS RestServer, SequenceTheorems, TLAPS

----------------------------------------------------------------------------
(* The lists of calls *)

IsSequence(s) == s \in Seq({s[q] : q \in DOMAIN s})

\* A call writes nothing but rows of what its request touches.
OwnCall(call, ids) ==
  /\ call.call = "BatchInsertUsers" => KeysOf(call.users) \subseteq ids
  /\ call.call = "BatchInsertItems" => KeysOf(call.items) \subseteq ids
  /\ call.call = "ModifyUser" => call.user \in ids
  /\ call.call = "ModifyItem" => call.item \in ids
  /\ call.call \in {"DeleteUserRow", "DeleteItemRow"} => call.dropped \in ids
  /\ call.call \in {"InsertUsersOfFeedback", "InsertItemsOfFeedback", "InsertFeedback"}
       => UsersIn(call.feedback) \subseteq ids \cap Users /\ ItemsIn(call.feedback) \subseteq ids \cap Items

CacheCalls == {"AddScores", "UpdateScores"}
Inserts == CacheCalls \cup
  {"BatchInsertUsers", "ModifyUser", "BatchInsertItems", "ModifyItem",
   "InsertUsersOfFeedback", "InsertItemsOfFeedback", "InsertFeedback"}
Removals ==
  {"DeleteUserRow", "DeleteUserFeedback", "DeleteItemRow", "DeleteItemFeedback", "DeleteScores"}

\* A request that sets times changes what it is about, then sets all times,
\* then adds the categories.
OnlyCategories(calls) == \A q \in DOMAIN calls : calls[q].call = "AddSet"
SetsNext(calls, ids) ==
  /\ 1 \in DOMAIN calls /\ calls[1].call = "Set" /\ DOMAIN calls[1].times = ids
  /\ \A q \in DOMAIN calls : q > 1 => calls[q].call = "AddSet"
StampsLater(calls, ids) ==
  \E p \in DOMAIN calls :
    /\ calls[p] = Stamp(ids)
    /\ \A q \in DOMAIN calls : q < p => calls[q].call \in Inserts
    /\ \A q \in DOMAIN calls : q > p => calls[q].call = "AddSet"

\* Feedback is deleted next after its user or item.
Follows(calls) ==
  \A q \in DOMAIN calls :
    /\ calls[q].call = "DeleteUserRow" =>
         q + 1 \in DOMAIN calls /\ calls[q + 1] = DropUserFeedback(calls[q].dropped)
    /\ calls[q].call = "DeleteItemRow" =>
         q + 1 \in DOMAIN calls /\ calls[q + 1] = DropItemFeedback(calls[q].dropped)

OnlyRemovals(calls) == \A q \in DOMAIN calls : calls[q].call \in Removals
DropsNoRow(calls) == \A q \in DOMAIN calls : calls[q].call \notin {"DeleteUserRow", "DeleteItemRow"}

ListFits(calls, ids, resets, stamps) ==
  /\ IsSequence(calls)
  /\ \A q \in DOMAIN calls : OwnCall(calls[q], ids)
  /\ stamps => StampsLater(calls, ids) \/ SetsNext(calls, ids) \/ OnlyCategories(calls)
  /\ ~stamps => \A q \in DOMAIN calls : calls[q].call \notin {"Now", "Set"}
  /\ resets # {} => \A q \in DOMAIN calls : calls[q].call # "InsertFeedback"
  /\ Follows(calls)

\* Who is named by feedback, and is known by its table; a list of calls
\* that will make it known, or take its feedback away.
Sides == {"users", "items"}
Party(k, side) == IF side = "users" THEN k.user ELSE k.item
Mends(calls, side, id) ==
  \E q \in DOMAIN calls :
    \/ side = "users" /\ calls[q].call = "BatchInsertUsers" /\ id \in KeysOf(calls[q].users)
    \/ side = "users" /\ calls[q].call = "DeleteUserFeedback" /\ id = calls[q].of
    \/ side = "items" /\ calls[q].call = "BatchInsertItems" /\ id \in KeysOf(calls[q].items)
    \/ side = "items" /\ calls[q].call = "DeleteItemFeedback" /\ id = calls[q].of

----------------------------------------------------------------------------
(* The inductive invariant *)

StoresAreSound ==
  /\ db = [users |-> db.users, items |-> db.items, feedback |-> db.feedback]
  /\ "values" \in DOMAIN cache
  /\ clock \in Nat

IsRequest(r) ==
  /\ r = [touches |-> r.touches, resets |-> r.resets, alone |-> r.alone, stamps |-> r.stamps,
          changed |-> r.changed]
  /\ r.alone \in BOOLEAN /\ r.stamps \in BOOLEAN /\ r.resets \subseteq r.touches

RequestIsSound(c) ==
  /\ IsRequest(about[c])
  /\ ListFits(todo[c], about[c].touches, about[c].resets, about[c].stamps)
  /\ Idle(c) => about[c] = NoRequest /\ known[c] = NoneKnown
  /\ known[c] = [users |-> known[c].users, items |-> known[c].items]
  /\ DropsNoRow(todo[c]) \/ (OnlyRemovals(todo[c]) /\ known[c] = NoneKnown)

\* A request that is alone shares nothing with another.
AloneIsAlone ==
  \A c, d \in Clients : c # d /\ about[c].alone => about[c].touches \cap about[d].touches = {}

RequestsAreSound ==
  /\ todo = [c \in Clients |-> todo[c]]
  /\ known = [c \in Clients |-> known[c]]
  /\ about = [c \in Clients |-> about[c]]
  /\ \A c \in Clients : RequestIsSound(c)
  /\ AloneIsAlone

\* The times of changes: all are of the past, and those that are about to be
\* set are later than any change of theirs that is owed or made.
Covered(values, id, time) == id \in DOMAIN values /\ values[id] >= time
ChangesAreKept(c) ==
  LET changed == about[c].changed
  IN  /\ DOMAIN changed \subseteq about[c].touches \cap (Users \cup Items)
      /\ ~about[c].stamps => DOMAIN changed = {}
      /\ \A id \in DOMAIN changed : changed[id] \in Nat /\ changed[id] <= clock
      /\ Is(c, "Set") => \A id \in about[c].touches :
           /\ todo[c][1].times[id] \in Nat
           /\ id \in DOMAIN owed => owed[id] <= todo[c][1].times[id]
           /\ id \in DOMAIN changed => changed[id] <= todo[c][1].times[id]
      /\ Is(c, "AddSet") /\ about[c].alone => \A id \in DOMAIN changed : Covered(cache.values, id, changed[id])
TimesAreKept ==
  /\ DOMAIN owed = Users \cup Items
  /\ \A id \in Users \cup Items : owed[id] \in Nat /\ owed[id] <= clock
  /\ \A c \in Clients : ChangesAreKept(c)
  /\ TimesCoverChanges

TimesIInv == StoresAreSound /\ RequestsAreSound /\ TimesAreKept

\* Requests that overlap disturb what they share.
OverlapsDisturb ==
  \A c, d \in Clients : c # d => about[c].touches \cap about[d].touches \subseteq disturbed

\* What a request answers for.
AnswersFor(c, id) ==
  id \in about[c].touches /\ (id \notin disturbed \/ (about[c].alone /\ id \in about[c].resets))

OrphansAreMended ==
  \A side \in Sides, k \in DOMAIN db.feedback : Party(k, side) \notin DOMAIN db[side] =>
    /\ Party(k, side) \in disturbed \/ \E c \in Clients : Party(k, side) \in about[c].touches
    /\ \A c \in Clients : AnswersFor(c, Party(k, side)) => Mends(todo[c], side, Party(k, side))

\* What an insertion of feedback found is still there.
KnownAreThere ==
  \A side \in Sides, c \in Clients :
    known[c][side] \cap about[c].touches \subseteq disturbed \cup DOMAIN db[side]

FeedbackIsNamed == \A k \in DOMAIN db.feedback : k.user \in Users /\ k.item \in Items

OrphansIInv ==
  /\ StoresAreSound /\ RequestsAreSound /\ FeedbackIsNamed
  /\ OverlapsDisturb /\ OrphansAreMended /\ KnownAreThere

----------------------------------------------------------------------------
(* Lists *)

\* Functions on 1 .. n are lists.
LEMMA ListOf ==
  ASSUME NEW n \in Nat, NEW s, s = [q \in 1 .. n |-> s[q]]
  PROVE  IsSequence(s) /\ DOMAIN s = 1 .. n /\ Len(s) = n
<1> DEFINE S == {s[q] : q \in DOMAIN s}
<1>1. \A q \in 1 .. n : s[q] \in S
  OBVIOUS
<1>2. s \in [1 .. n -> S]
  <2> HIDE DEF S
  <2> QED
    BY <1>1
<1>3. s \in Seq(S)
  <2> HIDE DEF S
  <2> QED
    BY <1>2
<1> QED
  BY <1>3, LenProperties DEF IsSequence

\* The first call of a list and the ones that follow.
LEMMA TailOfList ==
  ASSUME NEW s, IsSequence(s), s # <<>>
  PROVE  /\ Len(s) \in Nat /\ DOMAIN s = 1 .. Len(s) /\ 1 \in DOMAIN s /\ Head(s) = s[1]
         /\ IsSequence(Tail(s)) /\ DOMAIN Tail(s) = 1 .. Len(s) - 1
         /\ \A q \in DOMAIN Tail(s) : q + 1 \in DOMAIN s /\ Tail(s)[q] = s[q + 1]
         /\ \A q \in DOMAIN s : q # 1 => q - 1 \in DOMAIN Tail(s) /\ Tail(s)[q - 1] = s[q]
<1> DEFINE S == {s[q] : q \in DOMAIN s}
<1>1. s \in Seq(S)
  BY DEF IsSequence
<1>2. /\ Len(s) \in Nat /\ DOMAIN s = 1 .. Len(s) /\ Len(s) # 0
      /\ Tail(s) \in Seq(S) /\ Len(Tail(s)) = Len(s) - 1
      /\ \A q \in 1 .. Len(Tail(s)) : Tail(s)[q] = s[q + 1]
  <2> HIDE DEF S
  <2> QED
    BY <1>1, HeadTailProperties, LenProperties, EmptySeq
<1>3. Tail(s) \in Seq(S) /\ DOMAIN Tail(s) = 1 .. Len(s) - 1
  <2> HIDE DEF S
  <2> QED
    BY <1>2, LenProperties
<1>4. IsSequence(Tail(s))
  <2>1. Tail(s) = [q \in 1 .. Len(s) - 1 |-> Tail(s)[q]]
    <3> HIDE DEF S
    <3> QED
      BY <1>2, <1>3, LenProperties
  <2>2. Len(s) - 1 \in Nat
    <3> HIDE DEF S
    <3> QED
      BY <1>2
  <2> QED
    BY <2>1, <2>2, ListOf
<1>5. Head(s) = s[1]
  BY <1>2
<1> QED
  BY <1>2, <1>3, <1>4, <1>5

\* One list after another.
LEMMA JoinedLists ==
  ASSUME NEW s, NEW t, IsSequence(s), IsSequence(t)
  PROVE  /\ IsSequence(s \o t) /\ Len(s) \in Nat /\ Len(t) \in Nat
         /\ DOMAIN s = 1 .. Len(s) /\ DOMAIN t = 1 .. Len(t) /\ DOMAIN (s \o t) = 1 .. Len(s) + Len(t)
         /\ \A q \in DOMAIN s : (s \o t)[q] = s[q]
         /\ \A q \in DOMAIN (s \o t) \ DOMAIN s : q - Len(s) \in DOMAIN t /\ (s \o t)[q] = t[q - Len(s)]
<1> DEFINE S == {s[q] : q \in DOMAIN s} \cup {t[q] : q \in DOMAIN t}
<1>1. s \in Seq(S) /\ t \in Seq(S)
  BY SeqMonotonic DEF IsSequence
<1> HIDE DEF S
<1>2. /\ Len(s) \in Nat /\ Len(t) \in Nat /\ DOMAIN s = 1 .. Len(s) /\ DOMAIN t = 1 .. Len(t)
      /\ s \o t \in Seq(S) /\ Len(s \o t) = Len(s) + Len(t)
      /\ \A q \in 1 .. Len(s) + Len(t) : (s \o t)[q] = IF q <= Len(s) THEN s[q] ELSE t[q - Len(s)]
  BY <1>1, LenProperties, ConcatProperties
<1>3. DOMAIN (s \o t) = 1 .. Len(s) + Len(t) /\ s \o t = [q \in 1 .. Len(s) + Len(t) |-> (s \o t)[q]]
  BY <1>2, LenProperties
<1>4. IsSequence(s \o t)
  BY <1>2, <1>3, ListOf
<1> QED
  BY <1>2, <1>3, <1>4

\* The calls of one after the other.
LEMMA CallsInTurn ==
  ASSUME NEW n \in {2, 3}, NEW m \in Nat, NEW s, IsSequence(s), Len(s) = m
  PROVE  /\ IsSequence(InTurn(s, n))
         /\ \A q \in DOMAIN InTurn(s, n) : \E j \in DOMAIN s, i \in 1 .. n : InTurn(s, n)[q] = s[j][i]
<1>1. s = <<>> \/ DOMAIN s = 1 .. m
  BY TailOfList
<1>2. DOMAIN s = 1 .. m
  BY <1>1
<1>3. n * m \in Nat
  OBVIOUS
<1>4. ASSUME NEW q \in 1 .. n * m
      PROVE  ((q - 1) \div n) + 1 \in 1 .. m /\ ((q - 1) % n) + 1 \in 1 .. n
  <2>1. CASE n = 2
    BY <2>1, <1>4
  <2>2. CASE n = 3
    BY <2>2, <1>4
  <2> QED
    BY <2>1, <2>2
<1>5. InTurn(s, n) = [q \in 1 .. n * m |-> s[((q - 1) \div n) + 1][((q - 1) % n) + 1]]
  BY DEF InTurn
<1>6. InTurn(s, n) = [q \in 1 .. n * m |-> InTurn(s, n)[q]] /\ DOMAIN InTurn(s, n) = 1 .. n * m
  BY <1>5
<1>7. IsSequence(InTurn(s, n))
  BY <1>3, <1>6, ListOf
<1>8. ASSUME NEW q \in 1 .. n * m
      PROVE  InTurn(s, n)[q] = s[((q - 1) \div n) + 1][((q - 1) % n) + 1]
  BY <1>5
<1> QED
  BY <1>2, <1>4, <1>6, <1>7, <1>8

----------------------------------------------------------------------------
(* The lists of the handlers *)

Fitting(calls, ids, resets, stamps) ==
  /\ ListFits(calls, ids, resets, stamps)
  /\ DropsNoRow(calls) \/ OnlyRemovals(calls)
  /\ stamps => calls # <<>> /\ StampsLater(calls, ids)
  /\ \A id \in resets : (id \in Users => Mends(calls, "users", id))
                       /\ (id \in Items => Mends(calls, "items", id))

\* A list of one to four calls.
LEMMA ShortLists ==
  ASSUME NEW a, NEW b, NEW e, NEW f
  PROVE  /\ IsSequence(<<>>) /\ IsSequence(<<a>>) /\ IsSequence(<<a, b>>)
         /\ IsSequence(<<a, b, e>>) /\ IsSequence(<<a, b, e, f>>)
<1>1. <<>> = [q \in 1 .. 0 |-> <<>>[q]]
  OBVIOUS
<1>2. <<a>> = [q \in 1 .. 1 |-> <<a>>[q]]
  OBVIOUS
<1>3. <<a, b>> = [q \in 1 .. 2 |-> <<a, b>>[q]]
  OBVIOUS
<1>4. <<a, b, e>> = [q \in 1 .. 3 |-> <<a, b, e>>[q]]
  OBVIOUS
<1>5. <<a, b, e, f>> = [q \in 1 .. 4 |-> <<a, b, e, f>>[q]]
  OBVIOUS
<1> QED
  BY <1>1, <1>2, <1>3, <1>4, <1>5, ListOf

\* A list of calls of the cache, which any request may begin with.
Quiet(s) == IsSequence(s) /\ \A q \in DOMAIN s : s[q].call \in CacheCalls

LEMMA QuietIsDropless == ASSUME NEW s, Quiet(s) PROVE DropsNoRow(s)
  BY DEF Quiet, DropsNoRow, CacheCalls

LEMMA QuietJoined == ASSUME NEW s, NEW t, Quiet(s), Quiet(t) PROVE Quiet(s \o t)
<1>1. IsSequence(s) /\ IsSequence(t)
  BY DEF Quiet
<1>2. ASSUME NEW q \in DOMAIN (s \o t) PROVE (s \o t)[q].call \in CacheCalls
  <2>1. CASE q \in DOMAIN s
    BY <1>1, <2>1, JoinedLists DEF Quiet
  <2>2. CASE q \notin DOMAIN s
    <3>1. q - Len(s) \in DOMAIN t /\ (s \o t)[q] = t[q - Len(s)]
      BY <1>1, <2>2, JoinedLists
    <3> QED
      BY <3>1 DEF Quiet
  <2> QED
    BY <2>1, <2>2
<1> QED
  BY <1>1, <1>2, JoinedLists DEF Quiet

\* A condition and the call it decides.
LEMMA QuietWhen ==
  ASSUME NEW condition \in BOOLEAN, NEW call, call.call \in CacheCalls
  PROVE  Quiet(When(condition, call))
<1>1. CASE condition
  <2>1. IsSequence(<<call>>)
    BY ShortLists
  <2>2. Quiet(<<call>>)
    BY <2>1 DEF Quiet
  <2> QED
    BY <1>1, <2>2 DEF When
<1>2. CASE ~condition
  <2>1. IsSequence(<<>>)
    BY ShortLists
  <2>2. Quiet(<<>>)
    BY <2>1 DEF Quiet
  <2> QED
    BY <1>2, <2>2 DEF When
<1> QED
  BY <1>1, <1>2

\* Calls of the cache before a list that sets times.
LEMMA AfterQuiet ==
  ASSUME NEW s, Quiet(s), NEW t, NEW ids, NEW resets, Fitting(t, ids, resets, TRUE), DropsNoRow(t)
  PROVE  Fitting(s \o t, ids, resets, TRUE)
<1> DEFINE st == s \o t
<1>1. IsSequence(s) /\ IsSequence(t)
  BY DEF Quiet, Fitting, ListFits
<1>2. /\ IsSequence(st) /\ Len(s) \in Nat /\ Len(t) \in Nat
      /\ DOMAIN s = 1 .. Len(s) /\ DOMAIN t = 1 .. Len(t) /\ DOMAIN st = 1 .. Len(s) + Len(t)
      /\ \A q \in DOMAIN s : st[q] = s[q]
      /\ \A q \in DOMAIN st \ DOMAIN s : q - Len(s) \in DOMAIN t /\ st[q] = t[q - Len(s)]
  BY <1>1, JoinedLists
<1> HIDE DEF st
<1>3. ASSUME NEW q \in DOMAIN st
      PROVE  \/ st[q].call \in CacheCalls
             \/ \E h \in DOMAIN t : st[q] = t[h]
  BY <1>2, <1>3 DEF Quiet
<1>4. ASSUME NEW q \in DOMAIN st PROVE OwnCall(st[q], ids)
  <2>1. CASE st[q].call \in CacheCalls
    BY <2>1 DEF OwnCall, CacheCalls
  <2>2. CASE \E h \in DOMAIN t : st[q] = t[h]
    BY <2>2 DEF Fitting, ListFits
  <2> QED
    BY <1>3, <1>4, <2>1, <2>2
<1>5. DropsNoRow(st)
  BY <1>3 DEF DropsNoRow, CacheCalls
<1>6. resets # {} => \A q \in DOMAIN st : st[q].call # "InsertFeedback"
  BY <1>3 DEF Fitting, ListFits, CacheCalls
<1>7. StampsLater(st, ids)
  <2>1. PICK p \in DOMAIN t :
          /\ t[p] = Stamp(ids)
          /\ \A q \in DOMAIN t : q < p => t[q].call \in Inserts
          /\ \A q \in DOMAIN t : q > p => t[q].call = "AddSet"
    BY DEF Fitting, StampsLater
  <2>2. Len(s) + p \in DOMAIN st /\ st[Len(s) + p] = t[p]
    <3>1. Len(s) + p \in DOMAIN st \ DOMAIN s
      BY <1>2
    <3> QED
      BY <3>1, <1>2
  <2>3. ASSUME NEW q \in DOMAIN st, q < Len(s) + p PROVE st[q].call \in Inserts
    <3>1. CASE q \in DOMAIN s
      BY <3>1, <1>2 DEF Quiet, Inserts
    <3>2. CASE q \notin DOMAIN s
      <4>1. q - Len(s) \in DOMAIN t /\ q - Len(s) < p /\ st[q] = t[q - Len(s)]
        BY <3>2, <1>2, <2>3
      <4> QED
        BY <4>1, <2>1
    <3> QED
      BY <3>1, <3>2
  <2>4. ASSUME NEW q \in DOMAIN st, q > Len(s) + p PROVE st[q].call = "AddSet"
    <3>1. q - Len(s) \in DOMAIN t /\ q - Len(s) > p /\ st[q] = t[q - Len(s)]
      BY <1>2, <2>4
    <3> QED
      BY <3>1, <2>1
  <2> QED
    BY <2>1, <2>2, <2>3, <2>4 DEF StampsLater
<1>8. Follows(st)
  BY <1>5 DEF Follows, DropsNoRow
<1>9. st # <<>>
  BY <1>7 DEF StampsLater
<1>10. ListFits(st, ids, resets, TRUE)
  BY <1>2, <1>4, <1>6, <1>7, <1>8 DEF ListFits
<1>m. ASSUME NEW side, NEW id, Mends(t, side, id) PROVE Mends(st, side, id)
  <2>1. ASSUME NEW h \in DOMAIN t PROVE Len(s) + h \in DOMAIN st /\ st[Len(s) + h] = t[h]
    <3>1. Len(s) + h \in DOMAIN st \ DOMAIN s
      BY <1>2
    <3> QED
      BY <3>1, <1>2
  <2> QED
    BY <1>m, <2>1 DEF Mends
<1>11. Fitting(st, ids, resets, TRUE)
  BY <1>5, <1>7, <1>9, <1>10, <1>m DEF Fitting
<1> QED
  BY <1>11 DEF st

\* A list that changes something, then sets the times.
LEMMA ThenStamps ==
  ASSUME NEW a, NEW ids, NEW resets, a.call \in Inserts, OwnCall(a, ids),
         resets # {} => a.call # "InsertFeedback",
         \A id \in resets : /\ id \in Users => Mends(<<a>>, "users", id)
                            /\ id \in Items => Mends(<<a>>, "items", id)
  PROVE  Fitting(<<a, Stamp(ids)>>, ids, resets, TRUE) /\ DropsNoRow(<<a, Stamp(ids)>>)
<1> DEFINE s == <<a, Stamp(ids)>>
<1>1. IsSequence(s)
  BY ShortLists
<1>2. DOMAIN s = {1, 2} /\ s[1] = a /\ s[2] = Stamp(ids) /\ s[2].call = "Now" /\ s # <<>>
  BY DEF Stamp
<1>3. ASSUME NEW side, NEW id, Mends(<<a>>, side, id) PROVE Mends(s, side, id)
  <2>1. DOMAIN <<a>> = {1} /\ <<a>>[1] = a
    OBVIOUS
  <2> HIDE DEF s
  <2> QED
    BY <1>2, <1>3, <2>1 DEF Mends
<1> HIDE DEF s
<1>4. \A q \in DOMAIN s : OwnCall(s[q], ids)
  BY <1>2 DEF OwnCall
<1>5. StampsLater(s, ids)
  BY <1>2 DEF StampsLater
<1>6. DropsNoRow(s)
  BY <1>2 DEF DropsNoRow, Inserts, CacheCalls
<1>7. Follows(s)
  BY <1>6 DEF Follows, DropsNoRow
<1>8. resets # {} => \A q \in DOMAIN s : s[q].call # "InsertFeedback"
  BY <1>2
<1>9. Fitting(s, ids, resets, TRUE)
  BY <1>1, <1>2, <1>3, <1>4, <1>5, <1>6, <1>7, <1>8 DEF Fitting, ListFits
<1> QED
  BY <1>6, <1>9 DEF s

LEMMA MendsAlone ==
  ASSUME NEW a, NEW id
  PROVE  /\ a.call = "BatchInsertUsers" /\ id \in KeysOf(a.users) => Mends(<<a>>, "users", id)
         /\ a.call = "BatchInsertItems" /\ id \in KeysOf(a.items) => Mends(<<a>>, "items", id)
<1>1. DOMAIN <<a>> = {1} /\ <<a>>[1] = a
  OBVIOUS
<1> QED
  BY <1>1 DEF Mends

LEMMA KeyOfRow == ASSUME NEW r PROVE KeysOf(<<r>>) = {r.key}
<1>1. DOMAIN <<r>> = {1} /\ <<r>>[1] = r
  OBVIOUS
<1> QED
  BY <1>1 DEF KeysOf

LEMMA UserListsFit ==
  ASSUME NEW t, KeysOf(t) \cap Items = {}
  PROVE  Fitting(insertUsers(t), KeysOf(t), KeysOf(t), TRUE)
<1> DEFINE a == PutUsers(t)
<1>1. a.call = "BatchInsertUsers" /\ a.users = t
  BY DEF PutUsers
<1> HIDE DEF a
<1>2. a.call \in Inserts /\ OwnCall(a, KeysOf(t)) /\ a.call # "InsertFeedback"
  BY <1>1 DEF Inserts, OwnCall
<1>3. \A id \in KeysOf(t) : Mends(<<a>>, "users", id) /\ id \notin Items
  BY <1>1, MendsAlone
<1>4. Fitting(<<a, Stamp(KeysOf(t))>>, KeysOf(t), KeysOf(t), TRUE)
  BY <1>2, <1>3, ThenStamps
<1> QED
  BY <1>4 DEF insertUsers, a

LEMMA UserListFits ==
  ASSUME NEW r, r.key \notin Items
  PROVE  Fitting(insertUser(r), {r.key}, {r.key}, TRUE)
<1>1. KeysOf(<<r>>) = {r.key}
  BY KeyOfRow
<1>2. Fitting(insertUsers(<<r>>), {r.key}, {r.key}, TRUE)
  BY <1>1, UserListsFit
<1> QED
  BY <1>1, <1>2 DEF insertUsers, insertUser

LEMMA ModifyUserFits == ASSUME NEW u, NEW p PROVE Fitting(modifyUser(u, p), {u}, {}, TRUE)
<1> DEFINE a == PatchUser(u, p)
<1>1. a.call = "ModifyUser" /\ a.user = u
  BY DEF PatchUser
<1> HIDE DEF a
<1>2. a.call \in Inserts /\ OwnCall(a, {u}) /\ a.call # "InsertFeedback"
  BY <1>1 DEF Inserts, OwnCall
<1>3. Fitting(<<a, Stamp({u})>>, {u}, {}, TRUE)
  BY <1>2, ThenStamps
<1> QED
  BY <1>3 DEF modifyUser, a

LEMMA DeleteUserFits == ASSUME NEW u, u \notin Items PROVE Fitting(deleteUser(u), {u}, {u}, FALSE)
<1> DEFINE s == deleteUser(u)
<1>1. IsSequence(s)
  BY ShortLists DEF deleteUser
<1>2. /\ DOMAIN s = {1, 2} /\ s[1] = DropUser(u) /\ s[2] = DropUserFeedback(u)
      /\ s[1].call = "DeleteUserRow" /\ s[1].dropped = u /\ s[2].call = "DeleteUserFeedback" /\ s[2].of = u
  BY DEF deleteUser, DropUser, DropUserFeedback
<1> HIDE DEF s
<1>3. \A q \in DOMAIN s : OwnCall(s[q], {u}) /\ s[q].call \in Removals
  BY <1>2 DEF OwnCall, Removals
<1>4. Follows(s)
  BY <1>2 DEF Follows
<1>5. Mends(s, "users", u)
  BY <1>2 DEF Mends
<1>6. ListFits(s, {u}, {u}, FALSE)
  BY <1>1, <1>3, <1>4 DEF ListFits, Removals
<1>7. Fitting(s, {u}, {u}, FALSE)
  BY <1>3, <1>5, <1>6 DEF Fitting, OnlyRemovals
<1> QED
  BY <1>7 DEF s

LEMMA DeleteItemFits == ASSUME NEW i, i \notin Users PROVE Fitting(deleteItem(i), {i}, {i}, FALSE)
<1> DEFINE s == deleteItem(i)
<1>1. IsSequence(s)
  BY ShortLists DEF deleteItem
<1>2. /\ DOMAIN s = {1, 2, 3} /\ s[1] = DropItem(i) /\ s[2] = DropItemFeedback(i)
      /\ s[1].call = "DeleteItemRow" /\ s[1].dropped = i /\ s[2].call = "DeleteItemFeedback" /\ s[2].of = i
      /\ s[3].call = "DeleteScores"
  BY DEF deleteItem, DropItem, DropItemFeedback, DropDocs
<1> HIDE DEF s
<1>3. \A q \in DOMAIN s : OwnCall(s[q], {i}) /\ s[q].call \in Removals
  BY <1>2 DEF OwnCall, Removals
<1>4. Follows(s)
  BY <1>2 DEF Follows
<1>5. Mends(s, "items", i)
  BY <1>2 DEF Mends
<1>6. ListFits(s, {i}, {i}, FALSE)
  BY <1>1, <1>3, <1>4 DEF ListFits, Removals
<1>7. Fitting(s, {i}, {i}, FALSE)
  BY <1>3, <1>5, <1>6 DEF Fitting, OnlyRemovals
<1> QED
  BY <1>7 DEF s

LEMMA ItemListsFit ==
  ASSUME NEW t, IsSequence(t), t # <<>>, KeysOf(t) \cap Users = {}
  PROVE  Fitting(batchInsertItems(t), KeysOf(t), KeysOf(t), TRUE)
<1> DEFINE ids == KeysOf(t)
           s == [j \in DOMAIN t |-> CacheItem(t[j])]
           e == AddCategories(UNION {t[j].row.categories : j \in DOMAIN t})
           r == <<PutItems(t), Stamp(ids), e>>
<1>1. Len(t) \in Nat /\ DOMAIN t = 1 .. Len(t)
  BY TailOfList
<1>2. IsSequence(s) /\ Len(s) = Len(t) /\ DOMAIN s = 1 .. Len(t)
  <2>1. s = [j \in 1 .. Len(t) |-> s[j]]
    BY <1>1
  <2> HIDE DEF s
  <2> QED
    BY <1>1, <2>1, ListOf
<1>3. \A j \in DOMAIN s, i \in 1 .. 2 : s[j][i].call \in CacheCalls
  <2> SUFFICES ASSUME NEW j \in DOMAIN t, NEW i \in 1 .. 2 PROVE CacheItem(t[j])[i].call \in CacheCalls
    OBVIOUS
  <2>1. i = 1 \/ i = 2
    OBVIOUS
  <2> QED
    BY <2>1 DEF CacheItem, AddLatest, UpdateDocs, CacheCalls
<1> HIDE DEF s
<1>4. Quiet(InTurn(s, 2))
  BY <1>1, <1>2, <1>3, CallsInTurn DEF Quiet
<1>5. IsSequence(r)
  BY ShortLists
<1>6. /\ DOMAIN r = {1, 2, 3} /\ r[1].call = "BatchInsertItems" /\ r[1].items = t
      /\ r[2] = Stamp(ids) /\ r[2].call = "Now" /\ r[3].call = "AddSet" /\ r # <<>>
  BY DEF PutItems, Stamp, AddCategories
<1> HIDE DEF r, e, ids
<1>7. \A q \in DOMAIN r : OwnCall(r[q], ids) /\ r[q].call # "InsertFeedback"
  BY <1>6 DEF OwnCall, ids
<1>8. StampsLater(r, ids)
  <2>1. 2 \in DOMAIN r /\ \A q \in DOMAIN r : (q < 2 => r[q].call \in Inserts) /\ (q > 2 => r[q].call = "AddSet")
    BY <1>6 DEF Inserts
  <2> QED
    BY <1>6, <2>1 DEF StampsLater
<1>9. DropsNoRow(r)
  BY <1>6 DEF DropsNoRow
<1>10. Follows(r)
  BY <1>9 DEF Follows, DropsNoRow
<1>11. \A id \in ids : id \notin Users /\ Mends(r, "items", id)
  BY <1>6 DEF Mends, ids
<1>12. Fitting(r, ids, ids, TRUE)
  BY <1>5, <1>6, <1>7, <1>8, <1>9, <1>10, <1>11 DEF Fitting, ListFits
<1>13. Fitting(InTurn(s, 2) \o r, ids, ids, TRUE)
  BY <1>4, <1>9, <1>12, AfterQuiet
<1> QED
  BY <1>13 DEF batchInsertItems, s, r, e, ids

LEMMA ItemListFits ==
  ASSUME NEW r, r.key \notin Users
  PROVE  Fitting(insertItem(r), {r.key}, {r.key}, TRUE)
<1>1. KeysOf(<<r>>) = {r.key}
  BY KeyOfRow
<1>2. IsSequence(<<r>>) /\ <<r>> # <<>>
  BY ShortLists
<1>3. Fitting(batchInsertItems(<<r>>), {r.key}, {r.key}, TRUE)
  BY <1>1, <1>2, ItemListsFit
<1> QED
  BY <1>3 DEF insertItem

LEMMA ModifyItemFits == ASSUME NEW i, NEW p PROVE Fitting(modifyItem(i, p), {i}, {}, TRUE)
<1> DEFINE a == PatchItem(i, p)
           h == When("is_hidden" \in DOMAIN p, UpdateDocs(ItemCache, Nil, i, Restriction(p, {"is_hidden"})))
           l == When("timestamp" \in DOMAIN p, UpdateDocs({"NonPersonalized"}, Latest, i, [score |-> p.timestamp]))
           k == When("categories" \in DOMAIN p,
                     UpdateDocs(ItemCache, Nil, i, [categories |-> withWildCard(p.categories)]))
           r == <<a, Stamp({i})>>
<1>1. Fitting(r, {i}, {}, TRUE) /\ DropsNoRow(r)
  <2>1. a.call = "ModifyItem" /\ a.item = i
    BY DEF PatchItem
  <2> HIDE DEF a
  <2>2. a.call \in Inserts /\ OwnCall(a, {i}) /\ a.call # "InsertFeedback"
    BY <2>1 DEF Inserts, OwnCall
  <2>3. Fitting(<<a, Stamp({i})>>, {i}, {}, TRUE)
    BY <2>2, ThenStamps
  <2>4. DropsNoRow(<<a, Stamp({i})>>)
    BY <2>1 DEF DropsNoRow, Stamp
  <2> QED
    BY <2>3, <2>4
<1>2. Quiet(h) /\ Quiet(l) /\ Quiet(k)
  <2>1. \A ks, subset, patch : UpdateDocs(ks, subset, i, patch).call \in CacheCalls
    BY DEF UpdateDocs, CacheCalls
  <2>2. ("is_hidden" \in DOMAIN p) \in BOOLEAN /\ ("timestamp" \in DOMAIN p) \in BOOLEAN
          /\ ("categories" \in DOMAIN p) \in BOOLEAN
    OBVIOUS
  <2>3. Quiet(h)
    BY <2>1, <2>2, QuietWhen
  <2>4. Quiet(l)
    BY <2>1, <2>2, QuietWhen
  <2>5. Quiet(k)
    BY <2>1, <2>2, QuietWhen
  <2> QED
    BY <2>3, <2>4, <2>5
<1> HIDE DEF a, h, l, k, r
<1>3. Quiet((h \o l) \o k)
  BY <1>2, QuietJoined
<1>4. Fitting(((h \o l) \o k) \o r, {i}, {}, TRUE)
  BY <1>1, <1>3, AfterQuiet
<1> QED
  BY <1>4 DEF modifyItem, a, h, l, k, r

\* Lists that set no time.
LEMMA PlainList ==
  ASSUME NEW s, NEW ids, IsSequence(s),
         \A q \in DOMAIN s : OwnCall(s[q], ids) /\ s[q].call \in Inserts \cup {"DeleteUserItemFeedback"}
  PROVE  Fitting(s, ids, {}, FALSE)
<1>1. \A q \in DOMAIN s : s[q].call \notin {"Now", "Set", "DeleteUserRow", "DeleteItemRow"}
  BY DEF Inserts, CacheCalls
<1> QED
  BY <1>1 DEF Fitting, ListFits, Follows, DropsNoRow

LEMMA CategoryListsFit ==
  ASSUME NEW i, NEW k
  PROVE  Fitting(insertItemCategory(i, k), {i}, {}, FALSE) /\ Fitting(deleteItemCategory(i, k), {i}, {}, FALSE)
<1>1. Fitting(<<>>, {i}, {}, FALSE)
  <2>1. IsSequence(<<>>)
    BY ShortLists
  <2>2. DOMAIN <<>> = {}
    OBVIOUS
  <2> QED
    BY <2>1, <2>2, PlainList
<1>2. ASSUME NEW row, NEW p
      PROVE  /\ Fitting(<<PutItems(<<[key |-> i, row |-> row]>>), UpdateDocs(ItemCache, Nil, i, p)>>, {i}, {}, FALSE)
             /\ Fitting(<<UpdateDocs(ItemCache, Nil, i, p), PutItems(<<[key |-> i, row |-> row]>>)>>, {i}, {}, FALSE)
  <2> DEFINE a == PutItems(<<[key |-> i, row |-> row]>>)
             b == UpdateDocs(ItemCache, Nil, i, p)
  <2>1. a.call = "BatchInsertItems" /\ KeysOf(a.items) = {i} /\ b.call = "UpdateScores"
    BY KeyOfRow DEF PutItems, UpdateDocs
  <2> HIDE DEF a, b
  <2>2. OwnCall(a, {i}) /\ OwnCall(b, {i}) /\ a.call \in Inserts /\ b.call \in Inserts
    BY <2>1 DEF OwnCall, Inserts, CacheCalls
  <2>3. IsSequence(<<a, b>>) /\ DOMAIN <<a, b>> = {1, 2} /\ <<a, b>>[1] = a /\ <<a, b>>[2] = b
    <3>1. IsSequence(<<a, b>>)
      BY ShortLists
    <3> QED
      BY <3>1
  <2>4. IsSequence(<<b, a>>) /\ DOMAIN <<b, a>> = {1, 2} /\ <<b, a>>[1] = b /\ <<b, a>>[2] = a
    <3>1. IsSequence(<<b, a>>)
      BY ShortLists
    <3> QED
      BY <3>1
  <2>5. Fitting(<<a, b>>, {i}, {}, FALSE)
    <3> DEFINE s == <<a, b>>
    <3>1. \A q \in DOMAIN s : OwnCall(s[q], {i}) /\ s[q].call \in Inserts
      BY <2>2, <2>3
    <3> QED
      BY <2>3, <3>1, PlainList
  <2>6. Fitting(<<b, a>>, {i}, {}, FALSE)
    <3> DEFINE s == <<b, a>>
    <3>1. \A q \in DOMAIN s : OwnCall(s[q], {i}) /\ s[q].call \in Inserts
      BY <2>2, <2>4
    <3> QED
      BY <2>4, <3>1, PlainList
  <2> QED
    BY <2>5, <2>6 DEF a, b
<1> QED
  BY <1>1, <1>2 DEF insertItemCategory, deleteItemCategory

\* The rows of a table of feedback name what it touches.
LEMMA FeedbackListsFit ==
  ASSUME NEW t, NEW overwrite, UsersIn(t) \subseteq Users, ItemsIn(t) \subseteq Items
  PROVE  Fitting(insertFeedback(t, overwrite), UsersIn(t) \cup ItemsIn(t), {}, TRUE)
<1> DEFINE ids == UsersIn(t) \cup ItemsIn(t)
           s == insertFeedback(t, overwrite)
<1>1. IsSequence(s)
  BY ShortLists DEF insertFeedback
<1>2. /\ DOMAIN s = {1, 2, 3, 4} /\ s # <<>>
      /\ s[1].call = "InsertUsersOfFeedback" /\ s[1].feedback = t
      /\ s[2].call = "InsertItemsOfFeedback" /\ s[2].feedback = t
      /\ s[3].call = "InsertFeedback" /\ s[3].feedback = t
      /\ s[4] = Stamp(ids) /\ s[4].call = "Now"
  BY DEF insertFeedback, KnowUsers, KnowItems, PutFeedback, Stamp
<1> HIDE DEF s
<1>3. UsersIn(t) \subseteq ids \cap Users /\ ItemsIn(t) \subseteq ids \cap Items
  OBVIOUS
<1> HIDE DEF ids
<1>4. \A q \in DOMAIN s : OwnCall(s[q], ids)
  BY <1>2, <1>3 DEF OwnCall
<1>5. StampsLater(s, ids)
  <2>1. 4 \in DOMAIN s /\ \A q \in DOMAIN s : (q < 4 => s[q].call \in Inserts) /\ ~(q > 4)
    BY <1>2 DEF Inserts
  <2> QED
    BY <1>2, <2>1 DEF StampsLater
<1>6. DropsNoRow(s)
  BY <1>2 DEF DropsNoRow
<1>7. Follows(s)
  BY <1>6 DEF Follows, DropsNoRow
<1>8. Fitting(s, ids, {}, TRUE)
  BY <1>1, <1>2, <1>4, <1>5, <1>6, <1>7 DEF Fitting, ListFits
<1> QED
  BY <1>8 DEF s, ids

LEMMA DeleteFeedbackFits ==
  ASSUME NEW u, NEW i, NEW types PROVE Fitting(deleteUserItemFeedback(u, i, types), {u, i}, {}, FALSE)
<1> DEFINE a == DropFeedback(u, i, types)
<1>1. a.call = "DeleteUserItemFeedback"
  BY DEF DropFeedback
<1> HIDE DEF a
<1>2. IsSequence(<<a>>) /\ DOMAIN <<a>> = {1} /\ <<a>>[1] = a
  <2>1. IsSequence(<<a>>)
    BY ShortLists
  <2> QED
    BY <2>1
<1>3. OwnCall(a, {u, i})
  BY <1>1 DEF OwnCall
<1> QED
  BY <1>1, <1>2, <1>3, PlainList DEF deleteUserItemFeedback, a

LEMMA WriteBackFits ==
  ASSUME NEW u \in Users, NEW n \in Nat, NEW answer \in [1 .. n -> Items]
  PROVE  Fitting(writeBack(u, answer), {u} \cup {answer[j] : j \in 1 .. n}, {}, FALSE)
<1> DEFINE ids == {u} \cup {answer[j] : j \in 1 .. n}
           s == [j \in DOMAIN answer |-> WriteItemBack(WrittenBack(u, answer[j]))]
<1>1. IsSequence(s) /\ Len(s) = n /\ DOMAIN s = 1 .. n
  <2>1. s = [j \in 1 .. n |-> s[j]]
    OBVIOUS
  <2> HIDE DEF s
  <2> QED
    BY <2>1, ListOf
<1>2. ASSUME NEW j \in 1 .. n, NEW i \in 1 .. 3
      PROVE  OwnCall(s[j][i], ids) /\ s[j][i].call \in Inserts
  <2> DEFINE t == WrittenBack(u, answer[j])
             w == WriteItemBack(t)
  <2>1. KeysOf(t) = {[type |-> WriteBackType, user |-> u, item |-> answer[j]]}
    BY KeyOfRow DEF WrittenBack
  <2>2. UsersIn(t) = {u} /\ ItemsIn(t) = {answer[j]}
    <3> HIDE DEF t
    <3> QED
      BY <2>1 DEF UsersIn, ItemsIn
  <2>3. UsersIn(t) \subseteq ids \cap Users /\ ItemsIn(t) \subseteq ids \cap Items
    BY <2>2
  <2>4. /\ w[1].call = "InsertUsersOfFeedback" /\ w[1].feedback = t
        /\ w[2].call = "InsertItemsOfFeedback" /\ w[2].feedback = t
        /\ w[3].call = "InsertFeedback" /\ w[3].feedback = t
    BY DEF WriteItemBack, KnowUsers, KnowItems, PutFeedback
  <2>5. i = 1 \/ i = 2 \/ i = 3
    OBVIOUS
  <2>6. s[j][i] = w[i]
    OBVIOUS
  <2> HIDE DEF w, t, ids, s
  <2> QED
    BY <2>3, <2>4, <2>5, <2>6 DEF OwnCall, Inserts
<1> HIDE DEF s, ids
<1>3. IsSequence(InTurn(s, 3))
  BY <1>1, CallsInTurn
<1>4. ASSUME NEW q \in DOMAIN InTurn(s, 3)
      PROVE  OwnCall(InTurn(s, 3)[q], ids) /\ InTurn(s, 3)[q].call \in Inserts
  <2>1. PICK j \in DOMAIN s, i \in 1 .. 3 : InTurn(s, 3)[q] = s[j][i]
    BY <1>1, CallsInTurn
  <2> QED
    BY <1>1, <1>2, <2>1
<1>5. Fitting(InTurn(s, 3), ids, {}, FALSE)
  BY <1>3, <1>4, PlainList
<1> QED
  BY <1>5 DEF writeBack, s, ids

----------------------------------------------------------------------------
(* What a step does to the requests *)

\* What is left after the first call.
LEMMA TailFits ==
  ASSUME NEW s, NEW ids, NEW resets, NEW stamps \in BOOLEAN, s # <<>>,
         ListFits(s, ids, resets, stamps), s[1].call # "Now"
  PROVE  /\ ListFits(Tail(s), ids, resets, stamps)
         /\ DropsNoRow(s) => DropsNoRow(Tail(s))
         /\ OnlyRemovals(s) => OnlyRemovals(Tail(s))
<1> DEFINE t == Tail(s)
<1>1. /\ Len(s) \in Nat /\ DOMAIN s = 1 .. Len(s) /\ 1 \in DOMAIN s
      /\ IsSequence(t) /\ DOMAIN t = 1 .. Len(s) - 1
      /\ \A q \in DOMAIN t : q + 1 \in DOMAIN s /\ t[q] = s[q + 1]
      /\ \A q \in DOMAIN s : q # 1 => q - 1 \in DOMAIN t /\ t[q - 1] = s[q]
  BY TailOfList DEF ListFits
<1> HIDE DEF t
<1>2. \A q \in DOMAIN t : OwnCall(t[q], ids)
  BY <1>1 DEF ListFits
<1>3. ~stamps => \A q \in DOMAIN t : t[q].call \notin {"Now", "Set"}
  BY <1>1 DEF ListFits
<1>4. resets # {} => \A q \in DOMAIN t : t[q].call # "InsertFeedback"
  BY <1>1 DEF ListFits
<1>5. Follows(t)
  <2> SUFFICES ASSUME NEW q \in DOMAIN t
               PROVE  /\ t[q].call = "DeleteUserRow" =>
                           q + 1 \in DOMAIN t /\ t[q + 1] = DropUserFeedback(t[q].dropped)
                      /\ t[q].call = "DeleteItemRow" =>
                           q + 1 \in DOMAIN t /\ t[q + 1] = DropItemFeedback(t[q].dropped)
    BY DEF Follows
  <2>1. q + 1 \in DOMAIN s /\ t[q] = s[q + 1] /\ q \in Nat
    BY <1>1
  <2>2. (q + 1) + 1 \in DOMAIN s => q + 1 \in DOMAIN t /\ t[q + 1] = s[(q + 1) + 1]
    BY <1>1, <2>1
  <2>3. /\ s[q + 1].call = "DeleteUserRow" =>
             (q + 1) + 1 \in DOMAIN s /\ s[(q + 1) + 1] = DropUserFeedback(s[q + 1].dropped)
        /\ s[q + 1].call = "DeleteItemRow" =>
             (q + 1) + 1 \in DOMAIN s /\ s[(q + 1) + 1] = DropItemFeedback(s[q + 1].dropped)
    BY <2>1 DEF ListFits, Follows
  <2> QED
    BY <2>1, <2>2, <2>3
<1>6. ASSUME stamps PROVE StampsLater(t, ids) \/ SetsNext(t, ids) \/ OnlyCategories(t)
  <2>1. CASE StampsLater(s, ids)
    <3>1. PICK p \in DOMAIN s :
            /\ s[p] = Stamp(ids)
            /\ \A q \in DOMAIN s : q < p => s[q].call \in Inserts
            /\ \A q \in DOMAIN s : q > p => s[q].call = "AddSet"
      BY <2>1 DEF StampsLater
    <3>2. p # 1
      BY <3>1 DEF Stamp
    <3>3. p - 1 \in DOMAIN t /\ t[p - 1] = Stamp(ids)
      BY <1>1, <3>1, <3>2
    <3>4. ASSUME NEW q \in DOMAIN t
          PROVE  (q < p - 1 => t[q].call \in Inserts) /\ (q > p - 1 => t[q].call = "AddSet")
      <4>1. q + 1 \in DOMAIN s /\ t[q] = s[q + 1] /\ q \in Nat /\ p \in Nat
        BY <1>1
      <4>2. (q < p - 1 => q + 1 < p) /\ (q > p - 1 => q + 1 > p)
        BY <4>1
      <4> QED
        BY <3>1, <4>1, <4>2
    <3>5. StampsLater(t, ids)
      BY <3>3, <3>4 DEF StampsLater
    <3> QED
      BY <3>5
  <2>2. CASE SetsNext(s, ids)
    <3>1. ASSUME NEW q \in DOMAIN t PROVE t[q].call = "AddSet"
      <4>1. q + 1 \in DOMAIN s /\ t[q] = s[q + 1] /\ q + 1 > 1
        BY <1>1
      <4> QED
        BY <2>2, <4>1 DEF SetsNext
    <3> QED
      BY <3>1 DEF OnlyCategories
  <2>3. CASE OnlyCategories(s)
    BY <1>1, <2>3 DEF OnlyCategories
  <2> QED
    BY <1>6, <2>1, <2>2, <2>3 DEF ListFits
<1>7. ListFits(t, ids, resets, stamps)
  BY <1>1, <1>2, <1>3, <1>4, <1>5, <1>6 DEF ListFits
<1>8. (DropsNoRow(s) => DropsNoRow(t)) /\ (OnlyRemovals(s) => OnlyRemovals(t))
  BY <1>1 DEF DropsNoRow, OnlyRemovals
<1> QED
  BY <1>7, <1>8 DEF t

\* Requests that touch nothing are in nobody's way.
LEMMA IdleTouchesNothing ==
  ASSUME RequestsAreSound, NEW c \in Clients, Idle(c)
  PROVE  about[c] = NoRequest /\ about[c].touches = {} /\ about[c].resets = {} /\ about[c].stamps = FALSE
           /\ known[c] = NoneKnown
  BY DEF RequestsAreSound, RequestIsSound, NoRequest

LEMMA NothingFits == ListFits(<<>>, {}, {}, FALSE) /\ IsRequest(NoRequest)
                       /\ NoneKnown = [users |-> NoneKnown.users, items |-> NoneKnown.items] /\ DropsNoRow(<<>>)
<1>1. IsSequence(<<>>)
  BY ShortLists
<1>2. DOMAIN <<>> = {}
  OBVIOUS
<1>3. ListFits(<<>>, {}, {}, FALSE) /\ DropsNoRow(<<>>)
  BY <1>1, <1>2 DEF ListFits, Follows, DropsNoRow
<1> QED
  BY <1>3 DEF IsRequest, NoRequest, NoneKnown

\* What the requests are about when one has begun.
BegunByItself(c, ids, resets, stamps) ==
  /\ about'[c].touches = ids /\ about'[c].resets = resets
  /\ about'[c].alone => Touching(ids) = {}
  /\ about'[c].stamps = stamps /\ about'[c].changed = EmptyTable /\ IsRequest(about'[c])
GoesOnBeside(d, ids) ==
  /\ IsRequest(about'[d])
  /\ about'[d].touches = about[d].touches /\ about'[d].resets = about[d].resets
  /\ about'[d].stamps = about[d].stamps /\ about'[d].changed = about[d].changed
  /\ about'[d].alone => about[d].alone /\ d \notin Touching(ids)
  /\ Idle(d) => about'[d] = NoRequest
Begun(c, calls, ids, resets, stamps) ==
  /\ todo' = [d \in Clients |-> IF d = c THEN calls ELSE todo[d]]
  /\ about' = [d \in Clients |-> about'[d]]
  /\ calls = <<>> => about'[c] = NoRequest
  /\ calls # <<>> => BegunByItself(c, ids, resets, stamps)
  /\ \A d \in Clients \ {c} : GoesOnBeside(d, ids)

LEMMA AboutBegun ==
  ASSUME RequestsAreSound, NEW c \in Clients, NEW calls, NEW ids, NEW resets, NEW stamps \in BOOLEAN,
         Begin(c, calls, ids, resets, stamps), resets \subseteq ids
  PROVE  Begun(c, calls, ids, resets, stamps)
<1>1. about' = [d \in Clients |->
       IF d = c THEN IF calls = <<>> THEN NoRequest ELSE
                     [touches |-> ids, resets |-> resets, alone |-> Touching(ids) = {},
                      stamps |-> stamps, changed |-> EmptyTable]
       ELSE [about[d] EXCEPT !.alone = @ /\ d \notin Touching(ids)]]
  BY DEF Begin
<1>2. todo' = [d \in Clients |-> IF d = c THEN calls ELSE todo[d]]
  BY DEF Begin, RequestsAreSound
<1>3. calls # <<>> => about'[c] = [touches |-> ids, resets |-> resets, alone |-> Touching(ids) = {},
                                   stamps |-> stamps, changed |-> EmptyTable]
  BY <1>1
<1>4. calls = <<>> => about'[c] = NoRequest
  BY <1>1
<1>5. ASSUME NEW d \in Clients \ {c} PROVE GoesOnBeside(d, ids)
  <2>1. about'[d] = [about[d] EXCEPT !.alone = about[d].alone /\ d \notin Touching(ids)]
    BY <1>1
  <2>2. IsRequest(about[d])
    BY DEF RequestsAreSound, RequestIsSound
  <2> DEFINE b == about[d].alone /\ d \notin Touching(ids)
  <2>3. b \in BOOLEAN
    OBVIOUS
  <2>4. Idle(d) => about[d] = NoRequest /\ d \notin Touching(ids)
    BY DEF RequestsAreSound, RequestIsSound, Touching
  <2>5. Idle(d) => b = TRUE
    BY <2>4 DEF NoRequest
  <2>6. about'[d] = [about[d] EXCEPT !.alone = b]
    BY <2>1
  <2> HIDE DEF b
  <2>7. about'[d] = [touches |-> about[d].touches, resets |-> about[d].resets, alone |-> b,
                     stamps |-> about[d].stamps, changed |-> about[d].changed]
    BY <2>2, <2>6 DEF IsRequest
  <2>8. IsRequest(about'[d])
    BY <2>2, <2>3, <2>7 DEF IsRequest
  <2>9. Idle(d) => about'[d] = NoRequest
    <3> SUFFICES ASSUME Idle(d) PROVE about'[d] = NoRequest
      OBVIOUS
    <3>1. about[d].touches = {} /\ about[d].resets = {} /\ about[d].changed = EmptyTable
      BY <2>4 DEF NoRequest
    <3>2. about[d].stamps = FALSE /\ b = TRUE
      BY <2>4, <2>5 DEF NoRequest
    <3>3. about'[d] = [touches |-> {}, resets |-> {}, alone |-> b,
                       stamps |-> about[d].stamps, changed |-> EmptyTable]
      BY <2>7, <3>1
    <3>4. about'[d] = [touches |-> {}, resets |-> {}, alone |-> TRUE, stamps |-> FALSE, changed |-> EmptyTable]
      BY <3>2, <3>3, Zenon
    <3> QED
      BY <3>4 DEF NoRequest
  <2>10. about'[d].alone = b
    BY <2>7
  <2>11. /\ about'[d].touches = about[d].touches /\ about'[d].resets = about[d].resets
         /\ about'[d].stamps = about[d].stamps /\ about'[d].changed = about[d].changed
    BY <2>7
  <2> QED
    BY <2>8, <2>9, <2>10, <2>11, Zenon DEF b, GoesOnBeside
<1>6. ASSUME calls # <<>> PROVE BegunByItself(c, ids, resets, stamps)
  <2> DEFINE b == Touching(ids) = {}
  <2>1. b \in BOOLEAN
    OBVIOUS
  <2>2. about'[c] = [touches |-> ids, resets |-> resets, alone |-> b, stamps |-> stamps, changed |-> EmptyTable]
    BY <1>3, <1>6
  <2> HIDE DEF b
  <2>3. /\ about'[c].touches = ids /\ about'[c].resets = resets
        /\ about'[c].alone = b /\ about'[c].stamps = stamps
        /\ about'[c].changed = EmptyTable /\ IsRequest(about'[c])
    BY <2>1, <2>2 DEF IsRequest
  <2> QED
    BY <2>3, Zenon DEF b, BegunByItself
<1>7. about' = [d \in Clients |-> about'[d]]
  BY <1>1
<1> QED
  BY <1>2, <1>4, <1>5, <1>6, <1>7 DEF Begun

LEMMA RequestBegins ==
  ASSUME StoresAreSound, RequestsAreSound, NEW c \in Clients, NEW calls, NEW ids, NEW resets,
         NEW stamps \in BOOLEAN, Begin(c, calls, ids, resets, stamps), resets \subseteq ids,
         Fitting(calls, ids, resets, stamps)
  PROVE  StoresAreSound' /\ RequestsAreSound'
<1>0. Begun(c, calls, ids, resets, stamps)
  BY AboutBegun
<1>1. db' = db /\ cache' = cache /\ known' = known /\ clock' = clock /\ Idle(c)
  BY DEF Begin
<1>2. StoresAreSound'
  BY <1>1 DEF StoresAreSound
<1>3. /\ todo' = [d \in Clients |-> todo'[d]] /\ about' = [d \in Clients |-> about'[d]]
      /\ known' = [d \in Clients |-> known'[d]]
  BY <1>0, <1>1 DEF RequestsAreSound, Begun
<1>4. RequestIsSound(c)'
  <2>1. todo'[c] = calls /\ known'[c] = NoneKnown
    BY <1>0, <1>1, IdleTouchesNothing DEF Begun
  <2>2. CASE calls = <<>>
    <3>1. about'[c] = NoRequest
      BY <1>0, <2>2 DEF Begun
    <3>2. /\ about'[c].touches = {} /\ about'[c].resets = {} /\ about'[c].stamps = FALSE
          /\ IsRequest(about'[c])
      BY <3>1, NothingFits DEF NoRequest
    <3>3. ListFits(todo'[c], about'[c].touches, about'[c].resets, about'[c].stamps) /\ DropsNoRow(todo'[c])
      BY <2>1, <2>2, <3>2, NothingFits, Zenon
    <3> QED
      BY <2>1, <3>1, <3>2, <3>3, NothingFits DEF RequestIsSound
  <2>3. CASE calls # <<>>
    <3>1. IsRequest(about'[c]) /\ about'[c].touches = ids /\ about'[c].resets = resets /\ about'[c].stamps = stamps
      BY <1>0, <2>3 DEF Begun, BegunByItself
    <3>2. ListFits(todo'[c], about'[c].touches, about'[c].resets, about'[c].stamps)
      BY <2>1, <3>1 DEF Fitting
    <3> QED
      BY <2>1, <2>3, <3>1, <3>2, NothingFits DEF RequestIsSound, Fitting, Idle
  <2> QED
    BY <2>2, <2>3
<1>5. ASSUME NEW d \in Clients \ {c} PROVE RequestIsSound(d)'
  <2>1. todo'[d] = todo[d] /\ known'[d] = known[d]
    BY <1>0, <1>1 DEF Begun
  <2>2. /\ IsRequest(about'[d]) /\ about'[d].touches = about[d].touches /\ about'[d].resets = about[d].resets
        /\ about'[d].stamps = about[d].stamps
        /\ Idle(d) => about'[d] = NoRequest
    BY <1>0 DEF Begun, GoesOnBeside
  <2>3. RequestIsSound(d)
    BY DEF RequestsAreSound
  <2>4. ListFits(todo'[d], about'[d].touches, about'[d].resets, about'[d].stamps)
    BY <2>1, <2>2, <2>3 DEF RequestIsSound
  <2>5. todo'[d] = <<>> => about'[d] = NoRequest /\ known'[d] = NoneKnown
    BY <2>1, <2>2, <2>3 DEF RequestIsSound, Idle
  <2> QED
    BY <2>1, <2>2, <2>3, <2>4, <2>5 DEF RequestIsSound, Idle
<1>6. ASSUME NEW d \in Clients, NEW e \in Clients, d # e, about'[d].alone
      PROVE  about'[d].touches \cap about'[e].touches = {}
  <2>1. CASE d = c
    <3>1. CASE calls = <<>>
      BY <1>0, <2>1, <3>1 DEF Begun, NoRequest
    <3>2. CASE calls # <<>>
      <4>1. Touching(ids) = {} /\ about'[d].touches = ids /\ about'[e].touches = about[e].touches
        BY <1>0, <2>1, <3>2, <1>6 DEF Begun, BegunByItself, GoesOnBeside
      <4>2. Idle(e) => about[e].touches = {}
        BY IdleTouchesNothing
      <4> QED
        BY <4>1, <4>2 DEF Touching
    <3> QED
      BY <3>1, <3>2
  <2>2. CASE e = c
    <3>1. about[d].alone /\ d \notin Touching(ids) /\ about'[d].touches = about[d].touches
      BY <1>0, <2>2, <1>6 DEF Begun, GoesOnBeside
    <3>2. Idle(d) => about[d].touches = {}
      BY IdleTouchesNothing
    <3>3. about'[e].touches \subseteq ids
      BY <1>0, <2>2 DEF Begun, BegunByItself, NoRequest
    <3> QED
      BY <3>1, <3>2, <3>3 DEF Touching
  <2>3. CASE d # c /\ e # c
    <3>1. about[d].alone /\ about'[d].touches = about[d].touches /\ about'[e].touches = about[e].touches
      BY <1>0, <2>3, <1>6 DEF Begun, GoesOnBeside
    <3> QED
      BY <3>1, <1>6 DEF RequestsAreSound, AloneIsAlone
  <2> QED
    BY <2>1, <2>2, <2>3
<1> QED
  BY <1>2, <1>3, <1>4, <1>5, <1>6 DEF RequestsAreSound, AloneIsAlone

\* What the requests are about when a call has been made.
TimesOf(c, d) ==
  IF about[c].stamps THEN Over([id \in Differ(db, d) |-> clock], about[c].changed) ELSE about[c].changed
GoesOn(c, d) ==
  /\ about'[c].touches = about[c].touches /\ about'[c].resets = about[c].resets
  /\ about'[c].alone = about[c].alone /\ about'[c].stamps = about[c].stamps
  /\ about'[c].changed = TimesOf(c, d) /\ IsRequest(about'[c])
AfterCall(c, d, k, left, knows) ==
  /\ db' = d /\ cache' = k
  /\ todo' = [e \in Clients |-> IF e = c THEN left ELSE todo[e]]
  /\ known' = [e \in Clients |-> IF e = c THEN IF left = <<>> THEN NoneKnown ELSE knows ELSE known[e]]
  /\ about' = [e \in Clients |-> about'[e]]
  /\ \A e \in Clients \ {c} : about'[e] = about[e]
  /\ left = <<>> => about'[c] = NoRequest
  /\ left # <<>> => GoesOn(c, d)

LEMMA AboutCalled ==
  ASSUME RequestsAreSound, NEW c \in Clients, NEW d, NEW k, NEW left, NEW knows, Made(c, d, k, left, knows)
  PROVE  AfterCall(c, d, k, left, knows)
<1>1. IsRequest(about[c])
  BY DEF RequestsAreSound, RequestIsSound
<1> DEFINE times == TimesOf(c, d)
<1>2. about' = [about EXCEPT ![c] = IF left = <<>> THEN NoRequest ELSE [about[c] EXCEPT !.changed = times]]
  BY DEF Made, TimesOf
<1>3. /\ db' = d /\ cache' = k
      /\ todo' = [todo EXCEPT ![c] = left]
      /\ known' = [known EXCEPT ![c] = IF left = <<>> THEN NoneKnown ELSE knows]
  BY DEF Made
<1>4. /\ todo = [e \in Clients |-> todo[e]] /\ known = [e \in Clients |-> known[e]]
      /\ about = [e \in Clients |-> about[e]]
  BY DEF RequestsAreSound
<1>5. /\ todo' = [e \in Clients |-> IF e = c THEN left ELSE todo[e]]
      /\ known' = [e \in Clients |-> IF e = c THEN IF left = <<>> THEN NoneKnown ELSE knows ELSE known[e]]
  BY <1>3, <1>4
<1>6. about' = [e \in Clients |-> about'[e]] /\ \A e \in Clients \ {c} : about'[e] = about[e]
  <2> HIDE DEF times
  <2> QED
    BY <1>2, <1>4
<1>7. about'[c] = IF left = <<>> THEN NoRequest ELSE [about[c] EXCEPT !.changed = times]
  <2> HIDE DEF times
  <2> QED
    BY <1>2, <1>4
<1>8. ASSUME left # <<>> PROVE GoesOn(c, d)
  <2> HIDE DEF times
  <2>1. about'[c] = [about[c] EXCEPT !.changed = times]
    BY <1>7, <1>8
  <2>2. about'[c] = [touches |-> about[c].touches, resets |-> about[c].resets, alone |-> about[c].alone,
                     stamps |-> about[c].stamps, changed |-> times]
    BY <1>1, <2>1 DEF IsRequest
  <2>3. /\ about'[c].touches = about[c].touches /\ about'[c].resets = about[c].resets
        /\ about'[c].alone = about[c].alone /\ about'[c].stamps = about[c].stamps
        /\ about'[c].changed = times
    BY <2>2
  <2>4. IsRequest(about'[c])
    BY <1>1, <2>2, <2>3 DEF IsRequest
  <2> QED
    BY <2>3, <2>4, Zenon DEF GoesOn, times
<1> QED
  BY <1>3, <1>5, <1>6, <1>7, <1>8 DEF AfterCall

\* What is left of a list, and of what is known.
Leaves(c, left, knows) ==
  /\ ListFits(left, about[c].touches, about[c].resets, about[c].stamps)
  /\ DropsNoRow(left) \/ (OnlyRemovals(left) /\ knows = NoneKnown)
  /\ knows = [users |-> knows.users, items |-> knows.items]

LEMMA CallMade ==
  ASSUME StoresAreSound, RequestsAreSound, NEW c \in Clients,
         NEW d, NEW k, NEW left, NEW knows, Made(c, d, k, left, knows),
         d = [users |-> d.users, items |-> d.items, feedback |-> d.feedback], "values" \in DOMAIN k,
         Leaves(c, left, knows)
  PROVE  StoresAreSound' /\ RequestsAreSound'
<1>1. AfterCall(c, d, k, left, knows)
  BY AboutCalled
<1>2. StoresAreSound'
  BY DEF StoresAreSound, Made
<1>3. /\ todo' = [e \in Clients |-> todo'[e]] /\ about' = [e \in Clients |-> about'[e]]
      /\ known' = [e \in Clients |-> known'[e]]
  BY <1>1 DEF AfterCall
<1>4. RequestIsSound(c)'
  <2>1. todo'[c] = left /\ known'[c] = IF left = <<>> THEN NoneKnown ELSE knows
    BY <1>1 DEF AfterCall
  <2>2. CASE left = <<>>
    <3>1. about'[c] = NoRequest
      BY <1>1, <2>2 DEF AfterCall
    <3>2. /\ about'[c].touches = {} /\ about'[c].resets = {} /\ about'[c].stamps = FALSE
          /\ IsRequest(about'[c])
      BY <3>1, NothingFits DEF NoRequest
    <3>3. ListFits(todo'[c], about'[c].touches, about'[c].resets, about'[c].stamps) /\ DropsNoRow(todo'[c])
      BY <2>1, <2>2, <3>2, NothingFits, Zenon
    <3> QED
      BY <2>1, <2>2, <3>1, <3>2, <3>3, NothingFits DEF RequestIsSound
  <2>3. CASE left # <<>>
    <3>1. GoesOn(c, d)
      BY <1>1, <2>3 DEF AfterCall
    <3>2. ListFits(todo'[c], about'[c].touches, about'[c].resets, about'[c].stamps)
      BY <2>1, <3>1, Zenon DEF Leaves, GoesOn
    <3>3. IsRequest(about'[c])
      BY <3>1 DEF GoesOn
    <3> QED
      BY <2>1, <2>3, <3>2, <3>3 DEF RequestIsSound, Leaves, Idle
  <2> QED
    BY <2>2, <2>3
<1>5. ASSUME NEW e \in Clients \ {c} PROVE RequestIsSound(e)'
  <2>1. todo'[e] = todo[e] /\ known'[e] = known[e] /\ about'[e] = about[e]
    BY <1>1 DEF AfterCall
  <2>2. RequestIsSound(e)
    BY DEF RequestsAreSound
  <2> QED
    BY <2>1, <2>2 DEF RequestIsSound, Idle
<1>6. ASSUME NEW e \in Clients, NEW f \in Clients, e # f, about'[e].alone
      PROVE  about'[e].touches \cap about'[f].touches = {}
  <2>1. /\ about'[c].touches \subseteq about[c].touches
        /\ about'[c] = NoRequest \/ about'[c].alone = about[c].alone
    BY <1>1 DEF AfterCall, GoesOn, NoRequest
  <2>2. about'[c] = NoRequest => about'[c].touches = {}
    BY DEF NoRequest
  <2>3. CASE e = c
    <3>1. about'[f] = about[f]
      BY <1>1, <1>6, <2>3 DEF AfterCall
    <3> QED
      BY <1>6, <2>1, <2>2, <2>3, <3>1 DEF RequestsAreSound, AloneIsAlone
  <2>4. CASE e # c
    <3>1. about'[e] = about[e] /\ (f = c \/ about'[f] = about[f])
      BY <1>1, <1>6, <2>4 DEF AfterCall
    <3> QED
      BY <1>6, <2>1, <2>4, <3>1 DEF RequestsAreSound, AloneIsAlone
  <2> QED
    BY <2>3, <2>4
<1> QED
  BY <1>2, <1>3, <1>4, <1>5, <1>6 DEF RequestsAreSound, AloneIsAlone

\* The first call of a list has been made and nothing else is known.
LEMMA ListGoesOn ==
  ASSUME RequestsAreSound, NEW c \in Clients, ~Idle(c), NextCall(c).call # "Now", NEW knows,
         knows = [users |-> knows.users, items |-> knows.items],
         knows = known[c] \/ DropsNoRow(todo[c])
  PROVE  NextCall(c) = todo[c][1] /\ Leaves(c, Tail(todo[c]), knows)
<1>1. /\ IsRequest(about[c]) /\ ListFits(todo[c], about[c].touches, about[c].resets, about[c].stamps)
      /\ DropsNoRow(todo[c]) \/ (OnlyRemovals(todo[c]) /\ known[c] = NoneKnown)
  BY DEF RequestsAreSound, RequestIsSound
<1>2. todo[c] # <<>> /\ IsSequence(todo[c])
  BY <1>1 DEF Idle, ListFits
<1>3. NextCall(c) = todo[c][1]
  BY <1>2, TailOfList DEF NextCall
<1>4. about[c].stamps \in BOOLEAN
  BY <1>1 DEF IsRequest
<1>5. /\ ListFits(Tail(todo[c]), about[c].touches, about[c].resets, about[c].stamps)
      /\ DropsNoRow(todo[c]) => DropsNoRow(Tail(todo[c]))
      /\ OnlyRemovals(todo[c]) => OnlyRemovals(Tail(todo[c]))
  BY <1>1, <1>2, <1>3, <1>4, TailFits
<1> QED
  BY <1>1, <1>3, <1>5 DEF Leaves

\* The times are taken.
LEMMA TimesGoOn ==
  ASSUME RequestsAreSound, NEW c \in Clients, Is(c, "Now")
  PROVE  /\ NextCall(c) = todo[c][1] /\ NextCall(c).stamped = about[c].touches /\ about[c].stamps
         /\ OnlyCategories(Tail(todo[c])) /\ IsSequence(Tail(todo[c]))
<1>1. /\ IsRequest(about[c]) /\ ListFits(todo[c], about[c].touches, about[c].resets, about[c].stamps)
  BY DEF RequestsAreSound, RequestIsSound
<1>2. todo[c] # <<>> /\ IsSequence(todo[c]) /\ NextCall(c).call = "Now"
  BY <1>1 DEF Is, Idle, ListFits
<1> DEFINE s == todo[c]
           t == Tail(todo[c])
<1>3. /\ Len(s) \in Nat /\ DOMAIN s = 1 .. Len(s) /\ 1 \in DOMAIN s /\ Head(s) = s[1]
      /\ IsSequence(t) /\ \A q \in DOMAIN t : q + 1 \in DOMAIN s /\ t[q] = s[q + 1] /\ q + 1 > 1
  BY <1>2, TailOfList
<1>4. NextCall(c) = s[1]
  BY <1>3 DEF NextCall
<1>5. about[c].stamps /\ StampsLater(s, about[c].touches)
  BY <1>1, <1>2, <1>3, <1>4 DEF ListFits, IsRequest, SetsNext, OnlyCategories
<1> HIDE DEF s, t
<1>6. PICK p \in DOMAIN s :
        /\ s[p] = Stamp(about[c].touches)
        /\ \A q \in DOMAIN s : q < p => s[q].call \in Inserts
        /\ \A q \in DOMAIN s : q > p => s[q].call = "AddSet"
  BY <1>5 DEF StampsLater
<1>7. p = 1
  BY <1>2, <1>3, <1>4, <1>6 DEF Inserts, CacheCalls
<1>8. OnlyCategories(t)
  BY <1>3, <1>6, <1>7 DEF OnlyCategories
<1>9. NextCall(c).stamped = about[c].touches
  BY <1>4, <1>6, <1>7 DEF Stamp
<1> QED
  BY <1>3, <1>4, <1>5, <1>8, <1>9 DEF s, t

----------------------------------------------------------------------------
(* The times *)

LEMMA NothingDiffers == \A d : Differ(d, d) = {}
  BY DEF Differ

\* No times are about to be set where a list is still to take them.
LEMMA NoTimesYet ==
  ASSUME NEW s, NEW ids, StampsLater(s, ids), s # <<>>, 1 \in DOMAIN s, DOMAIN s \subseteq Nat \ {0}
  PROVE  s[1].call \in Inserts \cup {"Now"} /\ s[1].call \notin {"Set", "AddSet"}
<1>1. PICK p \in DOMAIN s :
        /\ s[p] = Stamp(ids)
        /\ \A q \in DOMAIN s : q < p => s[q].call \in Inserts
  BY DEF StampsLater
<1>2. p = 1 \/ 1 < p
  OBVIOUS
<1> QED
  BY <1>1, <1>2 DEF Stamp, Inserts, CacheCalls

LEMMA TimesBegin ==
  ASSUME TimesIInv, NEW c \in Clients, NEW calls, NEW ids, NEW resets,
         NEW stamps \in BOOLEAN, Begin(c, calls, ids, resets, stamps), resets \subseteq ids,
         Fitting(calls, ids, resets, stamps)
  PROVE  TimesAreKept'
<1>0. Begun(c, calls, ids, resets, stamps)
  BY AboutBegun DEF TimesIInv
<1>1. db' = db /\ cache' = cache /\ clock' = clock /\ owed' = owed
  BY DEF Begin
<1>2. TimesCoverChanges'
  BY <1>1 DEF TimesIInv, TimesAreKept, TimesCoverChanges
<1>3. ChangesAreKept(c)'
  <2>1. todo'[c] = calls
    BY <1>0 DEF Begun
  <2>2. CASE calls = <<>>
    <3>1. about'[c] = NoRequest
      BY <1>0, <2>2 DEF Begun
    <3>2. DOMAIN about'[c].changed = {}
      BY <3>1 DEF NoRequest, EmptyTable
    <3>3. ~Is(c, "Set")' /\ ~Is(c, "AddSet")'
      BY <2>1, <2>2 DEF Is, Idle
    <3> QED
      BY <3>2, <3>3 DEF ChangesAreKept
  <2>3. CASE calls # <<>>
    <3>1. DOMAIN about'[c].changed = {}
      BY <1>0, <2>3 DEF Begun, BegunByItself, EmptyTable
    <3>2. /\ IsSequence(calls) /\ 1 \in DOMAIN calls /\ DOMAIN calls \subseteq Nat \ {0}
          /\ Head(calls) = calls[1]
      BY <2>3, TailOfList DEF Fitting, ListFits
    <3>3. calls[1].call # "Set"
      <4>1. CASE stamps
        BY <2>3, <3>2, <4>1, NoTimesYet DEF Fitting
      <4>2. CASE ~stamps
        BY <3>2, <4>2 DEF Fitting, ListFits
      <4> QED
        BY <4>1, <4>2
    <3>4. ~Is(c, "Set")'
      BY <2>1, <3>2, <3>3 DEF Is, NextCall
    <3> QED
      BY <3>1, <3>4 DEF ChangesAreKept
  <2> QED
    BY <2>2, <2>3
<1>4. ASSUME NEW e \in Clients \ {c} PROVE ChangesAreKept(e)'
  <2>1. todo'[e] = todo[e] /\ GoesOnBeside(e, ids)
    BY <1>0 DEF Begun
  <2>2. /\ about'[e].touches = about[e].touches /\ about'[e].changed = about[e].changed
        /\ about'[e].stamps = about[e].stamps
    BY <2>1 DEF GoesOnBeside
  <2>3. about'[e].alone => about[e].alone
    BY <2>1 DEF GoesOnBeside
  <2>4. ChangesAreKept(e)
    BY DEF TimesIInv, TimesAreKept
  <2>5. (Is(e, "Set")' <=> Is(e, "Set")) /\ (Is(e, "AddSet")' <=> Is(e, "AddSet"))
    BY <2>1 DEF Is, Idle, NextCall
  <2> QED
    BY <1>1, <2>1, <2>2, <2>3, <2>4, <2>5 DEF ChangesAreKept, Covered
<1> QED
  BY <1>1, <1>2, <1>3, <1>4 DEF TimesIInv, TimesAreKept

\* What a call must keep for the times to be kept.
LEMMA TimesGoOnBeside ==
  ASSUME TimesIInv, NEW c \in Clients, NEW d, NEW k, NEW left, NEW knows, NEW times,
         AfterCall(c, d, k, left, knows), clock' \in Nat, clock <= clock',
         owed' = (IF left = <<>> /\ about[c].alone THEN Over(times, owed) ELSE owed),
         DOMAIN times \subseteq about[c].touches \cap (Users \cup Items),
         \A id \in DOMAIN times : times[id] \in Nat /\ times[id] <= clock,
         left # <<>> => ChangesAreKept(c)',
         \A id, time : id \notin about[c].touches /\ Covered(cache.values, id, time) => Covered(k.values, id, time),
         \A id \in Users \cup Items :
           owed[id] > 0 /\ id \in about[c].touches => Covered(k.values, id, owed[id]),
         left = <<>> /\ about[c].alone => \A id \in DOMAIN times : Covered(k.values, id, times[id])
  PROVE  TimesAreKept'
<1>1. /\ DOMAIN owed = Users \cup Items /\ clock \in Nat
      /\ \A id \in Users \cup Items : owed[id] \in Nat /\ owed[id] <= clock
  BY DEF TimesIInv, TimesAreKept, StoresAreSound
<1>2. ASSUME NEW id \in Users \cup Items, owed'[id] # owed[id]
      PROVE  left = <<>> /\ about[c].alone /\ id \in DOMAIN times /\ owed'[id] = times[id]
  BY <1>1, <1>2 DEF Over
<1>3. DOMAIN owed' = Users \cup Items
  BY <1>1 DEF Over
<1>4. \A id \in Users \cup Items : owed'[id] \in Nat /\ owed'[id] <= clock'
  BY <1>1, <1>2
<1>5. cache' = k
  BY DEF AfterCall
<1>6. TimesCoverChanges'
  <2> SUFFICES ASSUME NEW id \in Users \cup Items, owed'[id] > 0 PROVE Covered(k.values, id, owed'[id])
    BY <1>5 DEF TimesCoverChanges, Covered
  <2>1. CASE owed'[id] # owed[id]
    BY <1>2, <2>1
  <2>2. CASE owed'[id] = owed[id]
    <3>1. owed[id] > 0 /\ Covered(cache.values, id, owed[id])
      BY <2>2 DEF TimesIInv, TimesAreKept, TimesCoverChanges, Covered
    <3> QED
      BY <2>2, <3>1
  <2> QED
    BY <2>1, <2>2
<1>7. ASSUME NEW e \in Clients \ {c} PROVE ChangesAreKept(e)'
  <2>1. todo'[e] = todo[e] /\ about'[e] = about[e]
    BY DEF AfterCall
  <2>2. ChangesAreKept(e)
    BY DEF TimesIInv, TimesAreKept
  <2>3. (Is(e, "Set")' <=> Is(e, "Set")) /\ (Is(e, "AddSet")' <=> Is(e, "AddSet"))
    BY <2>1 DEF Is, Idle, NextCall
  <2>4. /\ about[c].alone => about[c].touches \cap about[e].touches = {}
        /\ about[e].alone => about[c].touches \cap about[e].touches = {}
    BY DEF TimesIInv, RequestsAreSound, AloneIsAlone
  <2>5. \A id \in about[e].touches \cap (Users \cup Items) : owed'[id] = owed[id]
    BY <1>2, <2>4
  <2>6. /\ DOMAIN about[e].changed \subseteq about[e].touches \cap (Users \cup Items)
        /\ ~about[e].stamps => DOMAIN about[e].changed = {}
        /\ \A id \in DOMAIN about[e].changed : about[e].changed[id] \in Nat /\ about[e].changed[id] <= clock
    BY <2>2 DEF ChangesAreKept
  <2>7. \A id \in DOMAIN about[e].changed : about[e].changed[id] <= clock'
    BY <1>1, <2>6
  <2>8. ASSUME Is(e, "Set"), NEW id \in about[e].touches
        PROVE  /\ todo[e][1].times[id] \in Nat
               /\ id \in DOMAIN owed' => owed'[id] <= todo[e][1].times[id]
               /\ id \in DOMAIN about[e].changed => about[e].changed[id] <= todo[e][1].times[id]
    BY <1>1, <1>3, <2>2, <2>5, <2>8 DEF ChangesAreKept
  <2>9. ASSUME Is(e, "AddSet"), about[e].alone, NEW id \in DOMAIN about[e].changed
        PROVE  Covered(k.values, id, about[e].changed[id])
    <3>1. Covered(cache.values, id, about[e].changed[id])
      BY <2>2, <2>9 DEF ChangesAreKept
    <3>2. id \notin about[c].touches
      BY <2>4, <2>6, <2>9
    <3> QED
      BY <3>1, <3>2
  <2> QED
    BY <1>5, <2>1, <2>3, <2>6, <2>7, <2>8, <2>9 DEF ChangesAreKept
<1>8. ChangesAreKept(c)'
  <2>1. CASE left = <<>>
    <3>1. about'[c] = NoRequest /\ todo'[c] = <<>>
      BY <2>1 DEF AfterCall
    <3>2. DOMAIN about'[c].changed = {}
      BY <3>1 DEF NoRequest, EmptyTable
    <3>3. ~Is(c, "Set")' /\ ~Is(c, "AddSet")'
      BY <3>1 DEF Is, Idle
    <3> QED
      BY <3>2, <3>3 DEF ChangesAreKept
  <2> QED
    BY <2>1
<1> QED
  BY <1>3, <1>4, <1>6, <1>7, <1>8 DEF TimesAreKept

\* The changes of a request and those of the call it makes.
LEMMA TimesOfCall ==
  ASSUME TimesIInv, NEW c \in Clients, NEW d,
         about[c].stamps => Differ(db, d) \subseteq about[c].touches
  PROVE  /\ DOMAIN TimesOf(c, d) \subseteq about[c].touches \cap (Users \cup Items)
         /\ ~about[c].stamps => DOMAIN TimesOf(c, d) = {}
         /\ \A id \in DOMAIN TimesOf(c, d) : TimesOf(c, d)[id] \in Nat /\ TimesOf(c, d)[id] <= clock
         /\ d = db => /\ DOMAIN TimesOf(c, d) = DOMAIN about[c].changed
                      /\ \A id \in DOMAIN about[c].changed : TimesOf(c, d)[id] = about[c].changed[id]
<1>1. /\ DOMAIN about[c].changed \subseteq about[c].touches \cap (Users \cup Items)
      /\ ~about[c].stamps => DOMAIN about[c].changed = {}
      /\ \A id \in DOMAIN about[c].changed : about[c].changed[id] \in Nat /\ about[c].changed[id] <= clock
  BY DEF TimesIInv, TimesAreKept, ChangesAreKept
<1>2. clock \in Nat
  BY DEF TimesIInv, StoresAreSound
<1>3. CASE ~about[c].stamps
  BY <1>1, <1>3 DEF TimesOf
<1>4. CASE about[c].stamps
  <2> DEFINE times == TimesOf(c, d)
             D == Differ(db, d)
  <2>1. DOMAIN times = D \cup DOMAIN about[c].changed
    BY <1>4 DEF TimesOf, Over
  <2>2. \A id \in DOMAIN times : times[id] = IF id \in D THEN clock ELSE about[c].changed[id]
    BY <1>4 DEF TimesOf, Over
  <2>3. D \subseteq Users \cup Items
    BY DEF Differ
  <2>4. D \subseteq about[c].touches
    BY <1>4
  <2>5. d = db => D = {}
    BY NothingDiffers
  <2> HIDE DEF times, D
  <2>6. /\ DOMAIN times \subseteq about[c].touches \cap (Users \cup Items)
        /\ \A id \in DOMAIN times : times[id] \in Nat /\ times[id] <= clock
        /\ d = db => /\ DOMAIN times = DOMAIN about[c].changed
                     /\ \A id \in DOMAIN about[c].changed : times[id] = about[c].changed[id]
    BY <1>1, <1>2, <2>1, <2>2, <2>3, <2>4, <2>5
  <2> QED
    BY <1>4, <2>6 DEF times
<1> QED
  BY <1>3, <1>4

\* A list and the list that is left of it.
LEMMA HeadsOf ==
  ASSUME RequestsAreSound, NEW c \in Clients, ~Idle(c)
  PROVE  /\ NextCall(c) = todo[c][1] /\ 1 \in DOMAIN todo[c] /\ DOMAIN todo[c] \subseteq Nat \ {0}
         /\ IsSequence(Tail(todo[c]))
         /\ \A q \in DOMAIN Tail(todo[c]) : q + 1 \in DOMAIN todo[c] /\ Tail(todo[c])[q] = todo[c][q + 1]
         /\ Tail(todo[c]) # <<>> => 1 \in DOMAIN Tail(todo[c]) /\ 2 \in DOMAIN todo[c]
                                      /\ Head(Tail(todo[c])) = todo[c][2]
         /\ ListFits(todo[c], about[c].touches, about[c].resets, about[c].stamps) /\ about[c].stamps \in BOOLEAN
<1> DEFINE s == todo[c]
           t == Tail(s)
<1>1. ListFits(s, about[c].touches, about[c].resets, about[c].stamps) /\ about[c].stamps \in BOOLEAN
  BY DEF RequestsAreSound, RequestIsSound, IsRequest
<1>2. IsSequence(s) /\ s # <<>>
  BY <1>1 DEF ListFits, Idle
<1>3. /\ Len(s) \in Nat /\ DOMAIN s = 1 .. Len(s) /\ 1 \in DOMAIN s /\ Head(s) = s[1]
      /\ IsSequence(t)
      /\ \A q \in DOMAIN t : q + 1 \in DOMAIN s /\ t[q] = s[q + 1]
  BY <1>2, TailOfList
<1>4. ASSUME t # <<>> PROVE 1 \in DOMAIN t /\ Head(t) = t[1]
  BY <1>3, <1>4, TailOfList
<1>5. t # <<>> => 1 \in DOMAIN t /\ 2 \in DOMAIN s /\ Head(t) = s[2]
  BY <1>3, <1>4
<1> QED
  BY <1>1, <1>3, <1>5 DEF NextCall

LEMMA TimesCall ==
  ASSUME TimesIInv, NEW c \in Clients, ~Idle(c), NextCall(c).call \notin {"Now", "Set"},
         NEW d, NEW k, NEW knows, Made(c, d, k, Tail(todo[c]), knows),
         about[c].stamps => Differ(db, d) \subseteq about[c].touches,
         NextCall(c).call = "AddSet" => d = db, k.values = cache.values
  PROVE  TimesAreKept'
<1> DEFINE s == todo[c]
           left == Tail(s)
           times == TimesOf(c, d)
           ids == about[c].touches
<1>1. AfterCall(c, d, k, left, knows)
  BY AboutCalled DEF TimesIInv
<1>2. /\ NextCall(c) = s[1] /\ 1 \in DOMAIN s /\ DOMAIN s \subseteq Nat \ {0}
      /\ left # <<>> => 2 \in DOMAIN s /\ Head(left) = s[2]
      /\ ListFits(s, ids, about[c].resets, about[c].stamps)
  BY HeadsOf DEF TimesIInv
<1>3. s # <<>>
  BY DEF Idle
<1>4. clock' = clock /\ clock \in Nat
  BY <1>2 DEF Made, TimesIInv, StoresAreSound, NextCall
<1>5. /\ DOMAIN times \subseteq ids \cap (Users \cup Items)
      /\ ~about[c].stamps => DOMAIN times = {}
      /\ \A id \in DOMAIN times : times[id] \in Nat /\ times[id] <= clock
      /\ d = db => /\ DOMAIN times = DOMAIN about[c].changed
                   /\ \A id \in DOMAIN about[c].changed : times[id] = about[c].changed[id]
  BY TimesOfCall
<1>6. owed' = (IF left = <<>> /\ about[c].alone THEN Over(times, owed) ELSE owed)
  BY DEF Made, TimesOf
<1>7. \A id, time : Covered(cache.values, id, time) => Covered(k.values, id, time)
  OBVIOUS
<1>8. ASSUME NEW id \in Users \cup Items, owed[id] > 0 PROVE Covered(k.values, id, owed[id])
  BY <1>7, <1>8 DEF TimesIInv, TimesAreKept, TimesCoverChanges, Covered
<1>9. ChangesAreKept(c)
  BY DEF TimesIInv, TimesAreKept
<1>10. ASSUME about[c].alone, s[1].call = "AddSet", NEW id \in DOMAIN times PROVE Covered(k.values, id, times[id])
  <2>1. d = db
    BY <1>2, <1>10
  <2>2. id \in DOMAIN about[c].changed /\ times[id] = about[c].changed[id]
    BY <1>5, <1>10, <2>1
  <2>3. Is(c, "AddSet")
    BY <1>2, <1>10 DEF Is
  <2>4. Covered(cache.values, id, about[c].changed[id])
    BY <1>9, <1>10, <2>2, <2>3 DEF ChangesAreKept
  <2> QED
    BY <1>7, <2>2, <2>4
\* Where no time is still to be taken, categories are all that is left.
<1>11. about[c].stamps => StampsLater(s, ids) \/ (s[1].call = "AddSet" /\ OnlyCategories(s))
  BY <1>2 DEF ListFits, SetsNext, OnlyCategories
<1>12. StampsLater(s, ids) => 2 \in DOMAIN s /\ s[2].call \notin {"Set", "AddSet"}
  <2> SUFFICES ASSUME StampsLater(s, ids) PROVE 2 \in DOMAIN s /\ s[2].call \notin {"Set", "AddSet"}
    OBVIOUS
  <2>1. PICK p \in DOMAIN s :
          /\ s[p] = Stamp(ids)
          /\ \A q \in DOMAIN s : q < p => s[q].call \in Inserts
    BY DEF StampsLater
  <2>2. p # 1
    BY <1>2, <2>1 DEF Stamp
  <2>3. DOMAIN s = 1 .. Len(s) /\ Len(s) \in Nat
    BY <1>2, <1>3, TailOfList DEF ListFits
  <2>4. 2 \in DOMAIN s /\ (p = 2 \/ 2 < p)
    BY <2>2, <2>3
  <2> QED
    BY <2>1, <2>4 DEF Stamp, Inserts, CacheCalls
<1>13. ASSUME left = <<>>, about[c].alone, NEW id \in DOMAIN times PROVE Covered(k.values, id, times[id])
  <2>1. about[c].stamps
    BY <1>5, <1>13
  <2>2. ~StampsLater(s, ids)
    <3> SUFFICES ASSUME StampsLater(s, ids) PROVE FALSE
      OBVIOUS
    <3>1. 2 - 1 \in DOMAIN left
      BY <1>2, <1>3, <1>12, TailOfList DEF ListFits
    <3>2. DOMAIN left = {}
      BY <1>13
    <3> QED
      BY <3>1, <3>2
  <2> QED
    BY <1>10, <1>11, <1>13, <2>1, <2>2
<1>14. ASSUME left # <<>> PROVE ChangesAreKept(c)'
  <2>1. /\ todo'[c] = left /\ about'[c].touches = ids /\ about'[c].stamps = about[c].stamps
        /\ about'[c].changed = times /\ cache' = k
    BY <1>1, <1>14 DEF AfterCall, GoesOn
  <2>2. about'[c].alone => about[c].alone
    BY <1>1, <1>14 DEF AfterCall, GoesOn
  <2>3. NextCall(c)' = s[2] /\ 2 \in DOMAIN s
    BY <1>2, <1>14, <2>1 DEF NextCall
  <2>4. s[2].call # "Set"
    <3>1. CASE about[c].stamps
      BY <1>11, <1>12, <2>3, <3>1 DEF OnlyCategories
    <3>2. CASE ~about[c].stamps
      BY <1>2, <2>3, <3>2 DEF ListFits
    <3> QED
      BY <3>1, <3>2
  <2>5. ~Is(c, "Set")'
    BY <2>3, <2>4 DEF Is
  <2>6. ASSUME Is(c, "AddSet")', about[c].alone, NEW id \in DOMAIN times PROVE Covered(k.values, id, times[id])
    <3>1. about[c].stamps /\ s[2].call = "AddSet"
      BY <1>5, <2>3, <2>6 DEF Is
    <3> QED
      BY <1>10, <1>11, <1>12, <2>6, <3>1
  <2> QED
    BY <1>4, <1>5, <2>1, <2>2, <2>5, <2>6 DEF ChangesAreKept
<1>15. clock' \in Nat /\ clock <= clock'
  BY <1>4
<1> HIDE DEF times, left, s, ids
<1> QED
  BY <1>1, <1>5, <1>6, <1>7, <1>8, <1>13, <1>14, <1>15, TimesGoOnBeside DEF ids

\* The list with the times that have just been taken.
LEMMA TakenList ==
  ASSUME NEW t, NEW ids, NEW resets, NEW times, IsSequence(t), OnlyCategories(t), DOMAIN times = ids
  PROVE  LET left == <<SetTimes(times)>> \o t
         IN  /\ ListFits(left, ids, resets, TRUE) /\ DropsNoRow(left)
             /\ left # <<>> /\ Head(left) = SetTimes(times) /\ left[1] = SetTimes(times)
<1> DEFINE x == SetTimes(times)
           s == <<x>>
           left == s \o t
<1>1. IsSequence(s)
  BY ShortLists
<1>2. DOMAIN s = {1} /\ s[1] = x /\ Len(s) = 1 /\ x.call = "Set" /\ DOMAIN x.times = ids
  BY DEF SetTimes
<1> HIDE DEF x, s
<1>3. /\ IsSequence(left) /\ Len(t) \in Nat /\ DOMAIN left = 1 .. 1 + Len(t)
      /\ \A q \in DOMAIN s : left[q] = s[q]
      /\ \A q \in DOMAIN left \ DOMAIN s : q - 1 \in DOMAIN t /\ left[q] = t[q - 1]
  <2>1. /\ IsSequence(left) /\ Len(t) \in Nat /\ DOMAIN left = 1 .. Len(s) + Len(t)
        /\ \A q \in DOMAIN s : left[q] = s[q]
        /\ \A q \in DOMAIN left \ DOMAIN s : q - Len(s) \in DOMAIN t /\ left[q] = t[q - Len(s)]
    BY <1>1, JoinedLists
  <2> HIDE DEF left
  <2> QED
    BY <1>2, <2>1
<1> HIDE DEF left
<1>4. left[1] = x /\ 1 \in DOMAIN left
  BY <1>2, <1>3
<1>5. ASSUME NEW q \in DOMAIN left, q > 1 PROVE left[q].call = "AddSet"
  <2>1. q - 1 \in DOMAIN t /\ left[q] = t[q - 1]
    BY <1>2, <1>3, <1>5
  <2> QED
    BY <2>1 DEF OnlyCategories
<1>6. \A q \in DOMAIN left : q = 1 \/ q > 1
  BY <1>3
<1>7. \A q \in DOMAIN left : left[q].call \in {"Set", "AddSet"}
  BY <1>2, <1>4, <1>5, <1>6
<1>8. SetsNext(left, ids)
  BY <1>2, <1>4, <1>5 DEF SetsNext
<1>9. DropsNoRow(left) /\ Follows(left) /\ \A q \in DOMAIN left : OwnCall(left[q], ids)
  BY <1>7 DEF DropsNoRow, Follows, OwnCall
<1>10. resets # {} => \A q \in DOMAIN left : left[q].call # "InsertFeedback"
  BY <1>7
<1>11. ListFits(left, ids, resets, TRUE)
  BY <1>3, <1>8, <1>9, <1>10 DEF ListFits
<1>12. left # <<>>
  <2>1. DOMAIN <<>> = {}
    OBVIOUS
  <2> QED
    BY <1>4, <2>1
<1>13. Head(left) = left[1]
  BY <1>3, <1>12, TailOfList
<1> QED
  BY <1>4, <1>9, <1>11, <1>12, <1>13 DEF left, s, x

LEMMA TakenFits ==
  ASSUME RequestsAreSound, NEW c \in Clients, Is(c, "Now")
  PROVE  Leaves(c, <<SetTimes([id \in NextCall(c).stamped |-> clock])>> \o Tail(todo[c]), known[c])
<1> DEFINE times == [id \in NextCall(c).stamped |-> clock]
<1>1. DOMAIN times = about[c].touches /\ about[c].stamps
  BY TimesGoOn
<1>2. IsSequence(Tail(todo[c])) /\ OnlyCategories(Tail(todo[c]))
  BY TimesGoOn
<1>3. about[c].stamps = TRUE
  BY <1>1 DEF RequestsAreSound, RequestIsSound, IsRequest
<1> HIDE DEF times
<1> DEFINE left == <<SetTimes(times)>> \o Tail(todo[c])
<1>4. ListFits(left, about[c].touches, about[c].resets, TRUE) /\ DropsNoRow(left)
  BY <1>1, <1>2, TakenList
<1>5. ListFits(left, about[c].touches, about[c].resets, about[c].stamps)
  BY <1>3, <1>4, Zenon
<1>6. known[c] = [users |-> known[c].users, items |-> known[c].items]
  BY DEF RequestsAreSound, RequestIsSound
<1> HIDE DEF left
<1>7. Leaves(c, left, known[c])
  BY <1>4, <1>5, <1>6 DEF Leaves
<1> QED
  BY <1>7 DEF left, times

LEMMA TimesTaken == ASSUME TimesIInv, NEW c \in Clients, TakesTimes(c) PROVE TimesAreKept'
<1> DEFINE taken == [id \in NextCall(c).stamped |-> clock]
           left == <<SetTimes(taken)>> \o Tail(todo[c])
           times == TimesOf(c, db)
           ids == about[c].touches
<1>1. Is(c, "Now") /\ Made(c, db, cache, left, known[c])
  BY DEF TakesTimes
<1>2. AfterCall(c, db, cache, left, known[c])
  BY <1>1, AboutCalled DEF TimesIInv
<1>3. /\ DOMAIN taken = ids /\ \A id \in ids : taken[id] = clock
      /\ IsSequence(Tail(todo[c])) /\ OnlyCategories(Tail(todo[c])) /\ NextCall(c).call = "Now"
      /\ Head(todo[c]).call = "Now"
  BY <1>1, TimesGoOn DEF TimesIInv, Is, NextCall
<1>4. clock' = clock + 1 /\ clock \in Nat
  <2>1. clock' = clock + (IF Head(todo[c]).call = "Now" THEN 1 ELSE 0)
    BY <1>1 DEF Made
  <2> QED
    BY <1>3, <2>1 DEF TimesIInv, StoresAreSound
<1>5. /\ DOMAIN times \subseteq ids \cap (Users \cup Items)
      /\ ~about[c].stamps => DOMAIN times = {}
      /\ \A id \in DOMAIN times : times[id] \in Nat /\ times[id] <= clock
  BY NothingDiffers, TimesOfCall
<1> HIDE DEF taken
<1>6. left # <<>> /\ Head(left) = SetTimes(taken) /\ left[1] = SetTimes(taken)
  BY <1>3, TakenList
<1>7. owed' = (IF left = <<>> /\ about[c].alone THEN Over(times, owed) ELSE owed)
  BY <1>1 DEF Made, TimesOf
<1> HIDE DEF left, times
<1>8. ASSUME NEW id \in Users \cup Items, owed[id] > 0 PROVE Covered(cache.values, id, owed[id])
  BY <1>8 DEF TimesIInv, TimesAreKept, TimesCoverChanges, Covered
<1>9. ChangesAreKept(c)'
  <2>1. /\ todo'[c] = left /\ about'[c].touches = ids /\ about'[c].stamps = about[c].stamps
        /\ about'[c].changed = times
    BY <1>2, <1>6 DEF AfterCall, GoesOn, times
  <2>2. todo'[c][1].times = taken /\ ~Is(c, "AddSet")'
    BY <1>6, <2>1 DEF SetTimes, Is, NextCall
  <2>3. owed' = owed /\ DOMAIN owed = Users \cup Items /\ \A id \in Users \cup Items : owed[id] <= clock
    BY <1>6, <1>7 DEF TimesIInv, TimesAreKept
  <2>4. \A id \in DOMAIN times : times[id] <= clock'
    BY <1>4, <1>5
  <2> QED
    BY <1>3, <1>4, <1>5, <2>1, <2>2, <2>3, <2>4 DEF ChangesAreKept
<1>10. clock' \in Nat /\ clock <= clock'
  BY <1>4
<1> HIDE DEF ids
<1> QED
  BY <1>2, <1>5, <1>6, <1>7, <1>8, <1>9, <1>10, TimesGoOnBeside DEF ids

LEMMA TimesSet == ASSUME TimesIInv, NEW c \in Clients, SetsTimes(c) PROVE TimesAreKept'
<1> DEFINE s == todo[c]
           taken == NextCall(c).times
           left == Tail(s)
           k == [cache EXCEPT !.values = Over(taken, @)]
           times == TimesOf(c, db)
           ids == about[c].touches
<1>1. Is(c, "Set") /\ Made(c, db, k, left, known[c])
  BY DEF SetsTimes, CacheCall
<1>2. AfterCall(c, db, k, left, known[c])
  BY <1>1, AboutCalled DEF TimesIInv
<1>3. /\ NextCall(c) = s[1] /\ 1 \in DOMAIN s /\ DOMAIN s \subseteq Nat \ {0}
      /\ left # <<>> => 2 \in DOMAIN s /\ Head(left) = s[2]
      /\ ListFits(s, ids, about[c].resets, about[c].stamps)
  BY <1>1, HeadsOf DEF TimesIInv, Is
<1>4. s # <<>> /\ s[1].call = "Set"
  BY <1>1, <1>3 DEF Is, Idle
<1>5. SetsNext(s, ids)
  <2>1. about[c].stamps
    BY <1>3, <1>4 DEF ListFits
  <2>2. ~StampsLater(s, ids)
    BY <1>3, <1>4, NoTimesYet
  <2>3. ~OnlyCategories(s)
    BY <1>3, <1>4 DEF OnlyCategories
  <2> QED
    BY <1>3, <2>1, <2>2, <2>3 DEF ListFits
<1>6. clock' = clock /\ clock \in Nat
  <2>1. clock' = clock + (IF Head(todo[c]).call = "Now" THEN 1 ELSE 0)
    BY <1>1 DEF Made
  <2>2. Head(todo[c]).call = "Set"
    BY <1>1 DEF Is, NextCall
  <2> QED
    BY <2>1, <2>2 DEF TimesIInv, StoresAreSound
<1>7. /\ DOMAIN times \subseteq ids \cap (Users \cup Items)
      /\ ~about[c].stamps => DOMAIN times = {}
      /\ \A id \in DOMAIN times : times[id] \in Nat /\ times[id] <= clock
      /\ DOMAIN times = DOMAIN about[c].changed
      /\ \A id \in DOMAIN about[c].changed : times[id] = about[c].changed[id]
  BY NothingDiffers, TimesOfCall
<1>8. owed' = (IF left = <<>> /\ about[c].alone THEN Over(times, owed) ELSE owed)
  BY <1>1 DEF Made, TimesOf
<1>9. /\ DOMAIN taken = ids
      /\ \A id \in ids : /\ taken[id] \in Nat
                         /\ id \in DOMAIN owed => owed[id] <= taken[id]
                         /\ id \in DOMAIN about[c].changed => about[c].changed[id] <= taken[id]
  BY <1>1, <1>3, <1>5 DEF SetsNext, TimesIInv, TimesAreKept, ChangesAreKept
<1>10. k.values = Over(taken, cache.values)
  BY DEF TimesIInv, StoresAreSound
<1> HIDE DEF taken, left, k, times
<1>11. /\ \A id \in ids : id \in DOMAIN k.values /\ k.values[id] = taken[id]
       /\ \A id : id \notin ids
              => (id \in DOMAIN cache.values => id \in DOMAIN k.values /\ k.values[id] = cache.values[id])
  BY <1>9, <1>10 DEF Over
<1>12. \A id, time : id \notin ids /\ Covered(cache.values, id, time) => Covered(k.values, id, time)
  BY <1>11 DEF Covered
<1>13. DOMAIN owed = Users \cup Items /\ \A id \in Users \cup Items : owed[id] \in Nat
  BY DEF TimesIInv, TimesAreKept
<1>14. ASSUME NEW id \in Users \cup Items, id \in ids PROVE Covered(k.values, id, owed[id])
  BY <1>9, <1>11, <1>13, <1>14 DEF Covered
<1>15. ASSUME NEW id \in DOMAIN times PROVE Covered(k.values, id, times[id])
  <2>1. id \in ids /\ times[id] \in Nat /\ times[id] <= taken[id] /\ taken[id] \in Nat
    BY <1>7, <1>9
  <2> QED
    BY <1>11, <2>1 DEF Covered
<1>16. ASSUME left # <<>> PROVE ChangesAreKept(c)'
  <2>1. /\ todo'[c] = left /\ about'[c].touches = ids /\ about'[c].stamps = about[c].stamps
        /\ about'[c].changed = times /\ cache' = k
    BY <1>2, <1>16 DEF AfterCall, GoesOn, times
  <2>2. NextCall(c)' = s[2] /\ s[2].call = "AddSet"
    BY <1>3, <1>5, <1>16, <2>1 DEF NextCall, SetsNext, left
  <2>3. ~Is(c, "Set")'
    BY <2>2 DEF Is
  <2> QED
    BY <1>6, <1>7, <1>15, <2>1, <2>3 DEF ChangesAreKept
<1>17. clock' \in Nat /\ clock <= clock'
  BY <1>6
<1> HIDE DEF ids, s
<1> QED
  BY <1>2, <1>7, <1>8, <1>12, <1>14, <1>15, <1>16, <1>17, TimesGoOnBeside DEF ids

\* What a call changes of the stores is what its request touches.
IsStore(d) == d = [users |-> d.users, items |-> d.items, feedback |-> d.feedback]

LEMMA DifferIn ==
  ASSUME NEW d, NEW ids,
         \A u \in Users \ ids : DB!GetUser(db, u) = DB!GetUser(d, u),
         \A i \in Items \ ids : DB!GetItem(db, i) = DB!GetItem(d, i),
         \A k \in DOMAIN db.feedback : (k.user \in ids /\ k.item \in ids)
                                         \/ (k \in DOMAIN d.feedback /\ db.feedback[k] = d.feedback[k]),
         \A k \in DOMAIN d.feedback : (k.user \in ids /\ k.item \in ids) \/ k \in DOMAIN db.feedback
  PROVE  Differ(db, d) \subseteq ids
<1>1. ASSUME NEW id, id \notin ids PROVE FeedbackOf(db, id) = FeedbackOf(d, id)
  <2> DEFINE K(e) == {k \in DOMAIN e.feedback : id \in {k.user, k.item}}
  <2>1. K(db) = K(d)
    BY <1>1
  <2>2. \A k \in K(db) : db.feedback[k] = d.feedback[k]
    BY <1>1
  <2> QED
    BY <2>1, <2>2 DEF FeedbackOf
<1> QED
  BY <1>1 DEF Differ

\* One table changes.
LEMMA TableChanges ==
  ASSUME NEW d, IsStore(d), NEW t
  PROVE  /\ IsStore([d EXCEPT !.users = t]) /\ [d EXCEPT !.users = t].users = t
         /\ [d EXCEPT !.users = t].items = d.items /\ [d EXCEPT !.users = t].feedback = d.feedback
         /\ IsStore([d EXCEPT !.items = t]) /\ [d EXCEPT !.items = t].items = t
         /\ [d EXCEPT !.items = t].users = d.users /\ [d EXCEPT !.items = t].feedback = d.feedback
         /\ IsStore([d EXCEPT !.feedback = t]) /\ [d EXCEPT !.feedback = t].feedback = t
         /\ [d EXCEPT !.feedback = t].users = d.users /\ [d EXCEPT !.feedback = t].items = d.items
<1>1. d = [users |-> d.users, items |-> d.items, feedback |-> d.feedback]
  BY DEF IsStore
<1>2. /\ [d EXCEPT !.users = t] = [users |-> t, items |-> d.items, feedback |-> d.feedback]
      /\ [d EXCEPT !.items = t] = [users |-> d.users, items |-> t, feedback |-> d.feedback]
      /\ [d EXCEPT !.feedback = t] = [users |-> d.users, items |-> d.items, feedback |-> t]
  BY <1>1
<1> QED
  BY <1>2 DEF IsStore

LEMMA UsersDiffer ==
  ASSUME IsStore(db), NEW d, d.items = db.items, d.feedback = db.feedback, NEW ids,
         \A u \in Users \ ids : /\ u \in DOMAIN db.users <=> u \in DOMAIN d.users
                                /\ u \in DOMAIN db.users => db.users[u] = d.users[u]
  PROVE  Differ(db, d) \subseteq ids
<1>1. \A u \in Users \ ids : DB!GetUser(db, u) = DB!GetUser(d, u)
  BY DEF DB!GetUser
<1>2. \A i : DB!GetItem(db, i) = DB!GetItem(d, i)
  BY DEF DB!GetItem
<1> QED
  BY <1>1, <1>2, DifferIn

LEMMA ItemsDiffer ==
  ASSUME IsStore(db), NEW d, d.users = db.users, d.feedback = db.feedback, NEW ids,
         \A i \in Items \ ids : /\ i \in DOMAIN db.items <=> i \in DOMAIN d.items
                                /\ i \in DOMAIN db.items => db.items[i] = d.items[i]
  PROVE  Differ(db, d) \subseteq ids
<1>1. \A i \in Items \ ids : DB!GetItem(db, i) = DB!GetItem(d, i)
  BY DEF DB!GetItem
<1>2. \A u : DB!GetUser(db, u) = DB!GetUser(d, u)
  BY DEF DB!GetUser
<1> QED
  BY <1>1, <1>2, DifferIn

LEMMA FeedbackDiffers ==
  ASSUME IsStore(db), NEW d, d.users = db.users, d.items = db.items, NEW ids,
         \A k \in DOMAIN db.feedback : (k.user \in ids /\ k.item \in ids)
                                         \/ (k \in DOMAIN d.feedback /\ db.feedback[k] = d.feedback[k]),
         \A k \in DOMAIN d.feedback : (k.user \in ids /\ k.item \in ids) \/ k \in DOMAIN db.feedback
  PROVE  Differ(db, d) \subseteq ids
<1>1. \A i : DB!GetItem(db, i) = DB!GetItem(d, i)
  BY DEF DB!GetItem
<1>2. \A u : DB!GetUser(db, u) = DB!GetUser(d, u)
  BY DEF DB!GetUser
<1> QED
  BY <1>1, <1>2, DifferIn

\* The calls of a request that sets times.
LEMMA StampingCalls ==
  ASSUME RequestsAreSound, NEW c \in Clients, ~Idle(c), about[c].stamps
  PROVE  NextCall(c).call \in Inserts \cup {"Now", "Set", "AddSet"}
<1>1. /\ NextCall(c) = todo[c][1] /\ 1 \in DOMAIN todo[c] /\ DOMAIN todo[c] \subseteq Nat \ {0}
      /\ ListFits(todo[c], about[c].touches, about[c].resets, about[c].stamps)
  BY HeadsOf
<1>2. \/ StampsLater(todo[c], about[c].touches) \/ SetsNext(todo[c], about[c].touches) \/ OnlyCategories(todo[c])
  BY <1>1 DEF ListFits
<1>3. StampsLater(todo[c], about[c].touches) => todo[c][1].call \in Inserts \cup {"Now"}
  BY <1>1, NoTimesYet DEF Idle
<1> QED
  BY <1>1, <1>2, <1>3 DEF SetsNext, OnlyCategories

LEMMA OwnNextCall ==
  ASSUME RequestsAreSound, NEW c \in Clients, ~Idle(c)
  PROVE  OwnCall(NextCall(c), about[c].touches)
<1>1. NextCall(c) = todo[c][1] /\ 1 \in DOMAIN todo[c]
  BY HeadsOf
<1>2. ListFits(todo[c], about[c].touches, about[c].resets, about[c].stamps)
  BY HeadsOf
<1> QED
  BY <1>1, <1>2 DEF ListFits

\* A call that takes no times keeps them.
LEMMA TimesKeptByCall ==
  ASSUME TimesIInv, NEW c \in Clients, ~Idle(c), NextCall(c).call \notin {"Now", "Set"},
         NEW d, NEW k, NEW knows, Made(c, d, k, Tail(todo[c]), knows),
         IsStore(d), "values" \in DOMAIN k, k.values = cache.values,
         knows = [users |-> knows.users, items |-> knows.items], knows = known[c] \/ DropsNoRow(todo[c]),
         about[c].stamps => Differ(db, d) \subseteq about[c].touches,
         NextCall(c).call = "AddSet" => d = db
  PROVE  TimesIInv'
<1>1. Leaves(c, Tail(todo[c]), knows)
  BY ListGoesOn DEF TimesIInv
<1>2. StoresAreSound' /\ RequestsAreSound'
  BY <1>1, CallMade DEF TimesIInv, IsStore
<1>3. TimesAreKept'
  BY TimesCall
<1> QED
  BY <1>2, <1>3 DEF TimesIInv

LEMMA TimesKeptByDataCall ==
  ASSUME TimesIInv, NEW c \in Clients, ~Idle(c), NextCall(c).call \notin {"Now", "Set", "AddSet"},
         NEW d, DataCall(c, d), IsStore(d), about[c].stamps => Differ(db, d) \subseteq about[c].touches
  PROVE  TimesIInv'
<1>1. known[c] = [users |-> known[c].users, items |-> known[c].items]
  BY DEF TimesIInv, RequestsAreSound, RequestIsSound
<1>2. "values" \in DOMAIN cache
  BY DEF TimesIInv, StoresAreSound
<1>3. Made(c, d, cache, Tail(todo[c]), known[c])
  BY DEF DataCall
<1> QED
  BY <1>1, <1>2, <1>3, TimesKeptByCall

LEMMA TimesKeptByCacheCall ==
  ASSUME TimesIInv, NEW c \in Clients, ~Idle(c), NextCall(c).call \notin {"Now", "Set"},
         NEW k, CacheCall(c, k), "values" \in DOMAIN k, k.values = cache.values
  PROVE  TimesIInv'
<1>1. known[c] = [users |-> known[c].users, items |-> known[c].items]
  BY DEF TimesIInv, RequestsAreSound, RequestIsSound
<1>2. IsStore(db)
  BY DEF TimesIInv, StoresAreSound, IsStore
<1>3. Made(c, db, k, Tail(todo[c]), known[c])
  BY DEF CacheCall
<1>4. Differ(db, db) \subseteq about[c].touches
  BY NothingDiffers
<1> QED
  BY <1>1, <1>2, <1>3, <1>4, TimesKeptByCall

\* The rows of the data store are those of this module.
LEMMA SameRows ==
  /\ \A a, b : DB!Over(a, b) = Over(a, b) /\ DB!Without(a, b) = Without(a, b)
  /\ \A t : DB!KeysOf(t) = KeysOf(t) /\ DB!FirstRows(t) = FirstRows(t)
  /\ DB!EmptyTable = EmptyTable
BY DEF DB!Over, Over, DB!Without, Without, DB!KeysOf, KeysOf, DB!FirstRows, FirstRows, DB!EmptyTable, EmptyTable

\* The tables after each call of the data store.
LEMMA DataAfterCalls ==
  ASSUME IsStore(db), NEW t, NEW p, NEW id, NEW ids
  PROVE  /\ IsStore(DB!BatchInsertUsers(db, t)) /\ Differ(db, DB!BatchInsertUsers(db, t)) \subseteq KeysOf(t)
         /\ IsStore(DB!BatchInsertItems(db, t)) /\ Differ(db, DB!BatchInsertItems(db, t)) \subseteq KeysOf(t)
         /\ IsStore(DB!ModifyUser(db, id, p)) /\ Differ(db, DB!ModifyUser(db, id, p)) \subseteq {id}
         /\ IsStore(DB!ModifyItem(db, id, p)) /\ Differ(db, DB!ModifyItem(db, id, p)) \subseteq {id}
         /\ IsStore(DB!InsertMissingUsers(db, ids)) /\ Differ(db, DB!InsertMissingUsers(db, ids)) \subseteq ids
         /\ IsStore(DB!InsertMissingItems(db, ids)) /\ Differ(db, DB!InsertMissingItems(db, ids)) \subseteq ids
<1>1. IsStore(DB!BatchInsertUsers(db, t)) /\ Differ(db, DB!BatchInsertUsers(db, t)) \subseteq KeysOf(t)
  <2> DEFINE table == Over(FirstRows(t), db.users)
             d == [db EXCEPT !.users = table]
  <2>1. IsStore(d) /\ d.users = table /\ d.items = db.items /\ d.feedback = db.feedback
    BY TableChanges
  <2>2. DOMAIN FirstRows(t) = KeysOf(t)
    BY DEF FirstRows
  <2>3. \A u \in Users \ KeysOf(t) : (u \in DOMAIN db.users <=> u \in DOMAIN table)
                                       /\ (u \in DOMAIN db.users => db.users[u] = table[u])
    BY <2>2 DEF Over
  <2> HIDE DEF d, table
  <2>4. Differ(db, d) \subseteq KeysOf(t)
    BY <2>1, <2>3, UsersDiffer
  <2> QED
    BY <2>1, <2>4, SameRows DEF d, table, DB!BatchInsertUsers
<1>2. IsStore(DB!BatchInsertItems(db, t)) /\ Differ(db, DB!BatchInsertItems(db, t)) \subseteq KeysOf(t)
  <2> DEFINE table == Over(FirstRows(t), db.items)
             d == [db EXCEPT !.items = table]
  <2>1. IsStore(d) /\ d.items = table /\ d.users = db.users /\ d.feedback = db.feedback
    BY TableChanges
  <2>2. DOMAIN FirstRows(t) = KeysOf(t)
    BY DEF FirstRows
  <2>3. \A i \in Items \ KeysOf(t) : (i \in DOMAIN db.items <=> i \in DOMAIN table)
                                       /\ (i \in DOMAIN db.items => db.items[i] = table[i])
    BY <2>2 DEF Over
  <2> HIDE DEF d, table
  <2>4. Differ(db, d) \subseteq KeysOf(t)
    BY <2>1, <2>3, ItemsDiffer
  <2> QED
    BY <2>1, <2>4, SameRows DEF d, table, DB!BatchInsertItems
<1>3. IsStore(DB!ModifyUser(db, id, p)) /\ Differ(db, DB!ModifyUser(db, id, p)) \subseteq {id}
  <2> DEFINE d == DB!ModifyUser(db, id, p)
  <2>1. CASE id \notin DOMAIN db.users
    <3>1. d = db
      BY <2>1 DEF DB!ModifyUser
    <3> QED
      BY <3>1, NothingDiffers
  <2>2. CASE id \in DOMAIN db.users
    <3> DEFINE table == [db.users EXCEPT ![id] = Over(p, @)]
    <3>1. d = [db EXCEPT !.users = table]
      BY <2>2, SameRows DEF DB!ModifyUser
    <3>2. \A u \in Users \ {id} : (u \in DOMAIN db.users <=> u \in DOMAIN table)
                                    /\ (u \in DOMAIN db.users => db.users[u] = table[u])
      OBVIOUS
    <3> HIDE DEF table, d
    <3>3. IsStore(d) /\ d.users = table /\ d.items = db.items /\ d.feedback = db.feedback
      BY <3>1, TableChanges
    <3>4. Differ(db, d) \subseteq {id}
      BY <3>2, <3>3, UsersDiffer
    <3> QED
      BY <3>3, <3>4 DEF d
  <2> QED
    BY <2>1, <2>2
<1>4. IsStore(DB!ModifyItem(db, id, p)) /\ Differ(db, DB!ModifyItem(db, id, p)) \subseteq {id}
  <2> DEFINE d == DB!ModifyItem(db, id, p)
  <2>1. CASE id \notin DOMAIN db.items
    <3>1. d = db
      BY <2>1 DEF DB!ModifyItem
    <3> QED
      BY <3>1, NothingDiffers
  <2>2. CASE id \in DOMAIN db.items
    <3> DEFINE table == [db.items EXCEPT ![id] = Over(p, @)]
    <3>1. d = [db EXCEPT !.items = table]
      BY <2>2, SameRows DEF DB!ModifyItem
    <3>2. \A i \in Items \ {id} : (i \in DOMAIN db.items <=> i \in DOMAIN table)
                                    /\ (i \in DOMAIN db.items => db.items[i] = table[i])
      OBVIOUS
    <3> HIDE DEF table, d
    <3>3. IsStore(d) /\ d.items = table /\ d.users = db.users /\ d.feedback = db.feedback
      BY <3>1, TableChanges
    <3>4. Differ(db, d) \subseteq {id}
      BY <3>2, <3>3, ItemsDiffer
    <3> QED
      BY <3>3, <3>4 DEF d
  <2> QED
    BY <2>1, <2>2
<1>5. IsStore(DB!InsertMissingUsers(db, ids)) /\ Differ(db, DB!InsertMissingUsers(db, ids)) \subseteq ids
  <2> DEFINE table == Over(db.users, [u \in ids |-> BlankUser])
             d == [db EXCEPT !.users = table]
  <2>1. IsStore(d) /\ d.users = table /\ d.items = db.items /\ d.feedback = db.feedback
    BY TableChanges
  <2>2. \A u \in Users \ ids : (u \in DOMAIN db.users <=> u \in DOMAIN table)
                                 /\ (u \in DOMAIN db.users => db.users[u] = table[u])
    BY DEF Over
  <2> HIDE DEF d, table
  <2>3. Differ(db, d) \subseteq ids
    BY <2>1, <2>2, UsersDiffer
  <2> QED
    BY <2>1, <2>3, SameRows DEF d, table, DB!InsertMissingUsers
<1>6. IsStore(DB!InsertMissingItems(db, ids)) /\ Differ(db, DB!InsertMissingItems(db, ids)) \subseteq ids
  <2> DEFINE table == Over(db.items, [i \in ids |-> BlankItem])
             d == [db EXCEPT !.items = table]
  <2>1. IsStore(d) /\ d.items = table /\ d.users = db.users /\ d.feedback = db.feedback
    BY TableChanges
  <2>2. \A i \in Items \ ids : (i \in DOMAIN db.items <=> i \in DOMAIN table)
                                 /\ (i \in DOMAIN db.items => db.items[i] = table[i])
    BY DEF Over
  <2> HIDE DEF d, table
  <2>3. Differ(db, d) \subseteq ids
    BY <2>1, <2>2, ItemsDiffer
  <2> QED
    BY <2>1, <2>3, SameRows DEF d, table, DB!InsertMissingItems
<1> QED
  BY <1>1, <1>2, <1>3, <1>4, <1>5, <1>6

LEMMA FeedbackAfterInsert ==
  ASSUME IsStore(db), NEW t, NEW us, NEW is, NEW overwrite
  PROVE  LET d == DB!InsertFeedback(db, t, us, is, overwrite)
         IN  /\ IsStore(d) /\ d.users = db.users /\ d.items = db.items
             /\ DOMAIN d.feedback
                  = DOMAIN db.feedback \cup {k \in KeysOf(t) : k.user \in us /\ k.item \in is}
             /\ Differ(db, d) \subseteq UsersIn(t) \cup ItemsIn(t)
<1> DEFINE new == [k \in {k \in KeysOf(t) : k.user \in us /\ k.item \in is} |-> FirstRows(t)[k]]
           table == IF overwrite THEN Over(new, db.feedback) ELSE Over(db.feedback, new)
           d == [db EXCEPT !.feedback = table]
           K == {k \in KeysOf(t) : k.user \in us /\ k.item \in is}
<1>1. IsStore(d) /\ d.feedback = table /\ d.users = db.users /\ d.items = db.items
  <2> HIDE DEF table
  <2> QED
    BY TableChanges
<1>2. /\ DOMAIN table = DOMAIN db.feedback \cup K
      /\ \A k \in DOMAIN db.feedback \ K : table[k] = db.feedback[k]
  <2>1. DOMAIN new = K
    OBVIOUS
  <2> HIDE DEF new, K
  <2>2. CASE overwrite
    BY <2>1, <2>2 DEF Over
  <2>3. CASE ~overwrite
    BY <2>1, <2>3 DEF Over
  <2> QED
    BY <2>2, <2>3
<1>3. \A k \in K : k.user \in UsersIn(t) \cup ItemsIn(t) /\ k.item \in UsersIn(t) \cup ItemsIn(t)
  BY DEF UsersIn, ItemsIn
<1>4. DB!InsertFeedback(db, t, us, is, overwrite) = d
  BY SameRows DEF DB!InsertFeedback
<1> HIDE DEF d, table, K
<1>5. Differ(db, d) \subseteq UsersIn(t) \cup ItemsIn(t)
  BY <1>1, <1>2, <1>3, FeedbackDiffers
<1> QED
  BY <1>1, <1>2, <1>4, <1>5 DEF K

\* The calls of the cache, but for Set, leave the times.
LEMMA OtherCallsKeepTimes ==
  ASSUME "values" \in DOMAIN cache, NEW a, NEW b, NEW e, NEW f
  PROVE  LET Keeps(k) == "values" \in DOMAIN k /\ k.values = cache.values
         IN  /\ Keeps(CA!AddScores(cache, a, b, e)) /\ Keeps(CA!UpdateScores(cache, a, b, e, f))
             /\ Keeps(CA!DeleteScores(cache, a, b)) /\ Keeps(CA!AddSet(cache, a, b))
<1>1. ASSUME NEW t
      PROVE  /\ "values" \in DOMAIN [cache EXCEPT !.docs = t] /\ [cache EXCEPT !.docs = t].values = cache.values
             /\ "values" \in DOMAIN [cache EXCEPT !.sets = t] /\ [cache EXCEPT !.sets = t].values = cache.values
  OBVIOUS
<1>2. \E t : CA!AddScores(cache, a, b, e) = [cache EXCEPT !.docs = t]
  BY DEF CA!AddScores
<1>3. \E t : CA!UpdateScores(cache, a, b, e, f) = [cache EXCEPT !.docs = t]
  BY DEF CA!UpdateScores
<1>4. CA!DeleteScores(cache, a, b) = cache \/ \E t : CA!DeleteScores(cache, a, b) = [cache EXCEPT !.docs = t]
  BY DEF CA!DeleteScores
<1>5. \E t : CA!AddSet(cache, a, b) = [cache EXCEPT !.sets = t]
  BY DEF CA!AddSet
<1> QED
  BY <1>1, <1>2, <1>3, <1>4, <1>5

LEMMA TimesKeptByCalls == ASSUME TimesIInv, NEW c \in Clients, Calls(c) PROVE TimesIInv'
<1>1. IsStore(db) /\ "values" \in DOMAIN cache /\ RequestsAreSound
  BY DEF TimesIInv, StoresAreSound, IsStore
<1>2. CASE BatchInsertUsers(c)
  <2> DEFINE t == NextCall(c).users
  <2>1. ~Idle(c) /\ NextCall(c).call = "BatchInsertUsers" /\ DataCall(c, DB!BatchInsertUsers(db, t))
    BY <1>2 DEF BatchInsertUsers, Is
  <2>2. KeysOf(t) \subseteq about[c].touches
    BY <1>1, <2>1, OwnNextCall DEF OwnCall
  <2>3. IsStore(DB!BatchInsertUsers(db, t)) /\ Differ(db, DB!BatchInsertUsers(db, t)) \subseteq about[c].touches
    BY <1>1, <2>2, DataAfterCalls
  <2> QED
    BY <2>1, <2>3, TimesKeptByDataCall
<1>3. CASE CallsModifyUser(c)
  <2> DEFINE u == NextCall(c).user
             p == NextCall(c).userPatch
  <2>1. ~Idle(c) /\ NextCall(c).call = "ModifyUser" /\ DataCall(c, DB!ModifyUser(db, u, p))
    BY <1>3 DEF CallsModifyUser, Is
  <2>2. u \in about[c].touches
    BY <1>1, <2>1, OwnNextCall DEF OwnCall
  <2>3. IsStore(DB!ModifyUser(db, u, p)) /\ Differ(db, DB!ModifyUser(db, u, p)) \subseteq {u}
    BY <1>1, DataAfterCalls
  <2>4. Differ(db, DB!ModifyUser(db, u, p)) \subseteq about[c].touches
    BY <2>2, <2>3
  <2> QED
    BY <2>1, <2>3, <2>4, TimesKeptByDataCall
<1>4. CASE BatchInsertItems(c)
  <2> DEFINE t == NextCall(c).items
  <2>1. ~Idle(c) /\ NextCall(c).call = "BatchInsertItems" /\ DataCall(c, DB!BatchInsertItems(db, t))
    BY <1>4 DEF BatchInsertItems, Is
  <2>2. KeysOf(t) \subseteq about[c].touches
    BY <1>1, <2>1, OwnNextCall DEF OwnCall
  <2>3. IsStore(DB!BatchInsertItems(db, t)) /\ Differ(db, DB!BatchInsertItems(db, t)) \subseteq about[c].touches
    BY <1>1, <2>2, DataAfterCalls
  <2> QED
    BY <2>1, <2>3, TimesKeptByDataCall
<1>5. CASE CallsModifyItem(c)
  <2> DEFINE i == NextCall(c).item
             p == NextCall(c).itemPatch
  <2>1. ~Idle(c) /\ NextCall(c).call = "ModifyItem" /\ DataCall(c, DB!ModifyItem(db, i, p))
    BY <1>5 DEF CallsModifyItem, Is
  <2>2. i \in about[c].touches
    BY <1>1, <2>1, OwnNextCall DEF OwnCall
  <2>3. IsStore(DB!ModifyItem(db, i, p)) /\ Differ(db, DB!ModifyItem(db, i, p)) \subseteq {i}
    BY <1>1, DataAfterCalls
  <2>4. Differ(db, DB!ModifyItem(db, i, p)) \subseteq about[c].touches
    BY <2>2, <2>3
  <2> QED
    BY <2>1, <2>3, <2>4, TimesKeptByDataCall
\* A request that deletes sets no times.
<1>6. ASSUME ~Idle(c), NextCall(c).call \in {"DeleteUserRow", "DeleteUserFeedback", "DeleteItemRow",
                                              "DeleteItemFeedback", "DeleteUserItemFeedback"}
      PROVE  ~about[c].stamps
  BY <1>1, <1>6, StampingCalls DEF Inserts, CacheCalls
<1>7. CASE DeleteUserRow(c) \/ DeleteUserFeedback(c) \/ DeleteItemRow(c) \/ DeleteItemFeedback(c)
             \/ DeleteUserItemFeedback(c)
  <2>1. /\ ~Idle(c) /\ NextCall(c).call \in {"DeleteUserRow", "DeleteUserFeedback", "DeleteItemRow",
                                              "DeleteItemFeedback", "DeleteUserItemFeedback"}
        /\ \E t : \/ DataCall(c, [db EXCEPT !.users = t]) \/ DataCall(c, [db EXCEPT !.items = t])
                  \/ DataCall(c, [db EXCEPT !.feedback = t])
    <3>1. CASE DeleteUserRow(c)
      BY <3>1 DEF DeleteUserRow, Is, DB!DeleteUserRow
    <3>2. CASE DeleteUserFeedback(c)
      BY <3>2 DEF DeleteUserFeedback, Is, DB!DeleteUserFeedback
    <3>3. CASE DeleteItemRow(c)
      BY <3>3 DEF DeleteItemRow, Is, DB!DeleteItemRow
    <3>4. CASE DeleteItemFeedback(c)
      BY <3>4 DEF DeleteItemFeedback, Is, DB!DeleteItemFeedback
    <3>5. CASE DeleteUserItemFeedback(c)
      BY <3>5 DEF DeleteUserItemFeedback, Is, DB!DeleteUserItemFeedback
    <3> QED
      BY <1>7, <3>1, <3>2, <3>3, <3>4, <3>5
  <2>2. PICK d : DataCall(c, d) /\ IsStore(d)
    BY <1>1, <2>1, TableChanges
  <2> QED
    BY <1>6, <2>1, <2>2, TimesKeptByDataCall
<1>8. CASE InsertUsersOfFeedback(c) \/ InsertItemsOfFeedback(c)
  <2>1. ~Idle(c) /\ NextCall(c).call \in {"InsertUsersOfFeedback", "InsertItemsOfFeedback"}
    BY <1>8 DEF InsertUsersOfFeedback, InsertItemsOfFeedback, Is
  <2> DEFINE us == UsersIn(NextCall(c).feedback)
             is == ItemsIn(NextCall(c).feedback)
  <2>2. us \subseteq about[c].touches /\ is \subseteq about[c].touches
    BY <1>1, <2>1, OwnNextCall DEF OwnCall
  <2>3. known[c] = [users |-> known[c].users, items |-> known[c].items]
    BY <1>1 DEF RequestsAreSound, RequestIsSound
  <2>4. DropsNoRow(todo[c])
    <3>1. NextCall(c) = todo[c][1] /\ 1 \in DOMAIN todo[c]
      BY <1>1, <2>1, HeadsOf
    <3> QED
      BY <1>1, <2>1, <3>1 DEF RequestsAreSound, RequestIsSound, OnlyRemovals, Removals
  <2>5. PICK d, knows :
          /\ Made(c, d, cache, Tail(todo[c]), knows)
          /\ d \in {db, DB!InsertMissingUsers(db, us), DB!InsertMissingItems(db, is)}
          /\ knows = [users |-> knows.users, items |-> knows.items]
    <3>1. CASE InsertUsersOfFeedback(c)
      BY <3>1 DEF InsertUsersOfFeedback
    <3>2. CASE InsertItemsOfFeedback(c)
      BY <2>3, <3>2 DEF InsertItemsOfFeedback
    <3> QED
      BY <1>8, <3>1, <3>2
  <2>6. \A e \in {db, DB!InsertMissingUsers(db, us), DB!InsertMissingItems(db, is)} :
          IsStore(e) /\ Differ(db, e) \subseteq about[c].touches
    <3>1. IsStore(DB!InsertMissingUsers(db, us)) /\ Differ(db, DB!InsertMissingUsers(db, us)) \subseteq us
      BY <1>1, DataAfterCalls
    <3>2. IsStore(DB!InsertMissingItems(db, is)) /\ Differ(db, DB!InsertMissingItems(db, is)) \subseteq is
      BY <1>1, DataAfterCalls
    <3>3. Differ(db, db) = {}
      BY NothingDiffers
    <3> HIDE DEF us, is
    <3> QED
      BY <1>1, <2>2, <3>1, <3>2, <3>3
  <2>7. IsStore(d) /\ Differ(db, d) \subseteq about[c].touches
    BY <2>5, <2>6
  <2> QED
    BY <1>1, <2>1, <2>4, <2>5, <2>7, TimesKeptByCall
<1>9. CASE InsertFeedback(c)
  <2> DEFINE t == NextCall(c).feedback
             d == DB!InsertFeedback(db, t, known[c].users, known[c].items, NextCall(c).overwrite)
  <2>1. ~Idle(c) /\ NextCall(c).call = "InsertFeedback" /\ DataCall(c, d)
    BY <1>9 DEF InsertFeedback, Is
  <2>2. UsersIn(t) \cup ItemsIn(t) \subseteq about[c].touches
    BY <1>1, <2>1, OwnNextCall DEF OwnCall
  <2>3. IsStore(d) /\ Differ(db, d) \subseteq UsersIn(t) \cup ItemsIn(t)
    BY <1>1, FeedbackAfterInsert
  <2>4. Differ(db, d) \subseteq about[c].touches
    BY <2>2, <2>3
  <2> HIDE DEF d
  <2> QED
    BY <2>1, <2>3, <2>4, TimesKeptByDataCall
<1>10. CASE TakesTimes(c)
  <2> DEFINE left == <<SetTimes([id \in NextCall(c).stamped |-> clock])>> \o Tail(todo[c])
  <2>1. Is(c, "Now") /\ Made(c, db, cache, left, known[c])
    BY <1>10 DEF TakesTimes
  <2>2. Leaves(c, left, known[c])
    BY <1>1, <2>1, TakenFits
  <2> HIDE DEF left
  <2>3. StoresAreSound' /\ RequestsAreSound'
    BY <1>1, <2>1, <2>2, CallMade DEF TimesIInv, IsStore
  <2> QED
    BY <1>10, <2>3, TimesTaken DEF TimesIInv
<1>11. CASE SetsTimes(c)
  <2> DEFINE k == [cache EXCEPT !.values = Over(NextCall(c).times, @)]
  <2>1. Is(c, "Set") /\ Made(c, db, k, Tail(todo[c]), known[c]) /\ "values" \in DOMAIN k
    BY <1>1, <1>11 DEF SetsTimes, CacheCall
  <2>2. known[c] = [users |-> known[c].users, items |-> known[c].items]
    BY <1>1 DEF RequestsAreSound, RequestIsSound
  <2>3. Leaves(c, Tail(todo[c]), known[c])
    BY <1>1, <2>1, <2>2, ListGoesOn DEF Is
  <2> HIDE DEF k
  <2>4. StoresAreSound' /\ RequestsAreSound'
    BY <1>1, <2>1, <2>3, CallMade DEF TimesIInv, IsStore
  <2> QED
    BY <1>11, <2>4, TimesSet DEF TimesIInv
<1>12. CASE AddScores(c) \/ UpdateScores(c) \/ DeleteScores(c) \/ AddSet(c)
  <2>1. ~Idle(c) /\ NextCall(c).call \in {"AddScores", "UpdateScores", "DeleteScores", "AddSet"}
    BY <1>12 DEF AddScores, UpdateScores, DeleteScores, AddSet, Is
  <2>2. PICK k : CacheCall(c, k) /\ "values" \in DOMAIN k /\ k.values = cache.values
    <3>1. CASE AddScores(c)
      BY <1>1, <3>1, OtherCallsKeepTimes DEF AddScores
    <3>2. CASE UpdateScores(c)
      BY <1>1, <3>2, OtherCallsKeepTimes DEF UpdateScores
    <3>3. CASE DeleteScores(c)
      BY <1>1, <3>3, OtherCallsKeepTimes DEF DeleteScores
    <3>4. CASE AddSet(c)
      BY <1>1, <3>4, OtherCallsKeepTimes DEF AddSet
    <3> QED
      BY <1>12, <3>1, <3>2, <3>3, <3>4
  <2> QED
    BY <2>1, <2>2, TimesKeptByCacheCall
<1> QED
  BY <1>2, <1>3, <1>4, <1>5, <1>7, <1>8, <1>9, <1>10, <1>11, <1>12 DEF Calls

\* Every request begins with a list that fits.
BeginsFitting(c) ==
  \E calls, ids, resets, stamps :
    /\ stamps \in BOOLEAN /\ resets \subseteq ids
    /\ Begin(c, calls, ids, resets, stamps) /\ Fitting(calls, ids, resets, stamps)

LEMMA NamedInTables ==
  /\ Users \cap Items = {}
  /\ \A t \in UserTables : KeysOf(t) \subseteq Users /\ IsSequence(t) /\ t # <<>> /\ t[1].key \in KeysOf(t)
  /\ \A t \in ItemTables : KeysOf(t) \subseteq Items /\ IsSequence(t) /\ t # <<>> /\ t[1].key \in KeysOf(t)
  /\ \A t \in FeedbackTables : UsersIn(t) \subseteq Users /\ ItemsIn(t) \subseteq Items
<1>1. ASSUME NEW t, IsSequence(t), t # <<>> PROVE t[1].key \in KeysOf(t)
  <2>1. 1 \in DOMAIN t
    BY <1>1, TailOfList
  <2> QED
    BY <2>1 DEF KeysOf
<1>2. \A t \in UserTables \cup ItemTables \cup FeedbackTables : IsSequence(t) /\ t # <<>>
  BY RestAssumption DEF IsSequence
<1>3. /\ \A t \in UserTables : KeysOf(t) \subseteq Users
      /\ \A t \in FeedbackTables : UsersIn(t) \subseteq Users
  BY DEF Users, UsersIn
<1>4. /\ \A t \in ItemTables : KeysOf(t) \subseteq Items
      /\ \A t \in FeedbackTables : ItemsIn(t) \subseteq Items
  BY DEF Items, ItemsIn
<1> QED
  BY RestAssumption, <1>1, <1>2, <1>3, <1>4

LEMMA BeginsFit == ASSUME NEW c \in Clients, Begins(c) PROVE BeginsFitting(c)
<1>1. ASSUME NEW calls, NEW ids, NEW resets, NEW stamps \in BOOLEAN, resets \subseteq ids,
             Begin(c, calls, ids, resets, stamps), Fitting(calls, ids, resets, stamps)
      PROVE  BeginsFitting(c)
  BY <1>1 DEF BeginsFitting
<1> DEFINE none == {}
<1>0. \A ids : none \subseteq ids
  OBVIOUS
<1>2. CASE InsertsUsers(c)
  <2>1. PICK t \in UserTables : \/ Begin(c, insertUsers(t), KeysOf(t), KeysOf(t), TRUE)
                                \/ Begin(c, insertUser(t[1]), {t[1].key}, {t[1].key}, TRUE)
    BY <1>2 DEF InsertsUsers
  <2>2. KeysOf(t) \cap Items = {} /\ t[1].key \notin Items
    BY NamedInTables
  <2>3. Fitting(insertUsers(t), KeysOf(t), KeysOf(t), TRUE)
    BY <2>2, UserListsFit
  <2>4. Fitting(insertUser(t[1]), {t[1].key}, {t[1].key}, TRUE)
    BY <2>2, UserListFits
  <2> QED
    BY <1>1, <2>1, <2>3, <2>4
<1>3. CASE ModifiesUser(c)
  <2>1. PICK x \in UserChanges : Begin(c, modifyUser(x.id, x.patch), {x.id}, none, TRUE)
    BY <1>3 DEF ModifiesUser
  <2>2. Fitting(modifyUser(x.id, x.patch), {x.id}, none, TRUE)
    BY ModifyUserFits
  <2> HIDE DEF none
  <2> QED
    BY <1>0, <1>1, <2>1, <2>2
<1>4. CASE DeletesUser(c)
  <2>1. PICK u \in Users : Begin(c, deleteUser(u), {u}, {u}, FALSE)
    BY <1>4 DEF DeletesUser
  <2>2. Fitting(deleteUser(u), {u}, {u}, FALSE)
    BY DeleteUserFits, RestAssumption
  <2> QED
    BY <1>0, <1>1, <2>1, <2>2
<1>5. CASE InsertsItems(c)
  <2>1. PICK t \in ItemTables : \/ Begin(c, insertItems(t), KeysOf(t), KeysOf(t), TRUE)
                                \/ Begin(c, insertItem(t[1]), {t[1].key}, {t[1].key}, TRUE)
    BY <1>5 DEF InsertsItems
  <2>2. KeysOf(t) \cap Users = {} /\ t[1].key \notin Users /\ IsSequence(t) /\ t # <<>>
    BY NamedInTables
  <2>3. Fitting(insertItems(t), KeysOf(t), KeysOf(t), TRUE)
    BY <2>2, ItemListsFit DEF insertItems
  <2>4. Fitting(insertItem(t[1]), {t[1].key}, {t[1].key}, TRUE)
    BY <2>2, ItemListFits
  <2> QED
    BY <1>1, <2>1, <2>3, <2>4
<1>6. CASE ModifiesItem(c)
  <2>1. PICK x \in ItemChanges : Begin(c, modifyItem(x.id, x.patch), {x.id}, none, TRUE)
    BY <1>6 DEF ModifiesItem
  <2>2. Fitting(modifyItem(x.id, x.patch), {x.id}, none, TRUE)
    BY ModifyItemFits
  <2> HIDE DEF none
  <2> QED
    BY <1>0, <1>1, <2>1, <2>2
<1>7. CASE DeletesItem(c)
  <2>1. PICK i \in Items : Begin(c, deleteItem(i), {i}, {i}, FALSE)
    BY <1>7 DEF DeletesItem
  <2>2. Fitting(deleteItem(i), {i}, {i}, FALSE)
    BY DeleteItemFits, RestAssumption
  <2> QED
    BY <1>0, <1>1, <2>1, <2>2
<1>8. CASE ChangesCategory(c)
  <2>1. PICK i \in Items, k \in Categories :
          \/ Begin(c, insertItemCategory(i, k), {i}, none, FALSE)
          \/ Begin(c, deleteItemCategory(i, k), {i}, none, FALSE)
    BY <1>8 DEF ChangesCategory
  <2>2. Fitting(insertItemCategory(i, k), {i}, none, FALSE) /\ Fitting(deleteItemCategory(i, k), {i}, none, FALSE)
    BY CategoryListsFit
  <2> HIDE DEF none
  <2> QED
    BY <1>0, <1>1, <2>1, <2>2
<1>9. CASE InsertsFeedback(c)
  <2>1. PICK t \in FeedbackTables, overwrite \in BOOLEAN :
          Begin(c, insertFeedback(t, overwrite), UsersIn(t) \cup ItemsIn(t), none, TRUE)
    BY <1>9 DEF InsertsFeedback
  <2>2. Fitting(insertFeedback(t, overwrite), UsersIn(t) \cup ItemsIn(t), none, TRUE)
    BY NamedInTables, FeedbackListsFit
  <2> HIDE DEF none
  <2> QED
    BY <1>0, <1>1, <2>1, <2>2
<1>10. CASE WritesBack(c)
  <2>1. PICK u \in Users, n \in 0 .. 2 :
          \E answer \in getRecommend([db |-> db, cache |-> cache], u, {}, 2, 0, FALSE, Fallback)
                          \cap [1 .. n -> Items] :
            Begin(c, writeBack(u, answer), {u} \cup {answer[j] : j \in 1 .. n}, none, FALSE)
    BY <1>10 DEF WritesBack
  <2>2. PICK answer \in [1 .. n -> Items] :
          Begin(c, writeBack(u, answer), {u} \cup {answer[j] : j \in 1 .. n}, none, FALSE)
    BY <2>1
  <2>3. n \in Nat
    OBVIOUS
  <2>4. Fitting(writeBack(u, answer), {u} \cup {answer[j] : j \in 1 .. n}, none, FALSE)
    BY <2>3, WriteBackFits
  <2> HIDE DEF none
  <2> QED
    BY <1>0, <1>1, <2>2, <2>4
<1>11. CASE DeletesFeedback(c)
  <2>1. PICK u \in Users, i \in Items, types \in {{}} \cup {{y} : y \in FeedbackTypes} :
          Begin(c, deleteUserItemFeedback(u, i, types), {u, i}, none, FALSE)
    BY <1>11 DEF DeletesFeedback
  <2>2. Fitting(deleteUserItemFeedback(u, i, types), {u, i}, none, FALSE)
    BY DeleteFeedbackFits
  <2> HIDE DEF none
  <2> QED
    BY <1>0, <1>1, <2>1, <2>2
<1> QED
  BY <1>2, <1>3, <1>4, <1>5, <1>6, <1>7, <1>8, <1>9, <1>10, <1>11 DEF Begins

LEMMA TimesKeptByBegin == ASSUME TimesIInv, NEW c \in Clients, Begins(c) PROVE TimesIInv'
<1>1. PICK calls, ids, resets, stamps :
        /\ stamps \in BOOLEAN /\ resets \subseteq ids
        /\ Begin(c, calls, ids, resets, stamps) /\ Fitting(calls, ids, resets, stamps)
  BY BeginsFit DEF BeginsFitting
<1>2. StoresAreSound' /\ RequestsAreSound'
  BY <1>1, RequestBegins DEF TimesIInv
<1>3. TimesAreKept'
  BY <1>1, TimesBegin
<1> QED
  BY <1>2, <1>3 DEF TimesIInv

\* A request fails: nothing is left of it.
LEMMA RequestFails ==
  ASSUME StoresAreSound, RequestsAreSound, NEW c \in Clients, Fails(c)
  PROVE  /\ StoresAreSound' /\ RequestsAreSound'
         /\ todo'[c] = <<>> /\ about'[c] = NoRequest /\ known'[c] = NoneKnown
         /\ \A e \in Clients \ {c} : todo'[e] = todo[e] /\ about'[e] = about[e] /\ known'[e] = known[e]
<1>1. /\ db' = db /\ cache' = cache /\ clock' = clock
      /\ todo' = [todo EXCEPT ![c] = <<>>] /\ known' = [known EXCEPT ![c] = NoneKnown]
      /\ about' = [about EXCEPT ![c] = NoRequest]
  BY DEF Fails
<1>2. /\ todo = [e \in Clients |-> todo[e]] /\ known = [e \in Clients |-> known[e]]
      /\ about = [e \in Clients |-> about[e]]
  BY DEF RequestsAreSound
<1>3. /\ todo' = [e \in Clients |-> todo'[e]] /\ known' = [e \in Clients |-> known'[e]]
      /\ about' = [e \in Clients |-> about'[e]]
      /\ todo'[c] = <<>> /\ about'[c] = NoRequest /\ known'[c] = NoneKnown
      /\ \A e \in Clients \ {c} : todo'[e] = todo[e] /\ about'[e] = about[e] /\ known'[e] = known[e]
  BY <1>1, <1>2
<1>4. StoresAreSound'
  BY <1>1 DEF StoresAreSound
<1>5. RequestIsSound(c)'
  <2>1. /\ about'[c].touches = {} /\ about'[c].resets = {} /\ about'[c].stamps = FALSE
        /\ IsRequest(about'[c])
    BY <1>3, NothingFits DEF NoRequest
  <2>2. ListFits(todo'[c], about'[c].touches, about'[c].resets, about'[c].stamps) /\ DropsNoRow(todo'[c])
    BY <1>3, <2>1, NothingFits, Zenon
  <2> QED
    BY <1>3, <2>1, <2>2, NothingFits DEF RequestIsSound
<1>6. ASSUME NEW e \in Clients \ {c} PROVE RequestIsSound(e)'
  BY <1>3 DEF RequestsAreSound, RequestIsSound, Idle
<1>7. AloneIsAlone'
  <2>1. about'[c].touches = {}
    BY <1>3 DEF NoRequest
  <2> QED
    BY <1>3, <2>1 DEF RequestsAreSound, AloneIsAlone
<1> QED
  BY <1>3, <1>4, <1>5, <1>6, <1>7 DEF RequestsAreSound

LEMMA TimesKeptByFailure == ASSUME TimesIInv, NEW c \in Clients, Fails(c) PROVE TimesIInv'
<1>1. /\ StoresAreSound' /\ RequestsAreSound'
      /\ todo'[c] = <<>> /\ about'[c] = NoRequest
      /\ \A e \in Clients \ {c} : todo'[e] = todo[e] /\ about'[e] = about[e]
  BY RequestFails DEF TimesIInv
<1>2. cache' = cache /\ clock' = clock /\ owed' = owed
  BY DEF Fails
<1>3. ChangesAreKept(c)'
  <2>1. DOMAIN about'[c].changed = {}
    BY <1>1 DEF NoRequest, EmptyTable
  <2>2. ~Is(c, "Set")' /\ ~Is(c, "AddSet")'
    BY <1>1 DEF Is, Idle
  <2> QED
    BY <2>1, <2>2 DEF ChangesAreKept
<1>4. ASSUME NEW e \in Clients \ {c} PROVE ChangesAreKept(e)'
  <2>1. ChangesAreKept(e)
    BY DEF TimesIInv, TimesAreKept
  <2>2. (Is(e, "Set")' <=> Is(e, "Set")) /\ (Is(e, "AddSet")' <=> Is(e, "AddSet"))
    BY <1>1 DEF Is, Idle, NextCall
  <2> QED
    BY <1>1, <1>2, <2>1, <2>2 DEF ChangesAreKept, Covered
<1>5. TimesCoverChanges'
  BY <1>2 DEF TimesIInv, TimesAreKept, TimesCoverChanges
<1> QED
  BY <1>1, <1>2, <1>3, <1>4, <1>5 DEF TimesIInv, TimesAreKept

\* The other components cache documents, and no times.
LEMMA TimesKeptByOthers == ASSUME TimesIInv, OtherCaches PROVE TimesIInv'
<1>1. "values" \in DOMAIN cache
  BY DEF TimesIInv, StoresAreSound
<1>2. cache'.values = cache.values /\ "values" \in DOMAIN cache'
  BY <1>1, OtherCallsKeepTimes DEF OtherCaches
<1>3. UNCHANGED <<db, todo, known, clock, about, owed>>
  BY DEF OtherCaches
<1>4. StoresAreSound' /\ RequestsAreSound'
  BY <1>2, <1>3 DEF TimesIInv, StoresAreSound, RequestsAreSound, RequestIsSound, AloneIsAlone, Idle
<1>5. TimesCoverChanges'
  BY <1>2, <1>3 DEF TimesIInv, TimesAreKept, TimesCoverChanges
<1>6. ASSUME NEW e \in Clients PROVE ChangesAreKept(e)'
  <2>1. ChangesAreKept(e)
    BY DEF TimesIInv, TimesAreKept
  <2>2. (Is(e, "Set")' <=> Is(e, "Set")) /\ (Is(e, "AddSet")' <=> Is(e, "AddSet"))
    BY <1>3 DEF Is, Idle, NextCall
  <2> QED
    BY <1>2, <1>3, <2>1, <2>2 DEF ChangesAreKept, Covered
<1> QED
  BY <1>3, <1>4, <1>5, <1>6 DEF TimesIInv, TimesAreKept

LEMMA TimesKeptByStutter == ASSUME TimesIInv, UNCHANGED serverVars PROVE TimesIInv'
<1>1. UNCHANGED <<db, cache, todo, known, clock, about, owed>>
  BY DEF serverVars
<1> QED
  BY <1>1 DEF TimesIInv, StoresAreSound, RequestsAreSound, RequestIsSound, AloneIsAlone, Idle, TimesAreKept,
              TimesCoverChanges, ChangesAreKept, Is, NextCall

\* Who is in the tables after each call.
LEMMA UsersInserted ==
  ASSUME NEW d, IsStore(d), NEW t
  PROVE  LET e == DB!BatchInsertUsers(d, t)
         IN  IsStore(e) /\ DOMAIN e.users = KeysOf(t) \cup DOMAIN d.users /\ e.items = d.items
             /\ e.feedback = d.feedback
<1> DEFINE x == Over(FirstRows(t), d.users)
<1>1. DB!BatchInsertUsers(d, t) = [d EXCEPT !.users = x]
  BY SameRows DEF DB!BatchInsertUsers
<1>2. DOMAIN x = KeysOf(t) \cup DOMAIN d.users
  BY DEF Over, FirstRows
<1> HIDE DEF x
<1>3. IsStore([d EXCEPT !.users = x]) /\ [d EXCEPT !.users = x].users = x
      /\ [d EXCEPT !.users = x].items = d.items /\ [d EXCEPT !.users = x].feedback = d.feedback
  BY TableChanges
<1> QED
  BY <1>1, <1>2, <1>3

LEMMA ItemsInserted ==
  ASSUME NEW d, IsStore(d), NEW t
  PROVE  LET e == DB!BatchInsertItems(d, t)
         IN  IsStore(e) /\ DOMAIN e.items = KeysOf(t) \cup DOMAIN d.items /\ e.users = d.users
             /\ e.feedback = d.feedback
<1> DEFINE x == Over(FirstRows(t), d.items)
<1>1. DB!BatchInsertItems(d, t) = [d EXCEPT !.items = x]
  BY SameRows DEF DB!BatchInsertItems
<1>2. DOMAIN x = KeysOf(t) \cup DOMAIN d.items
  BY DEF Over, FirstRows
<1> HIDE DEF x
<1>3. IsStore([d EXCEPT !.items = x]) /\ [d EXCEPT !.items = x].items = x
      /\ [d EXCEPT !.items = x].users = d.users /\ [d EXCEPT !.items = x].feedback = d.feedback
  BY TableChanges
<1> QED
  BY <1>1, <1>2, <1>3

LEMMA UsersKnown ==
  ASSUME NEW d, IsStore(d), NEW ids
  PROVE  LET e == DB!InsertMissingUsers(d, ids)
         IN  IsStore(e) /\ DOMAIN e.users = DOMAIN d.users \cup ids /\ e.items = d.items /\ e.feedback = d.feedback
<1> DEFINE x == Over(d.users, [id \in ids |-> BlankUser])
<1>1. DB!InsertMissingUsers(d, ids) = [d EXCEPT !.users = x]
  BY SameRows DEF DB!InsertMissingUsers
<1>2. DOMAIN x = DOMAIN d.users \cup ids
  BY DEF Over
<1> HIDE DEF x
<1>3. IsStore([d EXCEPT !.users = x]) /\ [d EXCEPT !.users = x].users = x
      /\ [d EXCEPT !.users = x].items = d.items /\ [d EXCEPT !.users = x].feedback = d.feedback
  BY TableChanges
<1> QED
  BY <1>1, <1>2, <1>3

LEMMA ItemsKnown ==
  ASSUME NEW d, IsStore(d), NEW ids
  PROVE  LET e == DB!InsertMissingItems(d, ids)
         IN  IsStore(e) /\ DOMAIN e.items = DOMAIN d.items \cup ids /\ e.users = d.users /\ e.feedback = d.feedback
<1> DEFINE x == Over(d.items, [id \in ids |-> BlankItem])
<1>1. DB!InsertMissingItems(d, ids) = [d EXCEPT !.items = x]
  BY SameRows DEF DB!InsertMissingItems
<1>2. DOMAIN x = DOMAIN d.items \cup ids
  BY DEF Over
<1> HIDE DEF x
<1>3. IsStore([d EXCEPT !.items = x]) /\ [d EXCEPT !.items = x].items = x
      /\ [d EXCEPT !.items = x].users = d.users /\ [d EXCEPT !.items = x].feedback = d.feedback
  BY TableChanges
<1> QED
  BY <1>1, <1>2, <1>3

LEMMA UserModified ==
  ASSUME NEW d, IsStore(d), NEW id, NEW p
  PROVE  LET e == DB!ModifyUser(d, id, p)
         IN  IsStore(e) /\ DOMAIN e.users = DOMAIN d.users /\ e.items = d.items /\ e.feedback = d.feedback
<1>1. CASE id \notin DOMAIN d.users
  BY <1>1 DEF DB!ModifyUser
<1>2. CASE id \in DOMAIN d.users
  <2> DEFINE x == [d.users EXCEPT ![id] = Over(p, @)]
  <2>1. DB!ModifyUser(d, id, p) = [d EXCEPT !.users = x]
    BY <1>2, SameRows DEF DB!ModifyUser
  <2>2. DOMAIN x = DOMAIN d.users
    OBVIOUS
  <2> HIDE DEF x
  <2>3. IsStore([d EXCEPT !.users = x]) /\ [d EXCEPT !.users = x].users = x
        /\ [d EXCEPT !.users = x].items = d.items /\ [d EXCEPT !.users = x].feedback = d.feedback
    BY TableChanges
  <2> QED
    BY <2>1, <2>2, <2>3
<1> QED
  BY <1>1, <1>2

LEMMA ItemModified ==
  ASSUME NEW d, IsStore(d), NEW id, NEW p
  PROVE  LET e == DB!ModifyItem(d, id, p)
         IN  IsStore(e) /\ DOMAIN e.items = DOMAIN d.items /\ e.users = d.users /\ e.feedback = d.feedback
<1>1. CASE id \notin DOMAIN d.items
  BY <1>1 DEF DB!ModifyItem
<1>2. CASE id \in DOMAIN d.items
  <2> DEFINE x == [d.items EXCEPT ![id] = Over(p, @)]
  <2>1. DB!ModifyItem(d, id, p) = [d EXCEPT !.items = x]
    BY <1>2, SameRows DEF DB!ModifyItem
  <2>2. DOMAIN x = DOMAIN d.items
    OBVIOUS
  <2> HIDE DEF x
  <2>3. IsStore([d EXCEPT !.items = x]) /\ [d EXCEPT !.items = x].items = x
        /\ [d EXCEPT !.items = x].users = d.users /\ [d EXCEPT !.items = x].feedback = d.feedback
    BY TableChanges
  <2> QED
    BY <2>1, <2>2, <2>3
<1> QED
  BY <1>1, <1>2

LEMMA FeedbackInserted ==
  ASSUME NEW d, IsStore(d), NEW t, NEW us, NEW is, NEW overwrite
  PROVE  LET e == DB!InsertFeedback(d, t, us, is, overwrite)
         IN  /\ IsStore(e) /\ e.users = d.users /\ e.items = d.items
             /\ DOMAIN e.feedback = DOMAIN d.feedback \cup {k \in KeysOf(t) : k.user \in us /\ k.item \in is}
<1> DEFINE K == {k \in KeysOf(t) : k.user \in us /\ k.item \in is}
           new == [k \in K |-> FirstRows(t)[k]]
           x == IF overwrite THEN Over(new, d.feedback) ELSE Over(d.feedback, new)
<1>1. DB!InsertFeedback(d, t, us, is, overwrite) = [d EXCEPT !.feedback = x]
  BY SameRows DEF DB!InsertFeedback
<1>2. DOMAIN x = DOMAIN d.feedback \cup K
  <2>1. DOMAIN new = K
    OBVIOUS
  <2> HIDE DEF new, K
  <2> QED
    BY <2>1 DEF Over
<1> HIDE DEF x
<1>3. IsStore([d EXCEPT !.feedback = x]) /\ [d EXCEPT !.feedback = x].feedback = x
      /\ [d EXCEPT !.feedback = x].users = d.users /\ [d EXCEPT !.feedback = x].items = d.items
  BY TableChanges
<1> QED
  BY <1>1, <1>2, <1>3

\* Who is left in the tables after each deletion.
LEMMA UserDropped ==
  ASSUME NEW d, IsStore(d), NEW u
  PROVE  LET e == DB!DeleteUserRow(d, u)
         IN  /\ IsStore(e) /\ e.items = d.items /\ e.feedback = d.feedback
             /\ DOMAIN e.users = DOMAIN d.users \ {u}
<1> DEFINE x == Without(d.users, {u})
<1>1. DB!DeleteUserRow(d, u) = [d EXCEPT !.users = x]
  BY SameRows DEF DB!DeleteUserRow
<1>2. DOMAIN x = DOMAIN d.users \ {u}
  BY DEF Without
<1> HIDE DEF x
<1>3. IsStore([d EXCEPT !.users = x]) /\ [d EXCEPT !.users = x].users = x
      /\ [d EXCEPT !.users = x].items = d.items /\ [d EXCEPT !.users = x].feedback = d.feedback
  BY TableChanges
<1> QED
  BY <1>1, <1>2, <1>3

LEMMA ItemDropped ==
  ASSUME NEW d, IsStore(d), NEW i
  PROVE  LET e == DB!DeleteItemRow(d, i)
         IN  /\ IsStore(e) /\ e.users = d.users /\ e.feedback = d.feedback
             /\ DOMAIN e.items = DOMAIN d.items \ {i}
<1> DEFINE x == Without(d.items, {i})
<1>1. DB!DeleteItemRow(d, i) = [d EXCEPT !.items = x]
  BY SameRows DEF DB!DeleteItemRow
<1>2. DOMAIN x = DOMAIN d.items \ {i}
  BY DEF Without
<1> HIDE DEF x
<1>3. IsStore([d EXCEPT !.items = x]) /\ [d EXCEPT !.items = x].items = x
      /\ [d EXCEPT !.items = x].users = d.users /\ [d EXCEPT !.items = x].feedback = d.feedback
  BY TableChanges
<1> QED
  BY <1>1, <1>2, <1>3

LEMMA UserFeedbackDropped ==
  ASSUME NEW d, IsStore(d), NEW u
  PROVE  LET e == DB!DeleteUserFeedback(d, u)
         IN  /\ IsStore(e) /\ e.users = d.users /\ e.items = d.items
             /\ DOMAIN e.feedback = {k \in DOMAIN d.feedback : k.user # u}
<1> DEFINE x == Without(d.feedback, {k \in DOMAIN d.feedback : k.user = u})
<1>1. DB!DeleteUserFeedback(d, u) = [d EXCEPT !.feedback = x]
  BY SameRows DEF DB!DeleteUserFeedback
<1>2. DOMAIN x = {k \in DOMAIN d.feedback : k.user # u}
  BY DEF Without
<1> HIDE DEF x
<1>3. IsStore([d EXCEPT !.feedback = x]) /\ [d EXCEPT !.feedback = x].feedback = x
      /\ [d EXCEPT !.feedback = x].users = d.users /\ [d EXCEPT !.feedback = x].items = d.items
  BY TableChanges
<1> QED
  BY <1>1, <1>2, <1>3

LEMMA ItemFeedbackDropped ==
  ASSUME NEW d, IsStore(d), NEW i
  PROVE  LET e == DB!DeleteItemFeedback(d, i)
         IN  /\ IsStore(e) /\ e.users = d.users /\ e.items = d.items
             /\ DOMAIN e.feedback = {k \in DOMAIN d.feedback : k.item # i}
<1> DEFINE x == Without(d.feedback, {k \in DOMAIN d.feedback : k.item = i})
<1>1. DB!DeleteItemFeedback(d, i) = [d EXCEPT !.feedback = x]
  BY SameRows DEF DB!DeleteItemFeedback
<1>2. DOMAIN x = {k \in DOMAIN d.feedback : k.item # i}
  BY DEF Without
<1> HIDE DEF x
<1>3. IsStore([d EXCEPT !.feedback = x]) /\ [d EXCEPT !.feedback = x].feedback = x
      /\ [d EXCEPT !.feedback = x].users = d.users /\ [d EXCEPT !.feedback = x].items = d.items
  BY TableChanges
<1> QED
  BY <1>1, <1>2, <1>3

LEMMA PairDropped ==
  ASSUME NEW d, IsStore(d), NEW u, NEW i, NEW types
  PROVE  LET e == DB!DeleteUserItemFeedback(d, u, i, types)
         IN  /\ IsStore(e) /\ e.users = d.users /\ e.items = d.items
             /\ DOMAIN e.feedback \subseteq DOMAIN d.feedback
<1> DEFINE x == Without(d.feedback, DB!GetUserItemFeedback(d, u, i, types))
<1>1. DB!DeleteUserItemFeedback(d, u, i, types) = [d EXCEPT !.feedback = x]
  BY SameRows DEF DB!DeleteUserItemFeedback
<1>2. DOMAIN x \subseteq DOMAIN d.feedback
  BY DEF Without
<1> HIDE DEF x
<1>3. IsStore([d EXCEPT !.feedback = x]) /\ [d EXCEPT !.feedback = x].feedback = x
      /\ [d EXCEPT !.feedback = x].users = d.users /\ [d EXCEPT !.feedback = x].items = d.items
  BY TableChanges
<1> QED
  BY <1>1, <1>2, <1>3

\* The stores at the beginning.
LEMMA FilledIsStore ==
  ASSUME NEW us, NEW is, NEW fs
  PROVE  LET d == Filled(us, is, fs)
         IN  /\ IsStore(d)
             /\ DOMAIN d.users = KeysOf(us) \cup UsersIn(fs) /\ DOMAIN d.items = KeysOf(is) \cup ItemsIn(fs)
             /\ DOMAIN d.feedback \subseteq KeysOf(fs)
<1> DEFINE d0 == DB!EmptyStore
           d1 == DB!BatchInsertUsers(d0, us)
           d2 == DB!BatchInsertItems(d1, is)
           d3 == DB!InsertMissingUsers(d2, UsersIn(fs))
           d4 == DB!InsertMissingItems(d3, ItemsIn(fs))
           us5 == UsersIn(fs) \cap DOMAIN d4.users
           is5 == ItemsIn(fs) \cap DOMAIN d4.items
           yes == TRUE
           d5 == DB!InsertFeedback(d4, fs, us5, is5, yes)
<1>1. IsStore(d0) /\ DOMAIN d0.users = {} /\ DOMAIN d0.items = {} /\ DOMAIN d0.feedback = {}
  <2>1. DB!EmptyTable = EmptyTable /\ DOMAIN EmptyTable = {}
    BY SameRows DEF EmptyTable
  <2>2. d0 = [users |-> DB!EmptyTable, items |-> DB!EmptyTable, feedback |-> DB!EmptyTable]
    BY DEF DB!EmptyStore
  <2> HIDE DEF d0
  <2> QED
    BY <2>1, <2>2 DEF IsStore
<1> HIDE DEF d0
<1>2. /\ IsStore(d1) /\ DOMAIN d1.users = KeysOf(us)
      /\ d1.items = d0.items /\ d1.feedback = d0.feedback
  BY <1>1, UsersInserted
<1> HIDE DEF d1
<1>3. /\ IsStore(d2) /\ d2.users = d1.users /\ DOMAIN d2.items = KeysOf(is)
      /\ d2.feedback = d1.feedback
  BY <1>1, <1>2, ItemsInserted
<1> HIDE DEF d2
<1>4. /\ IsStore(d3) /\ DOMAIN d3.users = KeysOf(us) \cup UsersIn(fs)
      /\ d3.items = d2.items /\ d3.feedback = d2.feedback
  BY <1>2, <1>3, UsersKnown
<1> HIDE DEF d3
<1>5. /\ IsStore(d4) /\ d4.users = d3.users /\ DOMAIN d4.items = KeysOf(is) \cup ItemsIn(fs)
      /\ d4.feedback = d3.feedback
  BY <1>3, <1>4, ItemsKnown
<1> HIDE DEF d4
<1>6. /\ IsStore(d5) /\ d5.users = d4.users /\ d5.items = d4.items
      /\ DOMAIN d5.feedback \subseteq KeysOf(fs)
  <2>1. DOMAIN d4.feedback = {}
    BY <1>1, <1>2, <1>3, <1>4, <1>5
  <2>2. /\ IsStore(d5) /\ d5.users = d4.users /\ d5.items = d4.items
        /\ DOMAIN d5.feedback = DOMAIN d4.feedback \cup {k \in KeysOf(fs) : k.user \in us5 /\ k.item \in is5}
    <3> HIDE DEF us5, is5, yes
    <3> QED
      BY <1>5, FeedbackInserted
  <2> HIDE DEF d5
  <2> QED
    BY <2>1, <2>2
<1>7. Filled(us, is, fs) = d5
  BY SameRows DEF Filled, DB!BatchInsertFeedback, UsersIn, ItemsIn, d4, d3, d2, d1, d0
<1> HIDE DEF d5
<1> QED
  BY <1>4, <1>5, <1>6, <1>7

LEMMA RequestsBegin == ASSUME ServerInit PROVE StoresAreSound /\ RequestsAreSound
<1>1. PICK us \in UserTables, is \in ItemTables, fs \in FeedbackTables :
        db = Filled(us, is, fs) /\ cache = CacheOf(is)
  BY DEF ServerInit
<1>2. StoresAreSound
  <2>1. IsStore(db)
    BY <1>1, FilledIsStore
  <2>2. "values" \in DOMAIN cache
    BY <1>1 DEF CacheOf, EmptyCache
  <2> QED
    BY <2>1, <2>2 DEF ServerInit, StoresAreSound, IsStore
<1>3. /\ todo = [c \in Clients |-> <<>>] /\ known = [c \in Clients |-> NoneKnown]
      /\ about = [c \in Clients |-> NoRequest]
  BY DEF ServerInit
<1>4. ASSUME NEW c \in Clients PROVE RequestIsSound(c)
  <2>1. todo[c] = <<>> /\ about[c] = NoRequest /\ known[c] = NoneKnown
    BY <1>3
  <2>2. /\ about[c].touches = {} /\ about[c].resets = {} /\ about[c].stamps = FALSE
        /\ IsRequest(about[c])
    BY <2>1, NothingFits DEF NoRequest
  <2>3. ListFits(todo[c], about[c].touches, about[c].resets, about[c].stamps) /\ DropsNoRow(todo[c])
    BY <2>1, <2>2, NothingFits, Zenon
  <2> QED
    BY <2>1, <2>2, <2>3, NothingFits DEF RequestIsSound
<1>5. AloneIsAlone
  BY <1>3 DEF AloneIsAlone, NoRequest
<1> QED
  BY <1>2, <1>3, <1>4, <1>5 DEF RequestsAreSound

\* Once a request that sets the time of a user or an item has run by itself,
\* the time is never earlier than its change, whatever overlaps and fails
\* later (the users and items that workers and the master renew).
THEOREM TimesAreCovered == ServerSpec => []TimesCoverChanges
<1>1. ServerInit => TimesIInv
  <2> SUFFICES ASSUME ServerInit PROVE TimesIInv
    OBVIOUS
  <2>1. StoresAreSound /\ RequestsAreSound
    BY RequestsBegin
  <2>2. ASSUME NEW c \in Clients PROVE ChangesAreKept(c)
    <3>1. todo[c] = <<>> /\ DOMAIN about[c].changed = {}
      BY DEF ServerInit, NoRequest, EmptyTable
    <3> QED
      BY <3>1 DEF ChangesAreKept, Is, Idle
  <2>3. /\ DOMAIN owed = Users \cup Items /\ \A id \in Users \cup Items : owed[id] = 0
        /\ clock = 1
    BY DEF ServerInit
  <2> QED
    BY <2>1, <2>2, <2>3 DEF TimesIInv, TimesAreKept, TimesCoverChanges
<1>2. TimesIInv /\ [ServerNext]_serverVars => TimesIInv'
  BY TimesKeptByBegin, TimesKeptByCalls, TimesKeptByFailure, TimesKeptByOthers, TimesKeptByStutter DEF ServerNext
<1>3. TimesIInv => TimesCoverChanges
  BY DEF TimesIInv, TimesAreKept
<1> QED
  BY <1>1, <1>2, <1>3, PTL DEF ServerSpec

----------------------------------------------------------------------------
(* Feedback of unknown users and items *)

Orphaned(d, side, id) == id \notin DOMAIN d[side] /\ \E k \in DOMAIN d.feedback : Party(k, side) = id

\* What a call may do to the tables: feedback is added of what is known, and
\* a row is dropped only where its feedback is dropped after it.
AddsKnown(c, d) ==
  \A k \in DOMAIN d.feedback \ DOMAIN db.feedback :
    /\ k.user \in Users /\ k.item \in Items /\ about[c].resets = {}
    /\ \A side \in Sides : /\ Party(k, side) \in about[c].touches \cap known[c][side]
                           /\ DOMAIN d[side] = DOMAIN db[side]
DropsAhead(c, d, left) ==
  \A side \in Sides : \A id \in DOMAIN db[side] \ DOMAIN d[side] : id \in about[c].touches /\ Mends(left, side, id)
MendsFirst(c, d, left) ==
  \A side \in Sides : \A id : Mends(todo[c], side, id) /\ Orphaned(d, side, id) => Mends(left, side, id)
KnowsMore(c, d, knows) ==
  \A side \in Sides : \A id \in knows[side] : id \in DOMAIN d[side]
      \/ (id \in known[c][side] /\ id \notin DOMAIN db[side])

LEMMA OldAndNewOrphans ==
  ASSUME OrphansIInv, NEW c \in Clients, NEW d, NEW left, AddsKnown(c, d), DropsAhead(c, d, left),
         NEW side \in Sides, NEW k \in DOMAIN d.feedback, Party(k, side) \notin DOMAIN d[side]
  PROVE  LET id == Party(k, side)
         IN  \/ Orphaned(db, side, id)
             \/ id \in about[c].touches /\ id \in disturbed /\ about[c].resets = {}
             \/ id \in about[c].touches /\ Mends(left, side, id)
<1> DEFINE id == Party(k, side)
<1>1. CASE k \in DOMAIN db.feedback
  <2>1. CASE id \in DOMAIN db[side]
    BY <2>1 DEF DropsAhead
  <2>2. CASE id \notin DOMAIN db[side]
    BY <1>1, <2>2 DEF Orphaned
  <2> QED
    BY <2>1, <2>2
<1>2. CASE k \notin DOMAIN db.feedback
  <2>1. id \in about[c].touches \cap known[c][side] /\ DOMAIN d[side] = DOMAIN db[side] /\ about[c].resets = {}
    BY <1>2 DEF AddsKnown
  <2>2. id \in disturbed
    BY <2>1 DEF OrphansIInv, KnownAreThere
  <2> QED
    BY <2>1, <2>2
<1> QED
  BY <1>1, <1>2

\* A call keeps the orphans in sight.
LEMMA OrphansCall ==
  ASSUME OrphansIInv, NEW c \in Clients, NEW d, NEW k, NEW left, NEW knows, Made(c, d, k, left, knows),
         IsStore(d), "values" \in DOMAIN k, Leaves(c, left, knows),
         AddsKnown(c, d), DropsAhead(c, d, left), MendsFirst(c, d, left), KnowsMore(c, d, knows)
  PROVE  OrphansIInv'
<1>1. AfterCall(c, d, k, left, knows)
  BY AboutCalled DEF OrphansIInv
<1>2. StoresAreSound' /\ RequestsAreSound'
  BY CallMade DEF OrphansIInv, IsStore
<1>3. FeedbackIsNamed'
  BY <1>1 DEF OrphansIInv, FeedbackIsNamed, AddsKnown, AfterCall
<1>4. disturbed' = IF left = <<>> /\ about[c].alone THEN disturbed \ about[c].resets ELSE disturbed
  BY DEF Made
<1>5. about[c].resets \subseteq about[c].touches
  BY DEF OrphansIInv, RequestsAreSound, RequestIsSound, IsRequest
<1>6. \A e \in Clients \ {c} : about'[e] = about[e] /\ todo'[e] = todo[e] /\ known'[e] = known[e]
  BY <1>1 DEF AfterCall
<1>7. /\ todo'[c] = left
      /\ left = <<>> => about'[c].touches = {} /\ known'[c] = NoneKnown
      /\ left # <<>> => /\ about'[c].touches = about[c].touches /\ about'[c].resets = about[c].resets
                        /\ about'[c].alone = about[c].alone /\ known'[c] = knows
  BY <1>1 DEF AfterCall, GoesOn, NoRequest
\* What other requests touch is no less disturbed.
<1>8. ASSUME NEW e \in Clients \ {c}, NEW id \in about[e].touches PROVE id \in disturbed => id \in disturbed'
  BY <1>4, <1>5, <1>8 DEF OrphansIInv, RequestsAreSound, AloneIsAlone
<1>9. ASSUME NEW e \in Clients \ {c}, NEW id \in about[e].touches \cap about[c].touches
      PROVE  id \in disturbed' /\ ~about[e].alone
  <2>1. id \in disturbed /\ ~about[e].alone
    BY <1>9 DEF OrphansIInv, OverlapsDisturb, RequestsAreSound, AloneIsAlone
  <2> QED
    BY <1>8, <2>1
<1>10. OverlapsDisturb'
  <2> SUFFICES ASSUME NEW e \in Clients, NEW f \in Clients, e # f, NEW id \in about'[e].touches \cap about'[f].touches
               PROVE  id \in disturbed'
    BY DEF OverlapsDisturb
  <2>1. about'[e].touches \subseteq about[e].touches /\ about'[f].touches \subseteq about[f].touches
    BY <1>6, <1>7
  <2>2. CASE e = c
    BY <1>9, <2>1, <2>2
  <2>3. CASE f = c
    BY <1>9, <2>1, <2>3
  <2>4. CASE e # c /\ f # c
    BY <1>8, <2>1, <2>4 DEF OrphansIInv, OverlapsDisturb
  <2> QED
    BY <2>2, <2>3, <2>4
<1>11. OrphansAreMended'
  <2> SUFFICES ASSUME NEW side \in Sides, NEW h \in DOMAIN d.feedback, Party(h, side) \notin DOMAIN d[side]
               PROVE  /\ Party(h, side) \in disturbed' \/ \E e \in Clients : Party(h, side) \in about'[e].touches
                      /\ \A e \in Clients : AnswersFor(e, Party(h, side))' => Mends(todo'[e], side, Party(h, side))
    BY <1>1 DEF OrphansAreMended, AfterCall, Mends
  <2> DEFINE id == Party(h, side)
  <2>1. \/ Orphaned(db, side, id)
        \/ id \in about[c].touches /\ id \in disturbed /\ about[c].resets = {}
        \/ id \in about[c].touches /\ Mends(left, side, id)
    BY OldAndNewOrphans
  <2>2. Orphaned(d, side, id)
    BY DEF Orphaned
  <2>3. Orphaned(db, side, id) =>
          /\ id \in disturbed \/ \E e \in Clients : id \in about[e].touches
          /\ \A e \in Clients : AnswersFor(e, id) => Mends(todo[e], side, id)
    BY DEF OrphansIInv, OrphansAreMended, Orphaned
  <2>4. ~Mends(<<>>, side, id)
    <3>1. DOMAIN <<>> = {}
      OBVIOUS
    <3> QED
      BY <3>1 DEF Mends
  <2> HIDE DEF id
  <2>5. Mends(todo[c], side, id) => Mends(left, side, id)
    BY <2>2 DEF MendsFirst
  <2>6. id \in disturbed' \/ \E e \in Clients : id \in about'[e].touches
    <3>1. CASE left # <<>>
      BY <1>4, <1>6, <1>7, <2>1, <2>3, <3>1
    <3>2. CASE left = <<>>
      <4>1. ~AnswersFor(c, id) \/ ~Orphaned(db, side, id)
        BY <2>3, <2>4, <2>5, <3>2
      <4>2. CASE Orphaned(db, side, id)
        BY <1>4, <1>5, <1>6, <2>3, <4>1, <4>2 DEF AnswersFor
      <4>3. CASE ~Orphaned(db, side, id)
        BY <1>4, <2>1, <2>4, <3>2, <4>3
      <4> QED
        BY <4>2, <4>3
    <3> QED
      BY <3>1, <3>2
  <2>7. ASSUME NEW e \in Clients, AnswersFor(e, id)' PROVE Mends(todo'[e], side, id)
    <3>0. id \in about'[e].touches /\ (id \notin disturbed' \/ (about'[e].alone /\ id \in about'[e].resets))
      BY <2>7 DEF AnswersFor
    <3>1. CASE e = c
      <4>1. left # <<>>
        BY <1>7, <3>0, <3>1
      <4>2. AnswersFor(c, id)
        BY <1>4, <1>7, <3>0, <3>1, <4>1 DEF AnswersFor
      <4>3. Mends(left, side, id)
        BY <2>1, <2>3, <2>5, <4>2 DEF AnswersFor
      <4> QED
        BY <1>7, <3>1, <4>3
    <3>2. CASE e # c
      <4>1. about'[e] = about[e] /\ todo'[e] = todo[e] /\ id \in about[e].touches
        BY <1>6, <3>0, <3>2
      <4>2. AnswersFor(e, id)
        BY <1>8, <3>0, <3>2, <4>1 DEF AnswersFor
      <4>3. id \notin about[c].touches
        BY <1>9, <3>0, <3>2, <4>1
      <4> QED
        BY <2>1, <2>3, <4>1, <4>2, <4>3
    <3> QED
      BY <3>1, <3>2
  <2> QED
    BY <2>6, <2>7 DEF id
<1>12. KnownAreThere'
  <2> SUFFICES ASSUME NEW side \in Sides, NEW e \in Clients, NEW id \in known'[e][side], id \in about'[e].touches
               PROVE  id \in disturbed' \cup DOMAIN d[side]
    BY <1>1 DEF KnownAreThere, AfterCall
  <2>1. CASE e = c
    <3>1. left # <<>>
      BY <1>7, <2>1
    <3>2. id \in DOMAIN d[side] \/ (id \in known[c][side] /\ id \notin DOMAIN db[side])
      BY <1>7, <2>1, <3>1 DEF KnowsMore
    <3>3. id \in about[c].touches
      BY <1>7, <2>1, <3>1
    <3> QED
      BY <1>4, <3>1, <3>2, <3>3 DEF OrphansIInv, KnownAreThere
  <2>2. CASE e # c
    <3>1. id \in known[e][side] /\ id \in about[e].touches
      BY <1>6, <2>2
    <3>2. id \in disturbed \cup DOMAIN db[side]
      BY <3>1 DEF OrphansIInv, KnownAreThere
    <3>3. id \in DOMAIN db[side] \ DOMAIN d[side] => id \in about[c].touches
      BY DEF DropsAhead
    <3> QED
      BY <1>8, <1>9, <2>2, <3>1, <3>2, <3>3
  <2> QED
    BY <2>1, <2>2
<1> QED
  BY <1>2, <1>3, <1>10, <1>11, <1>12 DEF OrphansIInv

\* The call that makes a user or an item known, or takes its feedback.
MendsNow(call, side, id) ==
  \/ side = "users" /\ call.call = "BatchInsertUsers" /\ id \in KeysOf(call.users)
  \/ side = "users" /\ call.call = "DeleteUserFeedback" /\ id = call.of
  \/ side = "items" /\ call.call = "BatchInsertItems" /\ id \in KeysOf(call.items)
  \/ side = "items" /\ call.call = "DeleteItemFeedback" /\ id = call.of

LEMMA MendsNowOrLater ==
  ASSUME RequestsAreSound, NEW c \in Clients, ~Idle(c), NEW side, NEW id, Mends(todo[c], side, id)
  PROVE  MendsNow(NextCall(c), side, id) \/ Mends(Tail(todo[c]), side, id)
<1>1. PICK q \in DOMAIN todo[c] : MendsNow(todo[c][q], side, id)
  BY DEF Mends, MendsNow
<1>2. NextCall(c) = todo[c][1] /\ IsSequence(todo[c]) /\ todo[c] # <<>>
  BY HeadsOf DEF ListFits, Idle
<1>3. CASE q = 1
  BY <1>1, <1>2, <1>3
<1>4. CASE q # 1
  <2>1. q - 1 \in DOMAIN Tail(todo[c]) /\ Tail(todo[c])[q - 1] = todo[c][q]
    BY <1>2, <1>4, TailOfList
  <2> QED
    BY <1>1, <2>1 DEF Mends, MendsNow
<1> QED
  BY <1>3, <1>4

\* A call that drops no row and adds no feedback.
LEMMA OrphansGrowth ==
  ASSUME OrphansIInv, NEW c \in Clients, ~Idle(c), NextCall(c).call # "Now",
         NEW d, NEW k, NEW knows, Made(c, d, k, Tail(todo[c]), knows),
         IsStore(d), "values" \in DOMAIN k,
         knows = [users |-> knows.users, items |-> knows.items], knows = known[c] \/ DropsNoRow(todo[c]),
         DOMAIN d.feedback \subseteq DOMAIN db.feedback,
         \A side \in Sides : DOMAIN db[side] \subseteq DOMAIN d[side],
         \A side \in Sides : \A id \in knows[side] : id \in DOMAIN d[side] \/ id \in known[c][side],
         \A side \in Sides : \A id : MendsNow(NextCall(c), side, id) => ~Orphaned(d, side, id)
  PROVE  OrphansIInv'
<1>1. Leaves(c, Tail(todo[c]), knows)
  BY ListGoesOn DEF OrphansIInv
<1>2. AddsKnown(c, d) /\ DropsAhead(c, d, Tail(todo[c]))
  BY DEF AddsKnown, DropsAhead
<1>3. KnowsMore(c, d, knows)
  BY DEF KnowsMore
<1>4. MendsFirst(c, d, Tail(todo[c]))
  BY MendsNowOrLater DEF MendsFirst, OrphansIInv
<1> QED
  BY <1>1, <1>2, <1>3, <1>4, OrphansCall

\* A call that mends nothing, and drops nothing.
LEMMA OrphansUntouched ==
  ASSUME OrphansIInv, NEW c \in Clients, ~Idle(c),
         NextCall(c).call \notin {"Now", "BatchInsertUsers", "BatchInsertItems", "DeleteUserFeedback",
             "DeleteItemFeedback"},
         NEW d, NEW k, Made(c, d, k, Tail(todo[c]), known[c]), IsStore(d), "values" \in DOMAIN k,
         DOMAIN d.feedback \subseteq DOMAIN db.feedback,
         DOMAIN d.users = DOMAIN db.users, DOMAIN d.items = DOMAIN db.items
  PROVE  OrphansIInv'
<1>1. known[c] = [users |-> known[c].users, items |-> known[c].items]
  BY DEF OrphansIInv, RequestsAreSound, RequestIsSound
<1>2. \A side \in Sides : DOMAIN db[side] \subseteq DOMAIN d[side]
  BY DEF Sides
<1>3. \A side, id : ~MendsNow(NextCall(c), side, id)
  BY DEF MendsNow
<1> QED
  BY <1>1, <1>2, <1>3, OrphansGrowth

\* Rows are inserted, or feedback is taken away.
LEMMA OrphansMended ==
  ASSUME OrphansIInv, NEW c \in Clients,
         BatchInsertUsers(c) \/ BatchInsertItems(c) \/ DeleteUserFeedback(c) \/ DeleteItemFeedback(c)
  PROVE  OrphansIInv'
<1>1. IsStore(db) /\ "values" \in DOMAIN cache
  BY DEF OrphansIInv, StoresAreSound, IsStore
<1>2. known[c] = [users |-> known[c].users, items |-> known[c].items]
  BY DEF OrphansIInv, RequestsAreSound, RequestIsSound
<1>3. CASE BatchInsertUsers(c)
  <2> DEFINE t == NextCall(c).users
             d == DB!BatchInsertUsers(db, t)
  <2>1. ~Idle(c) /\ NextCall(c).call = "BatchInsertUsers" /\ Made(c, d, cache, Tail(todo[c]), known[c])
    BY <1>3 DEF BatchInsertUsers, Is, DataCall
  <2>2. /\ IsStore(d) /\ DOMAIN d.users = KeysOf(t) \cup DOMAIN db.users
        /\ d.items = db.items /\ d.feedback = db.feedback
    BY <1>1, UsersInserted
  <2> HIDE DEF d
  <2>3. \A side \in Sides : DOMAIN db[side] \subseteq DOMAIN d[side]
    BY <2>2 DEF Sides
  <2>4. \A side, id : MendsNow(NextCall(c), side, id) => ~Orphaned(d, side, id)
    BY <2>1, <2>2 DEF MendsNow, Orphaned
  <2> QED
    BY <1>1, <1>2, <2>1, <2>2, <2>3, <2>4, OrphansGrowth
<1>4. CASE BatchInsertItems(c)
  <2> DEFINE t == NextCall(c).items
             d == DB!BatchInsertItems(db, t)
  <2>1. ~Idle(c) /\ NextCall(c).call = "BatchInsertItems" /\ Made(c, d, cache, Tail(todo[c]), known[c])
    BY <1>4 DEF BatchInsertItems, Is, DataCall
  <2>2. /\ IsStore(d) /\ DOMAIN d.items = KeysOf(t) \cup DOMAIN db.items
        /\ d.users = db.users /\ d.feedback = db.feedback
    BY <1>1, ItemsInserted
  <2> HIDE DEF d
  <2>3. \A side \in Sides : DOMAIN db[side] \subseteq DOMAIN d[side]
    BY <2>2 DEF Sides
  <2>4. \A side, id : MendsNow(NextCall(c), side, id) => ~Orphaned(d, side, id)
    BY <2>1, <2>2 DEF MendsNow, Orphaned
  <2> QED
    BY <1>1, <1>2, <2>1, <2>2, <2>3, <2>4, OrphansGrowth
<1>5. CASE DeleteUserFeedback(c)
  <2> DEFINE u == NextCall(c).of
             d == DB!DeleteUserFeedback(db, u)
  <2>1. ~Idle(c) /\ NextCall(c).call = "DeleteUserFeedback" /\ Made(c, d, cache, Tail(todo[c]), known[c])
    BY <1>5 DEF DeleteUserFeedback, Is, DataCall
  <2>3. /\ IsStore(d) /\ d.users = db.users /\ d.items = db.items
        /\ DOMAIN d.feedback = {k \in DOMAIN db.feedback : k.user # u}
    BY <1>1, UserFeedbackDropped
  <2> HIDE DEF d
  <2>4. \A side \in Sides : DOMAIN db[side] \subseteq DOMAIN d[side]
    BY <2>3 DEF Sides
  <2>5. \A side, id : MendsNow(NextCall(c), side, id) => ~Orphaned(d, side, id)
    BY <2>1, <2>3 DEF MendsNow, Orphaned, Party
  <2> QED
    BY <1>1, <1>2, <2>1, <2>3, <2>4, <2>5, OrphansGrowth
<1>6. CASE DeleteItemFeedback(c)
  <2> DEFINE i == NextCall(c).of
             d == DB!DeleteItemFeedback(db, i)
  <2>1. ~Idle(c) /\ NextCall(c).call = "DeleteItemFeedback" /\ Made(c, d, cache, Tail(todo[c]), known[c])
    BY <1>6 DEF DeleteItemFeedback, Is, DataCall
  <2>3. /\ IsStore(d) /\ d.users = db.users /\ d.items = db.items
        /\ DOMAIN d.feedback = {k \in DOMAIN db.feedback : k.item # i}
    BY <1>1, ItemFeedbackDropped
  <2> HIDE DEF d
  <2>4. \A side \in Sides : DOMAIN db[side] \subseteq DOMAIN d[side]
    BY <2>3 DEF Sides
  <2>5. \A side, id : MendsNow(NextCall(c), side, id) => ~Orphaned(d, side, id)
    BY <2>1, <2>3 DEF MendsNow, Orphaned, Party
  <2> QED
    BY <1>1, <1>2, <2>1, <2>3, <2>4, <2>5, OrphansGrowth
<1> QED
  BY <1>3, <1>4, <1>5, <1>6

\* A row is deleted; its feedback is next.
LEMMA OrphansMade ==
  ASSUME OrphansIInv, NEW c \in Clients, DeleteUserRow(c) \/ DeleteItemRow(c)
  PROVE  OrphansIInv'
<1>1. IsStore(db) /\ "values" \in DOMAIN cache /\ RequestsAreSound
  BY DEF OrphansIInv, StoresAreSound, IsStore
<1> DEFINE id == NextCall(c).dropped
           s == todo[c]
<1>2. ~Idle(c) /\ NextCall(c).call \in {"DeleteUserRow", "DeleteItemRow"}
  BY DEF DeleteUserRow, DeleteItemRow, Is
<1>3. /\ NextCall(c) = s[1] /\ 1 \in DOMAIN s /\ s # <<>>
      /\ ListFits(s, about[c].touches, about[c].resets, about[c].stamps)
  BY <1>1, <1>2, HeadsOf DEF Idle
<1>4. known[c] = NoneKnown
  BY <1>1, <1>2, <1>3 DEF RequestsAreSound, RequestIsSound, DropsNoRow
<1>5. id \in about[c].touches
  BY <1>1, <1>2, OwnNextCall DEF OwnCall
<1>6. /\ s[1].call = "DeleteUserRow" => 2 \in DOMAIN s /\ s[2] = DropUserFeedback(id)
      /\ s[1].call = "DeleteItemRow" => 2 \in DOMAIN s /\ s[2] = DropItemFeedback(id)
  BY <1>3 DEF ListFits, Follows
<1>7. 2 \in DOMAIN s => 1 \in DOMAIN Tail(s) /\ Tail(s)[1] = s[2]
  <2>1. \A q \in DOMAIN s : q # 1 => q - 1 \in DOMAIN Tail(s) /\ Tail(s)[q - 1] = s[q]
    BY <1>3, TailOfList DEF ListFits
  <2> QED
    BY <2>1
<1>8. /\ s[1].call = "DeleteUserRow" => Mends(Tail(s), "users", id)
      /\ s[1].call = "DeleteItemRow" => Mends(Tail(s), "items", id)
  <2>1. \A x : /\ DropUserFeedback(x).call = "DeleteUserFeedback" /\ DropUserFeedback(x).of = x
              /\ DropItemFeedback(x).call = "DeleteItemFeedback" /\ DropItemFeedback(x).of = x
    BY DEF DropUserFeedback, DropItemFeedback
  <2> DEFINE t == Tail(s)
             r == s[1]
  <2>2. /\ r.call = "DeleteUserRow" => 1 \in DOMAIN t /\ t[1].call = "DeleteUserFeedback" /\ t[1].of = id
        /\ r.call = "DeleteItemRow" => 1 \in DOMAIN t /\ t[1].call = "DeleteItemFeedback" /\ t[1].of = id
    BY <1>6, <1>7, <2>1
  <2> HIDE DEF t, r, id
  <2>3. /\ r.call = "DeleteUserRow" => Mends(t, "users", id)
        /\ r.call = "DeleteItemRow" => Mends(t, "items", id)
    BY <2>2 DEF Mends
  <2> QED
    BY <2>3 DEF t, r
<1>9. Leaves(c, Tail(s), known[c])
  <2>1. known[c] = [users |-> known[c].users, items |-> known[c].items]
    BY <1>1 DEF RequestsAreSound, RequestIsSound
  <2> QED
    BY <1>1, <1>2, <2>1, ListGoesOn
<1>10. \A d : MendsFirst(c, d, Tail(s))
  <2>1. \A side, e : ~MendsNow(NextCall(c), side, e)
    BY <1>2 DEF MendsNow
  <2> QED
    BY <1>1, <1>2, <2>1, MendsNowOrLater DEF MendsFirst
<1>11. \A d : KnowsMore(c, d, known[c])
  BY <1>4 DEF KnowsMore, NoneKnown, Sides
<1>12. CASE DeleteUserRow(c)
  <2> DEFINE d == DB!DeleteUserRow(db, id)
  <2>1. s[1].call = "DeleteUserRow" /\ Made(c, d, cache, Tail(s), known[c])
    BY <1>3, <1>12 DEF DeleteUserRow, Is, DataCall
  <2>3. /\ IsStore(d) /\ DOMAIN d.users = DOMAIN db.users \ {id}
        /\ d.items = db.items /\ d.feedback = db.feedback
    BY <1>1, UserDropped
  <2> HIDE DEF d, id
  <2>4. AddsKnown(c, d) /\ DropsAhead(c, d, Tail(s))
    BY <1>5, <1>8, <2>1, <2>3 DEF AddsKnown, DropsAhead, Sides
  <2> QED
    BY <1>1, <1>9, <1>10, <1>11, <2>1, <2>3, <2>4, OrphansCall
<1>13. CASE DeleteItemRow(c)
  <2> DEFINE d == DB!DeleteItemRow(db, id)
  <2>1. s[1].call = "DeleteItemRow" /\ Made(c, d, cache, Tail(s), known[c])
    BY <1>3, <1>13 DEF DeleteItemRow, Is, DataCall
  <2>3. /\ IsStore(d) /\ DOMAIN d.items = DOMAIN db.items \ {id}
        /\ d.users = db.users /\ d.feedback = db.feedback
    BY <1>1, ItemDropped
  <2> HIDE DEF d, id
  <2>4. AddsKnown(c, d) /\ DropsAhead(c, d, Tail(s))
    BY <1>5, <1>8, <2>1, <2>3 DEF AddsKnown, DropsAhead, Sides
  <2> QED
    BY <1>1, <1>9, <1>10, <1>11, <2>1, <2>3, <2>4, OrphansCall
<1> QED
  BY <1>12, <1>13

\* The users and items of feedback become known, or are looked up.
LEMMA OrphansKnown ==
  ASSUME OrphansIInv, NEW c \in Clients, InsertUsersOfFeedback(c) \/ InsertItemsOfFeedback(c)
  PROVE  OrphansIInv'
<1>1. IsStore(db) /\ "values" \in DOMAIN cache /\ RequestsAreSound
  BY DEF OrphansIInv, StoresAreSound, IsStore
<1> DEFINE us == UsersIn(NextCall(c).feedback)
           is == ItemsIn(NextCall(c).feedback)
<1>2. ~Idle(c) /\ NextCall(c).call \in {"InsertUsersOfFeedback", "InsertItemsOfFeedback"}
  BY DEF InsertUsersOfFeedback, InsertItemsOfFeedback, Is
<1>3. known[c] = [users |-> known[c].users, items |-> known[c].items]
  BY <1>1 DEF RequestsAreSound, RequestIsSound
<1>4. DropsNoRow(todo[c])
  <2>1. NextCall(c) = todo[c][1] /\ 1 \in DOMAIN todo[c]
    BY <1>1, <1>2, HeadsOf
  <2> QED
    BY <1>1, <1>2, <2>1 DEF RequestsAreSound, RequestIsSound, OnlyRemovals, Removals
<1>5. \A side, id : ~MendsNow(NextCall(c), side, id)
  BY <1>2 DEF MendsNow
<1>6. ASSUME NEW d, NEW knows, Made(c, d, cache, Tail(todo[c]), knows), IsStore(d),
             d.feedback = db.feedback, DOMAIN db.users \subseteq DOMAIN d.users,
                 DOMAIN db.items \subseteq DOMAIN d.items,
             knows = [users |-> knows.users, items |-> knows.items],
             knows.users \subseteq DOMAIN d.users \cup known[c].users,
             knows.items \subseteq DOMAIN d.items \cup known[c].items
      PROVE  OrphansIInv'
  <2>1. \A side \in Sides : DOMAIN db[side] \subseteq DOMAIN d[side]
    BY <1>6 DEF Sides
  <2>2. \A side \in Sides : \A id \in knows[side] : id \in DOMAIN d[side] \/ id \in known[c][side]
    BY <1>6 DEF Sides
  <2> QED
    BY <1>1, <1>2, <1>4, <1>5, <1>6, <2>1, <2>2, OrphansGrowth
<1>7. CASE InsertUsersOfFeedback(c)
  <2> DEFINE d == DB!InsertMissingUsers(db, us)
  <2>1. /\ IsStore(d) /\ DOMAIN d.users = DOMAIN db.users \cup us
        /\ d.items = db.items /\ d.feedback = db.feedback
    BY <1>1, UsersKnown
  <2>2. \/ Made(c, d, cache, Tail(todo[c]), [users |-> us, items |-> {}])
        \/ Made(c, db, cache, Tail(todo[c]), [users |-> us \cap DOMAIN db.users, items |-> {}])
    BY <1>7 DEF InsertUsersOfFeedback
  <2> HIDE DEF d, us
  <2>3. CASE Made(c, d, cache, Tail(todo[c]), [users |-> us, items |-> {}])
    <3> DEFINE knows == [users |-> us, items |-> {}]
    <3>1. knows = [users |-> knows.users, items |-> knows.items] /\ knows.users = us /\ knows.items = {}
      OBVIOUS
    <3>2. Made(c, d, cache, Tail(todo[c]), knows)
      BY <2>3
    <3> HIDE DEF knows
    <3> QED
      BY <1>6, <2>1, <3>1, <3>2
  <2>4. CASE Made(c, db, cache, Tail(todo[c]), [users |-> us \cap DOMAIN db.users, items |-> {}])
    <3> DEFINE knows == [users |-> us \cap DOMAIN db.users, items |-> {}]
    <3>1. /\ knows = [users |-> knows.users, items |-> knows.items]
          /\ knows.users = us \cap DOMAIN db.users /\ knows.items = {}
      OBVIOUS
    <3>2. Made(c, db, cache, Tail(todo[c]), knows)
      BY <2>4
    <3> HIDE DEF knows
    <3> QED
      BY <1>1, <1>6, <3>1, <3>2
  <2> QED
    BY <2>2, <2>3, <2>4
<1>8. CASE InsertItemsOfFeedback(c)
  <2> DEFINE d == DB!InsertMissingItems(db, is)
  <2>1. /\ IsStore(d) /\ DOMAIN d.items = DOMAIN db.items \cup is
        /\ d.users = db.users /\ d.feedback = db.feedback
    BY <1>1, ItemsKnown
  <2>2. \/ Made(c, d, cache, Tail(todo[c]), [known[c] EXCEPT !.items = is])
        \/ Made(c, db, cache, Tail(todo[c]), [known[c] EXCEPT !.items = is \cap DOMAIN db.items])
    BY <1>8 DEF InsertItemsOfFeedback
  <2> HIDE DEF d, is
  <2>3. CASE Made(c, d, cache, Tail(todo[c]), [known[c] EXCEPT !.items = is])
    <3> DEFINE knows == [known[c] EXCEPT !.items = is]
    <3>1. knows = [users |-> knows.users, items |-> knows.items] /\ knows.users = known[c].users /\ knows.items = is
      BY <1>3
    <3>2. Made(c, d, cache, Tail(todo[c]), knows)
      BY <2>3
    <3> HIDE DEF knows
    <3> QED
      BY <1>6, <2>1, <3>1, <3>2
  <2>4. CASE Made(c, db, cache, Tail(todo[c]), [known[c] EXCEPT !.items = is \cap DOMAIN db.items])
    <3> DEFINE knows == [known[c] EXCEPT !.items = is \cap DOMAIN db.items]
    <3>1. /\ knows = [users |-> knows.users, items |-> knows.items]
          /\ knows.users = known[c].users /\ knows.items = is \cap DOMAIN db.items
      BY <1>3
    <3>2. Made(c, db, cache, Tail(todo[c]), knows)
      BY <2>4
    <3> HIDE DEF knows
    <3> QED
      BY <1>1, <1>6, <3>1, <3>2
  <2> QED
    BY <2>2, <2>3, <2>4
<1> QED
  BY <1>7, <1>8

\* Feedback is inserted of what is known.
LEMMA OrphansInserted ==
  ASSUME OrphansIInv, NEW c \in Clients, InsertFeedback(c) PROVE OrphansIInv'
<1>1. IsStore(db) /\ "values" \in DOMAIN cache /\ RequestsAreSound
  BY DEF OrphansIInv, StoresAreSound, IsStore
<1> DEFINE t == NextCall(c).feedback
           us == known[c].users
           is == known[c].items
           d == DB!InsertFeedback(db, t, us, is, NextCall(c).overwrite)
<1>2. ~Idle(c) /\ NextCall(c).call = "InsertFeedback" /\ Made(c, d, cache, Tail(todo[c]), known[c])
  BY DEF InsertFeedback, Is, DataCall
<1>3. /\ IsStore(d) /\ d.users = db.users /\ d.items = db.items
      /\ DOMAIN d.feedback = DOMAIN db.feedback \cup {k \in KeysOf(t) : k.user \in us /\ k.item \in is}
  BY <1>1, FeedbackInserted
<1> HIDE DEF d
<1>4. Leaves(c, Tail(todo[c]), known[c])
  <2>1. known[c] = [users |-> known[c].users, items |-> known[c].items]
    BY <1>1 DEF RequestsAreSound, RequestIsSound
  <2> QED
    BY <1>1, <1>2, <2>1, ListGoesOn
<1>5. UsersIn(t) \subseteq about[c].touches \cap Users /\ ItemsIn(t) \subseteq about[c].touches \cap Items
  BY <1>1, <1>2, OwnNextCall DEF OwnCall
<1>6. about[c].resets = {}
  <2>1. /\ NextCall(c) = todo[c][1] /\ 1 \in DOMAIN todo[c]
        /\ ListFits(todo[c], about[c].touches, about[c].resets, about[c].stamps)
    BY <1>1, <1>2, HeadsOf
  <2> QED
    BY <1>2, <2>1 DEF ListFits
<1>7. AddsKnown(c, d)
  <2> SUFFICES ASSUME NEW k \in DOMAIN d.feedback \ DOMAIN db.feedback
               PROVE  /\ k.user \in Users /\ k.item \in Items /\ about[c].resets = {}
                      /\ \A side \in Sides : /\ Party(k, side) \in about[c].touches \cap known[c][side]
                                             /\ DOMAIN d[side] = DOMAIN db[side]
    BY DEF AddsKnown
  <2>1. k.user \in UsersIn(t) \cap us /\ k.item \in ItemsIn(t) \cap is
    BY <1>3 DEF UsersIn, ItemsIn
  <2> QED
    BY <1>3, <1>5, <1>6, <2>1 DEF Sides, Party
<1>8. DropsAhead(c, d, Tail(todo[c])) /\ KnowsMore(c, d, known[c])
  BY <1>3 DEF DropsAhead, KnowsMore, Sides
<1>9. MendsFirst(c, d, Tail(todo[c]))
  <2>1. \A side, id : ~MendsNow(NextCall(c), side, id)
    BY <1>2 DEF MendsNow
  <2> QED
    BY <1>1, <1>2, <2>1, MendsNowOrLater DEF MendsFirst
<1> QED
  BY <1>1, <1>2, <1>3, <1>4, <1>7, <1>8, <1>9, OrphansCall

\* The times are taken.
LEMMA OrphansTimed == ASSUME OrphansIInv, NEW c \in Clients, TakesTimes(c) PROVE OrphansIInv'
<1>1. IsStore(db) /\ "values" \in DOMAIN cache /\ RequestsAreSound
  BY DEF OrphansIInv, StoresAreSound, IsStore
<1> DEFINE left == <<SetTimes([id \in NextCall(c).stamped |-> clock])>> \o Tail(todo[c])
<1>2. Is(c, "Now") /\ Made(c, db, cache, left, known[c])
  BY DEF TakesTimes
<1>3. Leaves(c, left, known[c])
  BY <1>1, <1>2, TakenFits
<1> HIDE DEF left
<1>4. AddsKnown(c, db) /\ DropsAhead(c, db, left) /\ KnowsMore(c, db, known[c])
  BY DEF AddsKnown, DropsAhead, KnowsMore
<1>5. MendsFirst(c, db, left)
  <2>1. OnlyCategories(Tail(todo[c])) /\ NextCall(c).call = "Now" /\ ~Idle(c)
    BY <1>1, <1>2, TimesGoOn DEF Is
  <2>2. \A side, id : ~MendsNow(NextCall(c), side, id)
    BY <2>1 DEF MendsNow
  <2>3. \A side, id : ~Mends(Tail(todo[c]), side, id)
    BY <2>1 DEF Mends, OnlyCategories
  <2> QED
    BY <1>1, <2>1, <2>2, <2>3, MendsNowOrLater DEF MendsFirst
<1> QED
  BY <1>1, <1>2, <1>3, <1>4, <1>5, OrphansCall

LEMMA OrphansKeptByCalls == ASSUME OrphansIInv, NEW c \in Clients, Calls(c) PROVE OrphansIInv'
<1>1. IsStore(db) /\ "values" \in DOMAIN cache
  BY DEF OrphansIInv, StoresAreSound, IsStore
<1>2. CASE CallsModifyUser(c)
  <2> DEFINE d == DB!ModifyUser(db, NextCall(c).user, NextCall(c).userPatch)
  <2>1. ~Idle(c) /\ NextCall(c).call = "ModifyUser" /\ Made(c, d, cache, Tail(todo[c]), known[c])
    BY <1>2 DEF CallsModifyUser, Is, DataCall
  <2>2. IsStore(d) /\ DOMAIN d.users = DOMAIN db.users /\ d.items = db.items /\ d.feedback = db.feedback
    BY <1>1, UserModified
  <2> HIDE DEF d
  <2> QED
    BY <1>1, <2>1, <2>2, OrphansUntouched
<1>3. CASE CallsModifyItem(c)
  <2> DEFINE d == DB!ModifyItem(db, NextCall(c).item, NextCall(c).itemPatch)
  <2>1. ~Idle(c) /\ NextCall(c).call = "ModifyItem" /\ Made(c, d, cache, Tail(todo[c]), known[c])
    BY <1>3 DEF CallsModifyItem, Is, DataCall
  <2>2. IsStore(d) /\ DOMAIN d.items = DOMAIN db.items /\ d.users = db.users /\ d.feedback = db.feedback
    BY <1>1, ItemModified
  <2> HIDE DEF d
  <2> QED
    BY <1>1, <2>1, <2>2, OrphansUntouched
<1>4. CASE DeleteUserItemFeedback(c)
  <2> DEFINE u == NextCall(c).pair[1]
             i == NextCall(c).pair[2]
             d == DB!DeleteUserItemFeedback(db, u, i, NextCall(c).types)
  <2>1. ~Idle(c) /\ NextCall(c).call = "DeleteUserItemFeedback" /\ Made(c, d, cache, Tail(todo[c]), known[c])
    BY <1>4 DEF DeleteUserItemFeedback, Is, DataCall
  <2>2. /\ IsStore(d) /\ d.users = db.users /\ d.items = db.items
        /\ DOMAIN d.feedback \subseteq DOMAIN db.feedback
    BY <1>1, PairDropped
  <2> HIDE DEF d
  <2> QED
    BY <1>1, <2>1, <2>2, OrphansUntouched
<1>5. CASE SetsTimes(c)
  <2> DEFINE k == [cache EXCEPT !.values = Over(NextCall(c).times, @)]
  <2>1. ~Idle(c) /\ NextCall(c).call = "Set" /\ Made(c, db, k, Tail(todo[c]), known[c]) /\ "values" \in DOMAIN k
    BY <1>1, <1>5 DEF SetsTimes, Is, CacheCall
  <2> HIDE DEF k
  <2> QED
    BY <1>1, <2>1, OrphansUntouched
<1>6. CASE AddScores(c) \/ UpdateScores(c) \/ DeleteScores(c) \/ AddSet(c)
  <2>1. ~Idle(c) /\ NextCall(c).call \in {"AddScores", "UpdateScores", "DeleteScores", "AddSet"}
    BY <1>6 DEF AddScores, UpdateScores, DeleteScores, AddSet, Is
  <2>2. PICK k : Made(c, db, k, Tail(todo[c]), known[c]) /\ "values" \in DOMAIN k
    <3>1. CASE AddScores(c)
      BY <1>1, <3>1, OtherCallsKeepTimes DEF AddScores, CacheCall
    <3>2. CASE UpdateScores(c)
      BY <1>1, <3>2, OtherCallsKeepTimes DEF UpdateScores, CacheCall
    <3>3. CASE DeleteScores(c)
      BY <1>1, <3>3, OtherCallsKeepTimes DEF DeleteScores, CacheCall
    <3>4. CASE AddSet(c)
      BY <1>1, <3>4, OtherCallsKeepTimes DEF AddSet, CacheCall
    <3> QED
      BY <1>6, <3>1, <3>2, <3>3, <3>4
  <2> QED
    BY <1>1, <2>1, <2>2, OrphansUntouched
<1> QED
  BY <1>2, <1>3, <1>4, <1>5, <1>6, OrphansMended, OrphansMade, OrphansKnown, OrphansInserted, OrphansTimed DEF Calls

LEMMA OrphansKeptByBegin == ASSUME OrphansIInv, NEW c \in Clients, Begins(c) PROVE OrphansIInv'
<1>1. PICK calls, ids, resets, stamps :
        /\ stamps \in BOOLEAN /\ resets \subseteq ids
        /\ Begin(c, calls, ids, resets, stamps) /\ Fitting(calls, ids, resets, stamps)
  BY BeginsFit DEF BeginsFitting
<1>2. StoresAreSound' /\ RequestsAreSound'
  BY <1>1, RequestBegins DEF OrphansIInv
<1>3. Begun(c, calls, ids, resets, stamps)
  BY <1>1, AboutBegun DEF OrphansIInv
<1>4. /\ db' = db /\ known' = known /\ Idle(c)
      /\ disturbed' = disturbed \cup UNION {about[e].touches \cap ids : e \in Touching(ids)}
  BY <1>1 DEF Begin
<1>5. FeedbackIsNamed'
  BY <1>4 DEF OrphansIInv, FeedbackIsNamed
<1>6. ASSUME NEW e \in Clients \ {c}
      PROVE  /\ about'[e].touches = about[e].touches /\ about'[e].resets = about[e].resets
             /\ about'[e].alone => about[e].alone
             /\ todo'[e] = todo[e]
  BY <1>3 DEF Begun, GoesOnBeside
<1>7. /\ todo'[c] = calls /\ about[c].touches = {} /\ known[c] = NoneKnown
      /\ about'[c].touches \subseteq ids
      /\ calls = <<>> => about'[c].touches = {}
      /\ calls # <<>> => about'[c].touches = ids /\ about'[c].resets = resets
  BY <1>3, <1>4, IdleTouchesNothing DEF OrphansIInv, Begun, BegunByItself, NoRequest
<1>8. ASSUME NEW e \in Clients \ {c}, NEW id \in about[e].touches \cap ids PROVE id \in disturbed'
  <2>1. ~Idle(e)
    BY <1>8, IdleTouchesNothing DEF OrphansIInv
  <2>2. e \in Touching(ids)
    BY <1>8, <2>1 DEF Touching
  <2> QED
    BY <1>4, <1>8, <2>2
<1>9. disturbed \subseteq disturbed'
  BY <1>4
<1>10. OverlapsDisturb'
  <2> SUFFICES ASSUME NEW e \in Clients, NEW f \in Clients, e # f, NEW id \in about'[e].touches \cap about'[f].touches
               PROVE  id \in disturbed'
    BY DEF OverlapsDisturb
  <2>1. CASE e = c
    BY <1>6, <1>7, <1>8, <2>1
  <2>2. CASE f = c
    BY <1>6, <1>7, <1>8, <2>2
  <2>3. CASE e # c /\ f # c
    BY <1>6, <1>9, <2>3 DEF OrphansIInv, OverlapsDisturb
  <2> QED
    BY <2>1, <2>2, <2>3
<1>11. OrphansAreMended'
  <2> SUFFICES ASSUME NEW side \in Sides, NEW h \in DOMAIN db.feedback, Party(h, side) \notin DOMAIN db[side]
               PROVE  /\ Party(h, side) \in disturbed' \/ \E e \in Clients : Party(h, side) \in about'[e].touches
                      /\ \A e \in Clients : AnswersFor(e, Party(h, side))' => Mends(todo'[e], side, Party(h, side))
    BY <1>4 DEF OrphansAreMended, Mends
  <2> DEFINE id == Party(h, side)
  <2>1. /\ id \in disturbed \/ \E e \in Clients \ {c} : id \in about[e].touches
        /\ \A e \in Clients : AnswersFor(e, id) => Mends(todo[e], side, id)
    BY <1>7 DEF OrphansIInv, OrphansAreMended
  <2>2. (side = "users" => id \in Users) /\ (side = "items" => id \in Items)
    BY DEF OrphansIInv, FeedbackIsNamed, Party
  <2> HIDE DEF id
  <2>3. id \in disturbed' \/ \E e \in Clients : id \in about'[e].touches
    BY <1>6, <1>9, <2>1
  <2>4. ASSUME NEW e \in Clients, AnswersFor(e, id)' PROVE Mends(todo'[e], side, id)
    <3>0. id \in about'[e].touches /\ (id \notin disturbed' \/ (about'[e].alone /\ id \in about'[e].resets))
      BY <2>4 DEF AnswersFor
    <3>1. CASE e = c
      <4>1. id \in ids /\ calls # <<>>
        BY <1>7, <3>0, <3>1
      <4>2. id \in disturbed'
        BY <1>8, <1>9, <2>1, <4>1
      <4>3. id \in resets
        BY <1>7, <3>0, <3>1, <4>1, <4>2
      <4>4. Mends(calls, side, id)
        BY <1>1, <2>2, <4>3 DEF Fitting, Sides
      <4> QED
        BY <1>7, <3>1, <4>4
    <3>2. CASE e # c
      <4>1. AnswersFor(e, id)
        BY <1>6, <1>9, <3>0, <3>2 DEF AnswersFor
      <4> QED
        BY <1>6, <2>1, <3>2, <4>1
    <3> QED
      BY <3>1, <3>2
  <2> QED
    BY <2>3, <2>4 DEF id
<1>12. KnownAreThere'
  <2> SUFFICES ASSUME NEW side \in Sides, NEW e \in Clients, NEW id \in known[e][side] \cap about'[e].touches
               PROVE  id \in disturbed' \cup DOMAIN db[side]
    BY <1>4 DEF KnownAreThere
  <2>1. CASE e = c
    BY <1>7, <2>1 DEF NoneKnown, Sides
  <2>2. CASE e # c
    BY <1>6, <1>9, <2>2 DEF OrphansIInv, KnownAreThere
  <2> QED
    BY <2>1, <2>2
<1> QED
  BY <1>2, <1>5, <1>10, <1>11, <1>12 DEF OrphansIInv

LEMMA OrphansKeptByFailure == ASSUME OrphansIInv, NEW c \in Clients, Fails(c) PROVE OrphansIInv'
<1>1. /\ StoresAreSound' /\ RequestsAreSound'
      /\ todo'[c] = <<>> /\ about'[c] = NoRequest /\ known'[c] = NoneKnown
      /\ \A e \in Clients \ {c} : todo'[e] = todo[e] /\ about'[e] = about[e] /\ known'[e] = known[e]
  BY RequestFails DEF OrphansIInv
<1>2. db' = db /\ disturbed' = disturbed \cup about[c].touches
  BY DEF Fails
<1>3. about'[c].touches = {}
  BY <1>1 DEF NoRequest
<1>4. FeedbackIsNamed'
  BY <1>2 DEF OrphansIInv, FeedbackIsNamed
<1>5. OverlapsDisturb'
  BY <1>1, <1>2, <1>3 DEF OrphansIInv, OverlapsDisturb
<1>6. OrphansAreMended'
  <2> SUFFICES ASSUME NEW side \in Sides, NEW h \in DOMAIN db.feedback, Party(h, side) \notin DOMAIN db[side]
               PROVE  /\ Party(h, side) \in disturbed' \/ \E e \in Clients : Party(h, side) \in about'[e].touches
                      /\ \A e \in Clients : AnswersFor(e, Party(h, side))' => Mends(todo'[e], side, Party(h, side))
    BY <1>2 DEF OrphansAreMended, Mends
  <2>1. /\ Party(h, side) \in disturbed \/ \E e \in Clients : Party(h, side) \in about[e].touches
        /\ \A e \in Clients : AnswersFor(e, Party(h, side)) => Mends(todo[e], side, Party(h, side))
    BY DEF OrphansIInv, OrphansAreMended
  <2> QED
    BY <1>1, <1>2, <1>3, <2>1 DEF AnswersFor
<1>7. KnownAreThere'
  <2> SUFFICES ASSUME NEW side \in Sides, NEW e \in Clients, NEW id \in known'[e][side] \cap about'[e].touches
               PROVE  id \in disturbed' \cup DOMAIN db[side]
    BY <1>2 DEF KnownAreThere
  <2> QED
    BY <1>1, <1>2, <1>3 DEF OrphansIInv, KnownAreThere
<1> QED
  BY <1>1, <1>4, <1>5, <1>6, <1>7 DEF OrphansIInv

LEMMA OrphansKeptByOthers ==
  ASSUME OrphansIInv, UNCHANGED <<db, todo, known, clock, about, disturbed>>, "values" \in DOMAIN cache'
  PROVE  OrphansIInv'
BY DEF OrphansIInv, StoresAreSound, RequestsAreSound, RequestIsSound, AloneIsAlone, Idle, FeedbackIsNamed,
       OverlapsDisturb, OrphansAreMended, AnswersFor, KnownAreThere

LEMMA OrphansBegin == ASSUME ServerInit PROVE OrphansIInv
<1>1. StoresAreSound /\ RequestsAreSound
  BY RequestsBegin
<1>2. PICK us \in UserTables, is \in ItemTables, fs \in FeedbackTables : db = Filled(us, is, fs)
  BY DEF ServerInit
<1>3. /\ DOMAIN db.users = KeysOf(us) \cup UsersIn(fs) /\ DOMAIN db.items = KeysOf(is) \cup ItemsIn(fs)
      /\ DOMAIN db.feedback \subseteq KeysOf(fs)
  BY <1>2, FilledIsStore
<1>4. \A k \in DOMAIN db.feedback : k.user \in UsersIn(fs) /\ k.item \in ItemsIn(fs)
  BY <1>3 DEF UsersIn, ItemsIn
<1>5. FeedbackIsNamed
  BY <1>4, NamedInTables DEF FeedbackIsNamed
<1>6. \A side \in Sides, k \in DOMAIN db.feedback : Party(k, side) \in DOMAIN db[side]
  BY <1>3, <1>4 DEF Sides, Party
<1>7. OrphansAreMended
  BY <1>6 DEF OrphansAreMended
<1>8. \A c \in Clients : about[c].touches = {} /\ known[c] = NoneKnown
  BY DEF ServerInit, NoRequest
<1>9. OverlapsDisturb /\ KnownAreThere
  BY <1>8 DEF OverlapsDisturb, KnownAreThere
<1> QED
  BY <1>1, <1>5, <1>7, <1>9 DEF OrphansIInv

LEMMA OrphansStep == ASSUME OrphansIInv, [ServerNext]_serverVars PROVE OrphansIInv'
<1>1. "values" \in DOMAIN cache
  BY DEF OrphansIInv, StoresAreSound
<1>2. CASE OtherCaches
  <2>1. "values" \in DOMAIN cache'
    BY <1>1, <1>2, OtherCallsKeepTimes DEF OtherCaches
  <2> QED
    BY <1>2, <2>1, OrphansKeptByOthers DEF OtherCaches
<1>3. CASE UNCHANGED serverVars
  BY <1>1, <1>3, OrphansKeptByOthers DEF serverVars
<1> QED
  BY <1>2, <1>3, OrphansKeptByBegin, OrphansKeptByCalls, OrphansKeptByFailure DEF ServerNext

\* Feedback names an unknown user or item only where requests for it
\* overlapped or failed, or one for it is still going on ("Delete an item
\* and its feedback", "delete a user and his or her feedback").
THEOREM OrphansNeedRaces == ServerSpec => []OrphansOnlyAfterRaces
<1>1. ServerInit => OrphansIInv
  BY OrphansBegin
<1>2. OrphansIInv /\ [ServerNext]_serverVars => OrphansIInv'
  BY OrphansStep
<1>3. OrphansIInv => OrphansOnlyAfterRaces
  <2> SUFFICES ASSUME OrphansIInv, NEW k \in DOMAIN db.feedback, NEW side \in Sides
               PROVE  Party(k, side) \in DOMAIN db[side] \cup disturbed \/ Touching({Party(k, side)}) # {}
    BY DEF OrphansOnlyAfterRaces, Sides, Party
  <2>1. CASE Party(k, side) \in DOMAIN db[side] \cup disturbed
    BY <2>1
  <2>2. CASE Party(k, side) \notin DOMAIN db[side] \cup disturbed
    <3>1. PICK c \in Clients : Party(k, side) \in about[c].touches
      BY <2>2 DEF OrphansIInv, OrphansAreMended
    <3>2. ~Idle(c)
      BY <3>1, IdleTouchesNothing DEF OrphansIInv
    <3> QED
      BY <3>1, <3>2 DEF Touching
  <2> QED
    BY <2>1, <2>2
<1> QED
  BY <1>1, <1>2, <1>3, PTL DEF ServerSpec
----------------------------------------------------------------------------
(* What the cache shows of the items                                       *)

\* The row of an item (none or one) and its documents after a call.
RowsAfter(call, i, rows) ==
  IF call.call = "BatchInsertItems" /\ i \in KeysOf(call.items) THEN {FirstRows(call.items)[i]}
  ELSE IF call.call = "ModifyItem" /\ call.item = i THEN {Over(call.itemPatch, r) : r \in rows}
  ELSE IF call.call = "DeleteItemRow" /\ call.dropped = i THEN {}
  ELSE IF call.call = "InsertItemsOfFeedback" /\ call.insertItem /\ i \in ItemsIn(call.feedback) /\ rows = {}
    THEN {BlankItem}
  ELSE rows

LatestKey(i) == [collection |-> "NonPersonalized", subset |-> Latest, id |-> i]
Hits(call, k) == k.collection \in call.collections /\ (call.subset = Nil \/ k.subset = call.subset)
DocsAfter(call, i, docs) ==
  IF call.call = "AddScores" /\ call.latest = i THEN Over([k \in {LatestKey(i)} |-> call.doc], docs)
  ELSE IF call.call = "UpdateScores" /\ call.id = i
    THEN [k \in DOMAIN docs |-> IF Hits(call, k) THEN Over(call.patch, docs[k]) ELSE docs[k]]
  ELSE IF call.call = "DeleteScores" /\ call.docsOf = i
    THEN Without(docs, {k \in DOMAIN docs : k.collection \in ItemCache})
  ELSE docs

\* The row and the documents of an item a list of calls leaves.
Reaches(calls, i, rows, docs, rowsLeft, docsLeft) ==
  \E R, D :
    /\ R[0] = rows /\ D[0] = docs
    /\ \A n \in DOMAIN calls : /\ R[n] = RowsAfter(calls[n], i, R[n - 1])
                               /\ D[n] = DocsAfter(calls[n], i, D[n - 1])
    /\ R[Len(calls)] = rowsLeft /\ D[Len(calls)] = docsLeft

\* The documents show the row.
Shows(k, doc, row) ==
  /\ doc.is_hidden = row.is_hidden
  /\ doc.categories = withWildCard(row.categories)
  /\ k.subset = Latest => doc.score = row.timestamp
Agrees(rows, docs) ==
  \A k \in DOMAIN docs : rows # {} /\ \A r \in rows : Shows(k, docs[k], r)
Leads(calls, i, rows, docs) ==
  \E rowsLeft, docsLeft : Reaches(calls, i, rows, docs, rowsLeft, docsLeft) /\ Agrees(rowsLeft, docsLeft)

RowsOf(d, i) == {d.items[r] : r \in DOMAIN d.items \cap {i}}
DocsIn(docs, i) == [q \in {q \in DOMAIN docs : q.id = i} |-> docs[q]]
DocsOf(k, i) == DocsIn(k.docs, i)

\* The stores are as they can be, and so are the calls that change them.
IsRow(r) == ItemFields \subseteq DOMAIN r
IsDocKey(k) ==
  /\ k = [collection |-> k.collection, subset |-> k.subset, id |-> k.id]
  /\ k.collection \in ItemCache /\ (k.subset = Latest => k.collection = "NonPersonalized")
IsDoc(k, doc) ==
  {"is_hidden", "categories"} \subseteq DOMAIN doc /\ (k.subset = Latest => "score" \in DOMAIN doc)
AreRows(rows) == \A r \in rows : IsRow(r)
AreDocs(docs, i) == \A k \in DOMAIN docs : k.id = i /\ IsDocKey(k) /\ IsDoc(k, docs[k])
CacheIsSound ==
  /\ "docs" \in DOMAIN cache
  /\ \A i \in DOMAIN db.items : i \in Items /\ IsRow(db.items[i])
  /\ \A k \in DOMAIN cache.docs : k.id \in Items /\ IsDocKey(k) /\ IsDoc(k, cache.docs[k])

IsItemTable(t) ==
  /\ DOMAIN t \subseteq Nat /\ KeysOf(t) \subseteq Items
  /\ \A j \in DOMAIN t : IsRow(t[j].row)
  /\ \A j, h \in DOMAIN t : t[j].key = t[h].key => j = h
OwnItemCall(call, ids) ==
  /\ call.call = "AddScores" =>
       call.latest \in ids \cap Items /\ {"is_hidden", "categories", "score"} \subseteq DOMAIN call.doc
  /\ call.call = "UpdateScores" => call.id \in ids
  /\ call.call = "DeleteScores" => call.docsOf \in ids \cap Items
  /\ call.call = "BatchInsertItems" => IsItemTable(call.items)
CallsAreOwn ==
  \A c \in Clients : \A q \in DOMAIN todo[c] : OwnItemCall(todo[c][q], about[c].touches)

\* The documents of an item show its row unless requests for it overlapped
\* or failed, and the request that is about it now will see to it.
ItemsAreFollowed ==
  \A i \in Items :
    /\ \/ i \in disturbed \/ (\E c \in Clients : i \in about[c].touches)
       \/ Agrees(RowsOf(db, i), DocsOf(cache, i))
    /\ \A c \in Clients : AnswersFor(c, i) => Leads(todo[c], i, RowsOf(db, i), DocsOf(cache, i))

CacheIInv == OrphansIInv /\ CacheIsSound /\ CallsAreOwn /\ ItemsAreFollowed

\* A row is inserted once by a request.  (Of two rows of one item the data
\* store keeps the first and the cache shows the last.)
OnceEach == \A t \in ItemTables : \A j, h \in DOMAIN t : t[j].key = t[h].key => j = h

----------------------------------------------------------------------------
(* What lists of calls lead to                                             *)

\* No call leaves all as it is.
LEMMA ReachesNothing == ASSUME NEW i, NEW rows, NEW docs PROVE Reaches(<<>>, i, rows, docs, rows, docs)
<1> DEFINE R == [n \in {0} |-> rows]
           D == [n \in {0} |-> docs]
<1>1. R[0] = rows /\ D[0] = docs /\ DOMAIN <<>> = {} /\ Len(<<>>) = 0
  OBVIOUS
<1> HIDE DEF R, D
<1> QED
  BY <1>1 DEF Reaches

\* One call.
LEMMA ReachesOne ==
  ASSUME NEW a, NEW i, NEW rows, NEW docs
  PROVE  Reaches(<<a>>, i, rows, docs, RowsAfter(a, i, rows), DocsAfter(a, i, docs))
<1> DEFINE R == [n \in {0, 1} |-> IF n = 0 THEN rows ELSE RowsAfter(a, i, rows)]
           D == [n \in {0, 1} |-> IF n = 0 THEN docs ELSE DocsAfter(a, i, docs)]
<1>1. /\ R[0] = rows /\ D[0] = docs /\ R[1] = RowsAfter(a, i, rows) /\ D[1] = DocsAfter(a, i, docs)
      /\ DOMAIN <<a>> = {1} /\ <<a>>[1] = a /\ Len(<<a>>) = 1
  OBVIOUS
<1> HIDE DEF R, D
<1> QED
  BY <1>1 DEF Reaches

\* One list after another.
LEMMA ReachesJoined ==
  ASSUME NEW s, NEW t, IsSequence(s), IsSequence(t), NEW i, NEW rows, NEW docs,
         NEW rows1, NEW docs1, NEW rows2, NEW docs2,
         Reaches(s, i, rows, docs, rows1, docs1), Reaches(t, i, rows1, docs1, rows2, docs2)
  PROVE  Reaches(s \o t, i, rows, docs, rows2, docs2)
<1> DEFINE st == s \o t
           m == Len(s)
<1>1. /\ m \in Nat /\ Len(t) \in Nat /\ IsSequence(st)
      /\ DOMAIN s = 1 .. m /\ DOMAIN t = 1 .. Len(t) /\ DOMAIN st = 1 .. m + Len(t)
      /\ \A q \in DOMAIN s : st[q] = s[q]
      /\ \A q \in DOMAIN st \ DOMAIN s : q - m \in DOMAIN t /\ st[q] = t[q - m]
  BY JoinedLists
<1>2. Len(st) = m + Len(t)
  BY <1>1, ConcatProperties, TailOfList DEF IsSequence
<1> HIDE DEF st, m
<1>3. PICK R1, D1 :
        /\ R1[0] = rows /\ D1[0] = docs
        /\ \A n \in DOMAIN s : R1[n] = RowsAfter(s[n], i, R1[n - 1]) /\ D1[n] = DocsAfter(s[n], i, D1[n - 1])
        /\ R1[m] = rows1 /\ D1[m] = docs1
  BY DEF Reaches, m
<1>4. PICK R2, D2 :
        /\ R2[0] = rows1 /\ D2[0] = docs1
        /\ \A n \in DOMAIN t : R2[n] = RowsAfter(t[n], i, R2[n - 1]) /\ D2[n] = DocsAfter(t[n], i, D2[n - 1])
        /\ R2[Len(t)] = rows2 /\ D2[Len(t)] = docs2
  BY DEF Reaches
<1> DEFINE R == [n \in 0 .. m + Len(t) |-> IF n <= m THEN R1[n] ELSE R2[n - m]]
           D == [n \in 0 .. m + Len(t) |-> IF n <= m THEN D1[n] ELSE D2[n - m]]
<1>5. \A n \in 0 .. m : R[n] = R1[n] /\ D[n] = D1[n]
  BY <1>1
<1>6. \A n \in 0 .. Len(t) : R[m + n] = R2[n] /\ D[m + n] = D2[n]
  <2> TAKE n \in 0 .. Len(t)
  <2>1. CASE n = 0
    BY <1>1, <1>3, <1>4, <2>1
  <2>2. CASE n # 0
    BY <1>1, <2>2
  <2> QED
    BY <2>1, <2>2
<1> HIDE DEF R, D
<1>7. R[0] = rows /\ D[0] = docs /\ R[Len(st)] = rows2 /\ D[Len(st)] = docs2
  BY <1>1, <1>2, <1>3, <1>4, <1>5, <1>6
<1>8. ASSUME NEW n \in DOMAIN st
      PROVE  R[n] = RowsAfter(st[n], i, R[n - 1]) /\ D[n] = DocsAfter(st[n], i, D[n - 1])
  <2>1. CASE n \in 1 .. m
    <3>1. n \in 0 .. m /\ n - 1 \in 0 .. m /\ st[n] = s[n]
      BY <1>1, <2>1
    <3> QED
      BY <1>1, <1>3, <1>5, <2>1, <3>1
  <2>2. CASE n \notin 1 .. m
    <3>1. n - m \in 1 .. Len(t) /\ st[n] = t[n - m]
      BY <1>1, <2>2
    <3> DEFINE h == n - m
    <3>2. h \in 0 .. Len(t) /\ h - 1 \in 0 .. Len(t) /\ m + h = n /\ m + (h - 1) = n - 1
      BY <1>1, <3>1
    <3>3. R[n] = R2[h] /\ D[n] = D2[h] /\ R[n - 1] = R2[h - 1] /\ D[n - 1] = D2[h - 1]
      BY <1>6, <3>2
    <3> HIDE DEF h
    <3>4. h \in 1 .. Len(t) /\ st[n] = t[h]
      BY <3>1 DEF h
    <3> QED
      BY <1>1, <1>4, <3>3, <3>4
  <2> QED
    BY <2>1, <2>2
<1>9. Reaches(st, i, rows, docs, rows2, docs2)
  BY <1>7, <1>8 DEF Reaches
<1> QED
  BY <1>9 DEF st

\* Calls that are about other items.
LEMMA ReachesSame ==
  ASSUME NEW s, NEW i, NEW rows, NEW docs, IsSequence(s),
         \A q \in DOMAIN s : RowsAfter(s[q], i, rows) = rows /\ DocsAfter(s[q], i, docs) = docs
  PROVE  Reaches(s, i, rows, docs, rows, docs)
<1>1. Len(s) \in Nat /\ DOMAIN s = 1 .. Len(s)
  BY JoinedLists
<1> DEFINE R == [n \in 0 .. Len(s) |-> rows]
           D == [n \in 0 .. Len(s) |-> docs]
<1>2. /\ \A n \in 0 .. Len(s) : R[n] = rows /\ D[n] = docs
      /\ 0 \in 0 .. Len(s) /\ Len(s) \in 0 .. Len(s)
      /\ \A n \in DOMAIN s : n \in 0 .. Len(s) /\ n - 1 \in 0 .. Len(s)
  BY <1>1
<1> HIDE DEF R, D
<1>3. \A n \in DOMAIN s : /\ R[n] = RowsAfter(s[n], i, R[n - 1])
                          /\ D[n] = DocsAfter(s[n], i, D[n - 1])
  BY <1>2
<1> QED
  BY <1>2, <1>3 DEF Reaches

\* The first call has been made.
LEMMA LeadsOn ==
  ASSUME NEW s, IsSequence(s), s # <<>>, NEW i, NEW rows, NEW docs, Leads(s, i, rows, docs)
  PROVE  Leads(Tail(s), i, RowsAfter(s[1], i, rows), DocsAfter(s[1], i, docs))
<1> DEFINE m == Len(s)
           t == Tail(s)
<1>1. /\ m \in Nat /\ DOMAIN s = 1 .. m /\ 1 \in DOMAIN s
      /\ IsSequence(t) /\ DOMAIN t = 1 .. m - 1
      /\ \A q \in DOMAIN t : t[q] = s[q + 1]
  BY TailOfList
<1>2. Len(t) = m - 1
  BY <1>1, JoinedLists
<1> HIDE DEF m, t
<1>3. PICK R, D :
        /\ R[0] = rows /\ D[0] = docs
        /\ \A n \in DOMAIN s : R[n] = RowsAfter(s[n], i, R[n - 1]) /\ D[n] = DocsAfter(s[n], i, D[n - 1])
        /\ Agrees(R[m], D[m])
  BY DEF Leads, Reaches, m
<1> DEFINE R1 == [n \in 0 .. m |-> R[n + 1]]
           D1 == [n \in 0 .. m |-> D[n + 1]]
<1>4. \A n \in 0 .. m : R1[n] = R[n + 1] /\ D1[n] = D[n + 1]
  OBVIOUS
<1>5. /\ R1[0] = R[1] /\ D1[0] = D[1] /\ R1[m - 1] = R[m] /\ D1[m - 1] = D[m]
  BY <1>1, <1>4
<1> HIDE DEF R1, D1
<1>6. R[1] = RowsAfter(s[1], i, rows) /\ D[1] = DocsAfter(s[1], i, docs)
  BY <1>1, <1>3
<1>7. ASSUME NEW n \in DOMAIN t
      PROVE  R1[n] = RowsAfter(t[n], i, R1[n - 1]) /\ D1[n] = DocsAfter(t[n], i, D1[n - 1])
  <2>1. n + 1 \in DOMAIN s /\ t[n] = s[n + 1] /\ n \in 0 .. m /\ n - 1 \in 0 .. m /\ n + 1 - 1 = n /\ n - 1 + 1 = n
    BY <1>1
  <2>2. R1[n] = R[n + 1] /\ D1[n] = D[n + 1] /\ R1[n - 1] = R[n] /\ D1[n - 1] = D[n]
    BY <1>4, <2>1
  <2> QED
    BY <1>3, <2>1, <2>2
<1>8. Reaches(t, i, RowsAfter(s[1], i, rows), DocsAfter(s[1], i, docs), R[m], D[m])
  BY <1>2, <1>5, <1>6, <1>7 DEF Reaches
<1>9. Leads(t, i, RowsAfter(s[1], i, rows), DocsAfter(s[1], i, docs))
  BY <1>3, <1>8 DEF Leads
<1> QED
  BY <1>9 DEF t

\* Nothing is left to be done.
LEMMA LeadsNowhere ==
  ASSUME NEW i, NEW rows, NEW docs, Leads(<<>>, i, rows, docs)
  PROVE  Agrees(rows, docs)
<1>1. Len(<<>>) = 0
  OBVIOUS
<1> QED
  BY <1>1 DEF Leads, Reaches

----------------------------------------------------------------------------
(* What the calls do to an item                                            *)

\* The rows of the cache are those of this module.
LEMMA SameDocs ==
  /\ \A a, b : CA!Over(a, b) = Over(a, b) /\ CA!Without(a, b) = Without(a, b)
  /\ CA!EmptyTable = EmptyTable
BY DEF CA!Over, Over, CA!Without, Without, CA!EmptyTable, EmptyTable

\* The only row of a key is the first one.
LEMMA OnlyRow ==
  ASSUME NEW t, IsItemTable(t), NEW j \in DOMAIN t
  PROVE  t[j].key \in KeysOf(t) /\ FirstRows(t)[t[j].key] = t[j].row
<1> DEFINE P(h) == h \in DOMAIN t /\ t[h].key = t[j].key /\ \A x \in DOMAIN t : t[x].key = t[j].key => h <= x
<1>1. t[j].key \in KeysOf(t)
  BY DEF KeysOf
<1>2. P(j)
  BY DEF IsItemTable
<1>3. \A h : P(h) => h = j
  BY DEF IsItemTable
<1>4. (CHOOSE h : P(h)) = j
  <2> HIDE DEF P
  <2> QED
    BY <1>2, <1>3
<1>5. FirstRows(t)[t[j].key] = t[CHOOSE h : P(h)].row
  BY <1>1 DEF FirstRows
<1> QED
  BY <1>1, <1>4, <1>5

LEMMA RowsAreThere ==
  ASSUME NEW t, IsItemTable(t), NEW i \in KeysOf(t)
  PROVE  IsRow(FirstRows(t)[i])
<1>1. PICK j \in DOMAIN t : i = t[j].key
  BY DEF KeysOf
<1> QED
  BY <1>1, OnlyRow DEF IsItemTable

\* The stores after a call, as they can be, and as its item says.
StoresCanBe(d, k) ==
  /\ "docs" \in DOMAIN k
  /\ \A i \in DOMAIN d.items : i \in Items /\ IsRow(d.items[i])
  /\ \A q \in DOMAIN k.docs : q.id \in Items /\ IsDocKey(q) /\ IsDoc(q, k.docs[q])
ItemsAfter(call, d, k) ==
  /\ StoresCanBe(d, k)
  /\ \A i \in Items : RowsOf(d, i) = RowsAfter(call, i, RowsOf(db, i))
                      /\ DocsOf(k, i) = DocsAfter(call, i, DocsOf(cache, i))

ItemCalls == {"BatchInsertItems", "ModifyItem", "DeleteItemRow", "InsertItemsOfFeedback",
              "AddScores", "UpdateScores", "DeleteScores"}

LEMMA RowOf == \A d, i : RowsOf(d, i) = IF i \in DOMAIN d.items THEN {d.items[i]} ELSE {}
BY DEF RowsOf

\* A row with some fields written over is a row.
LEMMA RowWrittenOver == ASSUME NEW p, NEW r, IsRow(r) PROVE IsRow(Over(p, r))
BY DEF IsRow, Over
LEMMA DocWrittenOver == ASSUME NEW p, NEW k, NEW doc, IsDoc(k, doc) PROVE IsDoc(k, Over(p, doc))
BY DEF IsDoc, Over

\* A call that is not about an item.
LEMMA ItemsStay ==
  ASSUME CacheIsSound, NEW call, call.call \notin ItemCalls, NEW d, NEW k,
         d.items = db.items, k.docs = cache.docs, "docs" \in DOMAIN k
  PROVE  ItemsAfter(call, d, k)
<1>1. \A i : RowsOf(d, i) = RowsOf(db, i) /\ DocsOf(k, i) = DocsOf(cache, i)
  BY DEF RowsOf, DocsOf
<1>2. \A i, x : RowsAfter(call, i, x) = x /\ DocsAfter(call, i, x) = x
  BY DEF RowsAfter, DocsAfter, ItemCalls
<1>3. StoresCanBe(d, k)
  BY DEF StoresCanBe, CacheIsSound
<1> QED
  BY <1>1, <1>2, <1>3 DEF ItemsAfter

\* A call of the data store leaves the documents, one of the cache the rows.
LEMMA DocsStay ==
  ASSUME NEW call, call.call \notin {"AddScores", "UpdateScores", "DeleteScores"}
  PROVE  \A i, docs : DocsAfter(call, i, docs) = docs
BY DEF DocsAfter
LEMMA RowsStay ==
  ASSUME NEW call, call.call \in {"AddScores", "UpdateScores", "DeleteScores"}
  PROVE  \A i, rows : RowsAfter(call, i, rows) = rows
BY DEF RowsAfter

LEMMA ItemsAfterData ==
  ASSUME CacheIsSound, NEW call, call.call \notin {"AddScores", "UpdateScores", "DeleteScores"}, NEW d,
         \A i \in DOMAIN d.items : i \in Items /\ IsRow(d.items[i]),
         \A i \in Items : RowsOf(d, i) = RowsAfter(call, i, RowsOf(db, i))
  PROVE  ItemsAfter(call, d, cache)
BY DocsStay DEF ItemsAfter, StoresCanBe, CacheIsSound

LEMMA ItemsAfterCache ==
  ASSUME CacheIsSound, NEW call, call.call \in {"AddScores", "UpdateScores", "DeleteScores"}, NEW x,
         \A q \in DOMAIN x : q.id \in Items /\ IsDocKey(q) /\ IsDoc(q, x[q]),
         \A i \in Items : DocsIn(x, i) = DocsAfter(call, i, DocsOf(cache, i))
  PROVE  ItemsAfter(call, db, [cache EXCEPT !.docs = x])
<1> DEFINE k == [cache EXCEPT !.docs = x]
<1>1. k.docs = x /\ "docs" \in DOMAIN k
  BY DEF CacheIsSound
<1> HIDE DEF k
<1>2. StoresCanBe(db, k)
  BY <1>1 DEF StoresCanBe, CacheIsSound
<1>3. \A i \in Items : DocsOf(k, i) = DocsAfter(call, i, DocsOf(cache, i))
  BY <1>1 DEF DocsOf
<1>4. ItemsAfter(call, db, k)
  BY <1>2, <1>3, RowsStay DEF ItemsAfter
<1> QED
  BY <1>4 DEF k

LEMMA ItemsPut ==
  ASSUME CacheIsSound, IsStore(db), NEW call, call.call = "BatchInsertItems", IsItemTable(call.items)
  PROVE  ItemsAfter(call, DB!BatchInsertItems(db, call.items), cache)
<1> DEFINE t == call.items
           f == FirstRows(t)
           x == Over(f, db.items)
           d == [db EXCEPT !.items = x]
<1>1. DB!BatchInsertItems(db, t) = d
  BY SameRows DEF DB!BatchInsertItems
<1>2. d.items = x
  <2> HIDE DEF x
  <2> QED
    BY TableChanges
<1>3. DOMAIN f = KeysOf(t)
  BY DEF FirstRows
<1>4. \A i \in KeysOf(t) : i \in Items /\ IsRow(f[i])
  BY RowsAreThere DEF IsItemTable
<1> HIDE DEF f, d
<1>5. /\ DOMAIN x = KeysOf(t) \cup DOMAIN db.items
      /\ \A i \in KeysOf(t) : x[i] = f[i]
      /\ \A i \in DOMAIN db.items \ KeysOf(t) : x[i] = db.items[i]
  BY <1>3 DEF Over
<1> HIDE DEF x
<1>6. \A i \in DOMAIN d.items : i \in Items /\ IsRow(d.items[i])
  BY <1>2, <1>4, <1>5 DEF CacheIsSound
<1>7. ASSUME NEW i \in Items PROVE RowsOf(d, i) = RowsAfter(call, i, RowsOf(db, i))
  <2>1. CASE i \in KeysOf(t)
    <3>1. RowsOf(d, i) = {f[i]}
      BY <1>2, <1>5, <2>1, RowOf
    <3>2. RowsAfter(call, i, RowsOf(db, i)) = {f[i]}
      BY <2>1 DEF RowsAfter, f
    <3> QED
      BY <3>1, <3>2
  <2>2. CASE i \notin KeysOf(t)
    <3>1. RowsOf(d, i) = RowsOf(db, i)
      BY <1>2, <1>5, <2>2, RowOf
    <3>2. RowsAfter(call, i, RowsOf(db, i)) = RowsOf(db, i)
      BY <2>2 DEF RowsAfter
    <3> QED
      BY <3>1, <3>2
  <2> QED
    BY <2>1, <2>2
<1>8. ItemsAfter(call, d, cache)
  BY <1>6, <1>7, ItemsAfterData
<1> QED
  BY <1>1, <1>8

LEMMA ItemPatched ==
  ASSUME CacheIsSound, IsStore(db), NEW call, call.call = "ModifyItem"
  PROVE  ItemsAfter(call, DB!ModifyItem(db, call.item, call.itemPatch), cache)
<1> DEFINE j == call.item
           row == Over(call.itemPatch, db.items[j])
           x == [db.items EXCEPT ![j] = row]
           d == DB!ModifyItem(db, j, call.itemPatch)
<1>1. \A i : RowsAfter(call, i, RowsOf(db, i))
               = IF i = j THEN {Over(call.itemPatch, r) : r \in RowsOf(db, i)} ELSE RowsOf(db, i)
  BY DEF RowsAfter
<1>2. CASE j \notin DOMAIN db.items
  <2>1. d = db
    BY <1>2 DEF DB!ModifyItem
  <2>2. RowsOf(db, j) = {}
    BY <1>2, RowOf
  <2>3. \A i \in Items : RowsOf(d, i) = RowsAfter(call, i, RowsOf(db, i))
    BY <1>1, <2>1, <2>2
  <2>4. \A i \in DOMAIN d.items : i \in Items /\ IsRow(d.items[i])
    BY <2>1 DEF CacheIsSound
  <2> HIDE DEF d
  <2>5. ItemsAfter(call, d, cache)
    BY <2>3, <2>4, ItemsAfterData
  <2> QED
    BY <2>5 DEF d
<1>3. CASE j \in DOMAIN db.items
  <2>1. d = [db EXCEPT !.items = x]
    BY <1>3, SameRows DEF DB!ModifyItem
  <2>2. d.items = x
    <3> HIDE DEF x, d
    <3> QED
      BY <2>1, TableChanges
  <2> HIDE DEF d
  <2>3. IsRow(row)
    BY <1>3, RowWrittenOver DEF CacheIsSound
  <2>4. \A r : Over(call.itemPatch, r) = IF r = db.items[j] THEN row ELSE Over(call.itemPatch, r)
    OBVIOUS
  <2>5. RowsOf(db, j) = {db.items[j]} /\ {Over(call.itemPatch, r) : r \in RowsOf(db, j)} = {row}
    BY <1>3, RowOf
  <2> HIDE DEF row
  <2>6. /\ DOMAIN x = DOMAIN db.items /\ x[j] = row
        /\ \A i \in DOMAIN db.items : i # j => x[i] = db.items[i]
    BY <1>3
  <2> HIDE DEF x
  <2>7. \A i \in DOMAIN d.items : i \in Items /\ IsRow(d.items[i])
    BY <2>2, <2>3, <2>6 DEF CacheIsSound
  <2>8. RowsOf(d, j) = {row} /\ \A i : i # j => RowsOf(d, i) = RowsOf(db, i)
    BY <1>3, <2>2, <2>6, RowOf
  <2>9. \A i \in Items : RowsOf(d, i) = RowsAfter(call, i, RowsOf(db, i))
    BY <1>1, <2>5, <2>8
  <2>10. ItemsAfter(call, d, cache)
    BY <2>7, <2>9, ItemsAfterData
  <2> QED
    BY <2>10 DEF d
<1> QED
  BY <1>2, <1>3

LEMMA ItemRowDropped ==
  ASSUME CacheIsSound, IsStore(db), NEW call, call.call = "DeleteItemRow"
  PROVE  ItemsAfter(call, DB!DeleteItemRow(db, call.dropped), cache)
<1> DEFINE j == call.dropped
           x == Without(db.items, {j})
           d == DB!DeleteItemRow(db, j)
<1>1. d = [db EXCEPT !.items = x]
  BY SameRows DEF DB!DeleteItemRow
<1>2. d.items = x
  <2> HIDE DEF x, d
  <2> QED
    BY <1>1, TableChanges
<1>3. DOMAIN x = DOMAIN db.items \ {j} /\ \A i \in DOMAIN x : x[i] = db.items[i]
  BY DEF Without
<1> HIDE DEF x, d
<1>4. \A i \in DOMAIN d.items : i \in Items /\ IsRow(d.items[i])
  BY <1>2, <1>3 DEF CacheIsSound
<1>5. \A i : RowsOf(d, i) = IF i = j THEN {} ELSE RowsOf(db, i)
  BY <1>2, <1>3, RowOf
<1>6. \A i : RowsAfter(call, i, RowsOf(db, i)) = IF i = j THEN {} ELSE RowsOf(db, i)
  BY DEF RowsAfter
<1>7. ItemsAfter(call, d, cache)
  BY <1>4, <1>5, <1>6, ItemsAfterData
<1> QED
  BY <1>7 DEF d

LEMMA ItemsOfFeedbackKnown ==
  ASSUME CacheIsSound, IsStore(db), NEW call, call.call = "InsertItemsOfFeedback",
         ItemsIn(call.feedback) \subseteq Items
  PROVE  /\ call.insertItem => ItemsAfter(call, DB!InsertMissingItems(db, ItemsIn(call.feedback)), cache)
         /\ ~call.insertItem => ItemsAfter(call, db, cache)
<1> DEFINE ids == ItemsIn(call.feedback)
           new == [i \in ids |-> BlankItem]
           x == Over(db.items, new)
           d == DB!InsertMissingItems(db, ids)
<1>1. ASSUME ~call.insertItem PROVE ItemsAfter(call, db, cache)
  <2>1. \A i : RowsAfter(call, i, RowsOf(db, i)) = RowsOf(db, i)
    BY <1>1 DEF RowsAfter
  <2> QED
    BY <2>1, ItemsAfterData DEF CacheIsSound
<1>2. ASSUME call.insertItem PROVE ItemsAfter(call, d, cache)
  <2>1. d = [db EXCEPT !.items = x]
    BY SameRows DEF DB!InsertMissingItems
  <2>2. d.items = x
    <3> HIDE DEF x, d
    <3> QED
      BY <2>1, TableChanges
  <2>3. DOMAIN new = ids /\ \A i \in ids : new[i] = BlankItem
    OBVIOUS
  <2> HIDE DEF d, new
  <2>4. /\ DOMAIN x = DOMAIN db.items \cup ids
        /\ \A i \in DOMAIN db.items : x[i] = db.items[i]
        /\ \A i \in ids \ DOMAIN db.items : x[i] = BlankItem
    BY <2>3 DEF Over
  <2> HIDE DEF x
  <2>5. IsRow(BlankItem)
    BY CacheAssumption DEF IsRow
  <2>6. \A i \in DOMAIN d.items : i \in Items /\ IsRow(d.items[i])
    BY <2>2, <2>4, <2>5 DEF CacheIsSound
  <2>7. \A i : RowsAfter(call, i, RowsOf(db, i))
                 = IF i \in ids /\ RowsOf(db, i) = {} THEN {BlankItem} ELSE RowsOf(db, i)
    BY <1>2 DEF RowsAfter
  <2>8. \A i : RowsOf(d, i) = IF i \in ids /\ RowsOf(db, i) = {} THEN {BlankItem} ELSE RowsOf(db, i)
    BY <2>2, <2>4, RowOf
  <2> QED
    BY <2>6, <2>7, <2>8, ItemsAfterData
<1> QED
  BY <1>1, <1>2

LEMMA LatestAdded ==
  ASSUME CacheIsSound, NEW call, NEW ids, call.call = "AddScores", OwnItemCall(call, ids)
  PROVE  ItemsAfter(call, db, CA!AddScores(cache, "NonPersonalized", Latest, [i \in {call.latest} |-> call.doc]))
<1> DEFINE j == call.latest
           rows == [i \in {j} |-> call.doc]
           new == [k \in {LatestKey(j)} |-> call.doc]
           x == Over(new, cache.docs)
<1>1. {[collection |-> "NonPersonalized", subset |-> Latest, id |-> i] : i \in DOMAIN rows} = {LatestKey(j)}
  BY DEF LatestKey
<1>2. [k \in {LatestKey(j)} |-> rows[k.id]] = new
  BY DEF LatestKey
<1>3. CA!AddScores(cache, "NonPersonalized", Latest, rows) = [cache EXCEPT !.docs = x]
  <2> HIDE DEF rows, new
  <2> QED
    BY <1>1, <1>2, SameDocs DEF CA!AddScores
<1>4. DOMAIN new = {LatestKey(j)} /\ new[LatestKey(j)] = call.doc
  OBVIOUS
<1> HIDE DEF rows, new
<1>5. /\ DOMAIN x = {LatestKey(j)} \cup DOMAIN cache.docs /\ x[LatestKey(j)] = call.doc
      /\ \A q \in DOMAIN cache.docs : q # LatestKey(j) => x[q] = cache.docs[q]
  BY <1>4 DEF Over
<1>6. /\ LatestKey(j).id = j /\ j \in Items /\ IsDocKey(LatestKey(j)) /\ IsDoc(LatestKey(j), call.doc)
  BY DEF LatestKey, IsDocKey, IsDoc, OwnItemCall, ItemCache
<1>7. \A q \in DOMAIN x : q.id \in Items /\ IsDocKey(q) /\ IsDoc(q, x[q])
  <2> HIDE DEF x
  <2> QED
    BY <1>5, <1>6 DEF CacheIsSound
<1>8. ASSUME NEW i \in Items
      PROVE  DocsIn(x, i) = DocsAfter(call, i, DocsOf(cache, i))
  <2> DEFINE K == {q \in DOMAIN cache.docs : q.id = i}
  <2>1. DOMAIN DocsOf(cache, i) = K /\ \A q \in K : DocsOf(cache, i)[q] = cache.docs[q]
    BY DEF DocsOf, DocsIn
  <2>2. CASE i = j
    <3>1. DocsAfter(call, i, DocsOf(cache, i)) = Over(new, DocsOf(cache, i))
      BY <2>2 DEF DocsAfter, new
    <3>2. {q \in DOMAIN x : q.id = i} = {LatestKey(j)} \cup K
      BY <1>5, <1>6, <2>2
    <3>3. /\ DOMAIN Over(new, DocsOf(cache, i)) = {LatestKey(j)} \cup K
          /\ \A q \in {LatestKey(j)} \cup K : Over(new, DocsOf(cache, i))[q] = x[q]
      <4> HIDE DEF K
      <4>1. /\ DOMAIN Over(new, DocsOf(cache, i)) = {LatestKey(j)} \cup K
            /\ \A q \in {LatestKey(j)} \cup K : Over(new, DocsOf(cache, i))[q]
                  = IF q \in {LatestKey(j)} THEN new[q] ELSE DocsOf(cache, i)[q]
        BY <1>4, <2>1 DEF Over
      <4> QED
        BY <1>4, <1>5, <2>1, <4>1 DEF K
    <3>4. Over(new, DocsOf(cache, i))
            = [q \in {LatestKey(j)} \cup K |-> Over(new, DocsOf(cache, i))[q]]
      BY <3>3 DEF Over
    <3> HIDE DEF x
    <3> QED
      BY <3>1, <3>2, <3>3, <3>4 DEF DocsIn
  <2>3. CASE i # j
    <3>1. DocsAfter(call, i, DocsOf(cache, i)) = DocsOf(cache, i)
      BY <2>3 DEF DocsAfter
    <3>2. {q \in DOMAIN x : q.id = i} = K
      BY <1>5, <1>6, <2>3
    <3>3. \A q \in K : x[q] = cache.docs[q]
      BY <1>5, <1>6, <2>3
    <3> HIDE DEF x
    <3> QED
      BY <3>1, <3>2, <3>3 DEF DocsOf, DocsIn
  <2> QED
    BY <2>2, <2>3
<1> HIDE DEF x
<1>9. ItemsAfter(call, db, [cache EXCEPT !.docs = x])
  BY <1>7, <1>8, ItemsAfterCache
<1> QED
  BY <1>3, <1>9 DEF rows

LEMMA DocsPatched ==
  ASSUME CacheIsSound, NEW call, call.call = "UpdateScores"
  PROVE  ItemsAfter(call, db, CA!UpdateScores(cache, call.collections, call.subset, call.id, call.patch))
<1> DEFINE docs == cache.docs
           Hit(k) == k.collection \in call.collections /\ k.id = call.id
                       /\ (call.subset = Nil \/ k.subset = call.subset)
           x == [k \in DOMAIN docs |-> IF Hit(k) THEN Over(call.patch, docs[k]) ELSE docs[k]]
<1>1. CA!UpdateScores(cache, call.collections, call.subset, call.id, call.patch) = [cache EXCEPT !.docs = x]
  BY SameDocs DEF CA!UpdateScores
<1>2. DOMAIN x = DOMAIN docs /\ \A k \in DOMAIN docs : x[k] = IF Hit(k) THEN Over(call.patch, docs[k]) ELSE docs[k]
  OBVIOUS
<1>3. \A k : Hit(k) <=> k.id = call.id /\ Hits(call, k)
  BY DEF Hits
<1> HIDE DEF x, Hit
<1>4. \A q \in DOMAIN x : q.id \in Items /\ IsDocKey(q) /\ IsDoc(q, x[q])
  BY <1>2, DocWrittenOver DEF CacheIsSound
<1>5. ASSUME NEW i \in Items
      PROVE  DocsIn(x, i) = DocsAfter(call, i, DocsOf(cache, i))
  <2> DEFINE K == {q \in DOMAIN docs : q.id = i}
             old == DocsOf(cache, i)
  <2>1. old = [q \in K |-> docs[q]] /\ DOMAIN old = K /\ \A q \in K : old[q] = docs[q] /\ q.id = i
    BY DEF DocsOf, DocsIn
  <2>2. {q \in DOMAIN x : q.id = i} = K
    BY <1>2
  <2>3. K \subseteq DOMAIN docs
    OBVIOUS
  <2> HIDE DEF K, old
  <2>4. CASE i = call.id
    <3>1. DocsAfter(call, i, old)
            = [k \in DOMAIN old |-> IF Hits(call, k) THEN Over(call.patch, old[k]) ELSE old[k]]
      BY <2>4 DEF DocsAfter
    <3>2. \A q \in K : x[q] = IF Hits(call, q) THEN Over(call.patch, old[q]) ELSE old[q]
      BY <1>2, <1>3, <2>1, <2>3, <2>4
    <3>3. [q \in K |-> x[q]] = DocsAfter(call, i, old)
      BY <2>1, <3>1, <3>2 DEF DocsIn
    <3> QED
      BY <2>2, <3>3 DEF old, DocsIn
  <2>5. CASE i # call.id
    <3>1. DocsAfter(call, i, old) = old
      BY <2>5 DEF DocsAfter
    <3>2. \A q \in K : x[q] = docs[q]
      BY <1>2, <1>3, <2>1, <2>3, <2>5
    <3>3. [q \in K |-> x[q]] = DocsAfter(call, i, old)
      BY <2>1, <3>1, <3>2 DEF DocsIn
    <3> QED
      BY <2>2, <3>3 DEF old, DocsIn
  <2> QED
    BY <2>4, <2>5
<1>6. ItemsAfter(call, db, [cache EXCEPT !.docs = x])
  BY <1>4, <1>5, ItemsAfterCache
<1> QED
  BY <1>1, <1>6

LEMMA DocsDropped ==
  ASSUME CacheIsSound, NEW call, NEW ids, call.call = "DeleteScores", OwnItemCall(call, ids)
  PROVE  ItemsAfter(call, db, CA!DeleteScores(cache, ItemCache, [subset |-> Nil, id |-> call.docsOf, before |-> Nil]))
<1> DEFINE docs == cache.docs
           cond == [subset |-> Nil, id |-> call.docsOf, before |-> Nil]
           hits == {k \in DOMAIN docs : k.collection \in ItemCache /\ k.id = call.docsOf}
           x == Without(docs, hits)
<1>1. call.docsOf \in Items /\ call.docsOf # Nil
  BY CacheAssumption DEF OwnItemCall
<1>2. {k \in DOMAIN docs :
         /\ k.collection \in ItemCache
         /\ cond.subset = Nil \/ k.subset = cond.subset
         /\ cond.id = Nil \/ k.id = cond.id
         /\ cond.before = Nil \/ docs[k].timestamp < cond.before} = hits
  BY <1>1
<1>3. CA!Valid(cond)
  BY <1>1 DEF CA!Valid
<1>4. CA!DeleteScores(cache, ItemCache, cond) = [cache EXCEPT !.docs = x]
  <2> HIDE DEF cond, hits
  <2> QED
    BY <1>2, <1>3, SameDocs DEF CA!DeleteScores
<1>5. DOMAIN x = {k \in DOMAIN docs : k.id # call.docsOf} /\ \A k \in DOMAIN x : x[k] = docs[k]
  <2>1. \A k \in DOMAIN docs : k.collection \in ItemCache
    BY DEF CacheIsSound, IsDocKey
  <2> QED
    BY <2>1 DEF Without
<1> HIDE DEF x
<1>6. \A q \in DOMAIN x : q.id \in Items /\ IsDocKey(q) /\ IsDoc(q, x[q])
  BY <1>5 DEF CacheIsSound
<1>7. ASSUME NEW i \in Items
      PROVE  DocsIn(x, i) = DocsAfter(call, i, DocsOf(cache, i))
  <2> DEFINE K == {q \in DOMAIN docs : q.id = i}
             old == DocsOf(cache, i)
  <2>1. old = [q \in K |-> docs[q]] /\ DOMAIN old = K /\ \A q \in K : q.collection \in ItemCache
    BY DEF DocsOf, DocsIn, CacheIsSound, IsDocKey
  <2>2. CASE i = call.docsOf
    <3>1. DocsAfter(call, i, old) = Without(old, {k \in DOMAIN old : k.collection \in ItemCache})
      BY <2>2 DEF DocsAfter
    <3>2. {k \in DOMAIN old : k.collection \in ItemCache} = DOMAIN old
      BY <2>1
    <3>3. DocsAfter(call, i, old) = [k \in {} |-> old[k]]
      BY <3>1, <3>2 DEF Without
    <3>4. {q \in DOMAIN x : q.id = i} = {}
      BY <1>5, <2>2
    <3> QED
      BY <3>3, <3>4 DEF DocsIn
  <2>3. CASE i # call.docsOf
    <3>1. DocsAfter(call, i, old) = old
      BY <2>3 DEF DocsAfter
    <3>2. {q \in DOMAIN x : q.id = i} = K /\ \A q \in K : x[q] = docs[q]
      BY <1>5, <2>3
    <3> QED
      BY <2>1, <3>1, <3>2 DEF DocsIn
  <2> QED
    BY <2>2, <2>3
<1>8. ItemsAfter(call, db, [cache EXCEPT !.docs = x])
  BY <1>6, <1>7, ItemsAfterCache
<1> QED
  BY <1>4, <1>8

----------------------------------------------------------------------------
(* Steps keep what the cache shows                                         *)

\* A call is about what its request touches and about nothing else.
LEMMA OthersStay ==
  ASSUME NEW call, NEW ids, OwnCall(call, ids), OwnItemCall(call, ids), NEW i \in Items, i \notin ids,
         NEW rows, NEW docs
  PROVE  RowsAfter(call, i, rows) = rows /\ DocsAfter(call, i, docs) = docs
<1>1. RowsAfter(call, i, rows) = rows
  BY DEF RowsAfter, OwnCall
<1>2. DocsAfter(call, i, docs) = docs
  BY DEF DocsAfter, OwnItemCall
<1> QED
  BY <1>1, <1>2

LEMMA NeutralCall ==
  ASSUME NEW call, call.call \notin ItemCalls
  PROVE  \A i, rows, docs : RowsAfter(call, i, rows) = rows /\ DocsAfter(call, i, docs) = docs
BY DEF ItemCalls, RowsAfter, DocsAfter

\* Two requests for one item disturb it, and neither answers for it.
LEMMA NoneAnswers ==
  ASSUME OverlapsDisturb, AloneIsAlone, NEW c \in Clients, NEW e \in Clients, e # c,
         NEW i, i \in about[c].touches, i \in about[e].touches
  PROVE  i \in disturbed /\ ~AnswersFor(e, i) /\ ~about[c].alone
BY DEF OverlapsDisturb, AloneIsAlone, AnswersFor

\* The calls that are left after one has been made are those of the list,
\* or one more that changes no item.
IsLeft(c, left) ==
  \/ left = Tail(todo[c])
  \/ \E a : a.call \notin ItemCalls /\ OwnItemCall(a, about[c].touches) /\ left = <<a>> \o Tail(todo[c])

LEMMA LeftCalls ==
  ASSUME RequestsAreSound, NEW c \in Clients, ~Idle(c), NEW left, IsLeft(c, left), NEW i, NEW rows, NEW docs,
         Leads(todo[c], i, rows, docs)
  PROVE  Leads(left, i, RowsAfter(NextCall(c), i, rows), DocsAfter(NextCall(c), i, docs))
<1> DEFINE t == Tail(todo[c])
           rows1 == RowsAfter(NextCall(c), i, rows)
           docs1 == DocsAfter(NextCall(c), i, docs)
<1>1. NextCall(c) = todo[c][1] /\ IsSequence(t) /\ IsSequence(todo[c]) /\ todo[c] # <<>>
  BY HeadsOf DEF ListFits, Idle
<1>2. Leads(t, i, rows1, docs1)
  BY <1>1, LeadsOn
<1>3. CASE left = t
  BY <1>2, <1>3
<1>4. ASSUME NEW a, a.call \notin ItemCalls, left = <<a>> \o t PROVE Leads(left, i, rows1, docs1)
  <2> HIDE DEF rows1, docs1, t
  <2>1. PICK rows2, docs2 : Reaches(t, i, rows1, docs1, rows2, docs2) /\ Agrees(rows2, docs2)
    BY <1>2 DEF Leads
  <2>2. Reaches(<<a>>, i, rows1, docs1, rows1, docs1)
    <3>1. RowsAfter(a, i, rows1) = rows1 /\ DocsAfter(a, i, docs1) = docs1
      BY <1>4, NeutralCall
    <3>2. Reaches(<<a>>, i, rows1, docs1, RowsAfter(a, i, rows1), DocsAfter(a, i, docs1))
      BY ReachesOne
    <3> QED
      BY <3>1, <3>2
  <2>3. IsSequence(<<a>>)
    BY ShortLists
  <2>4. Reaches(<<a>> \o t, i, rows1, docs1, rows2, docs2)
    BY <1>1, <2>1, <2>2, <2>3, ReachesJoined
  <2> QED
    BY <1>4, <2>1, <2>4 DEF Leads
<1> QED
  BY <1>3, <1>4 DEF IsLeft

\* What is left is of the request's own.
LEMMA LeftAreOwn ==
  ASSUME RequestsAreSound, CallsAreOwn, NEW c \in Clients, ~Idle(c), NEW left, IsLeft(c, left)
  PROVE  /\ \A q \in DOMAIN left : OwnItemCall(left[q], about[c].touches)
         /\ OwnItemCall(NextCall(c), about[c].touches)
<1> DEFINE t == Tail(todo[c])
<1>1. /\ NextCall(c) = todo[c][1] /\ 1 \in DOMAIN todo[c] /\ IsSequence(t)
      /\ \A q \in DOMAIN t : q + 1 \in DOMAIN todo[c] /\ t[q] = todo[c][q + 1]
  BY HeadsOf
<1>2. \A q \in DOMAIN t : OwnItemCall(t[q], about[c].touches)
  BY <1>1 DEF CallsAreOwn
<1> HIDE DEF t
<1>3. ASSUME NEW a, OwnItemCall(a, about[c].touches), left = <<a>> \o t, NEW q \in DOMAIN left
      PROVE  OwnItemCall(left[q], about[c].touches)
  <2> DEFINE one == <<a>>
  <2>1. IsSequence(one)
    BY ShortLists
  <2>2. DOMAIN one = {1} /\ one[1] = a /\ left = one \o t
    BY <1>3
  <2> HIDE DEF one
  <2>3. left[q] = a \/ \E h \in DOMAIN t : left[q] = t[h]
    BY <1>1, <1>3, <2>1, <2>2, JoinedLists
  <2> QED
    BY <1>2, <1>3, <2>3
<1>4. OwnItemCall(NextCall(c), about[c].touches)
  BY <1>1 DEF CallsAreOwn
<1> QED
  BY <1>2, <1>3, <1>4 DEF IsLeft, t

LEMMA FollowedByCall ==
  ASSUME CacheIInv, OrphansIInv', NEW c \in Clients, ~Idle(c), NEW d, NEW k, NEW left, NEW knows,
         Made(c, d, k, left, knows), IsLeft(c, left), ItemsAfter(NextCall(c), d, k)
  PROVE  CacheIInv'
<1> DEFINE call == NextCall(c)
           ids == about[c].touches
<1>1. RequestsAreSound /\ OverlapsDisturb /\ AloneIsAlone /\ CallsAreOwn /\ ItemsAreFollowed
  BY DEF CacheIInv, OrphansIInv, RequestsAreSound
<1>2. /\ db' = d /\ cache' = k /\ todo'[c] = left
      /\ \A e \in Clients \ {c} : todo'[e] = todo[e] /\ about'[e] = about[e]
      /\ left = <<>> => about'[c] = NoRequest
      /\ left # <<>> => /\ about'[c].touches = ids /\ about'[c].resets = about[c].resets
                        /\ about'[c].alone = about[c].alone
  <2>1. AfterCall(c, d, k, left, knows)
    BY <1>1, AboutCalled
  <2> QED
    BY <2>1 DEF AfterCall, GoesOn
<1>3. /\ left # <<>> => disturbed' = disturbed
      /\ left = <<>> => disturbed' = IF about[c].alone THEN disturbed \ about[c].resets ELSE disturbed
  BY DEF Made
<1>4. about[c].resets \subseteq ids
  BY <1>1 DEF RequestsAreSound, RequestIsSound, IsRequest
<1>5. /\ \A q \in DOMAIN left : OwnItemCall(left[q], ids)
      /\ OwnItemCall(call, ids) /\ OwnCall(call, ids)
  BY <1>1, LeftAreOwn, OwnNextCall
<1>6. CacheIsSound'
  BY <1>2 DEF ItemsAfter, StoresCanBe, CacheIsSound
<1>7. NoRequest.touches = {} /\ DOMAIN <<>> = {}
  BY DEF NoRequest
<1>8. CallsAreOwn'
  <2> SUFFICES ASSUME NEW e \in Clients, NEW q \in DOMAIN todo'[e]
               PROVE  OwnItemCall(todo'[e][q], about'[e].touches)
    BY DEF CallsAreOwn
  <2>1. CASE e # c
    BY <1>1, <1>2, <2>1 DEF CallsAreOwn
  <2>2. CASE e = c
    BY <1>2, <1>5, <1>7, <2>2
  <2> QED
    BY <2>1, <2>2
<1>9. ASSUME NEW i \in Items
      PROVE  /\ \/ i \in disturbed' \/ (\E e \in Clients : i \in about'[e].touches)
                \/ Agrees(RowsOf(d, i), DocsOf(k, i))
             /\ \A e \in Clients : AnswersFor(e, i)' => Leads(todo'[e], i, RowsOf(d, i), DocsOf(k, i))
  <2> DEFINE rows == RowsOf(db, i)
             docs == DocsOf(cache, i)
             rows1 == RowsOf(d, i)
             docs1 == DocsOf(k, i)
  <2>1. rows1 = RowsAfter(call, i, rows) /\ docs1 = DocsAfter(call, i, docs)
    BY DEF ItemsAfter
  <2>2. /\ i \in disturbed \/ (\E e \in Clients : i \in about[e].touches) \/ Agrees(rows, docs)
        /\ \A e \in Clients : AnswersFor(e, i) => Leads(todo[e], i, rows, docs)
    BY <1>1 DEF ItemsAreFollowed
  <2>3. AnswersFor(c, i) => Leads(left, i, rows1, docs1)
    BY <1>1, <2>1, <2>2, LeftCalls
  <2>4. i \notin ids => rows1 = rows /\ docs1 = docs
    BY <1>5, <2>1, OthersStay
  <2> HIDE DEF rows, docs, rows1, docs1, call
  <2>5. \A e \in Clients \ {c} : AnswersFor(e, i)' => i \notin ids /\ AnswersFor(e, i)
    <3> SUFFICES ASSUME NEW e \in Clients \ {c}, AnswersFor(e, i)' PROVE i \notin ids /\ AnswersFor(e, i)
      OBVIOUS
    <3>1. i \in about[e].touches /\ (i \notin disturbed' \/ (about[e].alone /\ i \in about[e].resets))
      BY <1>2 DEF AnswersFor
    <3>2. i \in ids => i \in disturbed /\ ~about[c].alone /\ ~AnswersFor(e, i)
      BY <1>1, <3>1, NoneAnswers
    <3>3. i \in ids => disturbed' = disturbed
      BY <1>3, <3>2
    <3>4. i \notin ids => (i \in disturbed <=> i \in disturbed')
      BY <1>3, <1>4
    <3> QED
      BY <3>1, <3>2, <3>3, <3>4 DEF AnswersFor
  <2>6. AnswersFor(c, i)' => AnswersFor(c, i) /\ left # <<>>
    BY <1>2, <1>3, <1>7 DEF AnswersFor
  <2>7. \A e \in Clients : AnswersFor(e, i)' => Leads(todo'[e], i, rows1, docs1)
    BY <1>2, <2>2, <2>3, <2>4, <2>5, <2>6
  <2>8. i \in disturbed' \/ (\E e \in Clients : i \in about'[e].touches) \/ Agrees(rows1, docs1)
    <3>1. CASE i \notin ids
      <4>1. i \in disturbed => i \in disturbed'
        BY <1>3, <1>4, <3>1
      <4> QED
        BY <1>2, <2>2, <2>4, <3>1, <4>1
    <3>2. CASE i \in ids /\ left # <<>>
      BY <1>2, <3>2
    <3>3. CASE i \in ids /\ left = <<>>
      <4>1. CASE AnswersFor(c, i)
        BY <2>3, <3>3, <4>1, LeadsNowhere
      <4>2. CASE ~AnswersFor(c, i)
        BY <1>3, <3>3, <4>2 DEF AnswersFor
      <4> QED
        BY <4>1, <4>2
    <3> QED
      BY <3>1, <3>2, <3>3
  <2> QED
    BY <2>7, <2>8 DEF rows1, docs1
<1>10. ItemsAreFollowed'
  BY <1>2, <1>9 DEF ItemsAreFollowed
<1> QED
  BY <1>6, <1>8, <1>10 DEF CacheIInv

\* A request fails.
LEMMA FollowedByFailure == ASSUME CacheIInv, OrphansIInv', NEW c \in Clients, Fails(c) PROVE CacheIInv'
<1>1. /\ todo'[c] = <<>> /\ about'[c] = NoRequest
      /\ \A e \in Clients \ {c} : todo'[e] = todo[e] /\ about'[e] = about[e]
  BY RequestFails DEF CacheIInv, OrphansIInv
<1>2. db' = db /\ cache' = cache /\ disturbed' = disturbed \cup about[c].touches
  BY DEF Fails
<1>3. about'[c].touches = {} /\ DOMAIN todo'[c] = {}
  BY <1>1 DEF NoRequest
<1>4. CacheIsSound'
  BY <1>2 DEF CacheIInv, CacheIsSound
<1>5. CallsAreOwn'
  BY <1>1, <1>3 DEF CacheIInv, CallsAreOwn
<1>6. ASSUME NEW i \in Items
      PROVE  /\ \/ i \in disturbed' \/ (\E e \in Clients : i \in about'[e].touches)
                \/ Agrees(RowsOf(db, i), DocsOf(cache, i))
             /\ \A e \in Clients : AnswersFor(e, i)' => Leads(todo'[e], i, RowsOf(db, i), DocsOf(cache, i))
  <2>1. /\ \/ i \in disturbed \/ (\E e \in Clients : i \in about[e].touches)
           \/ Agrees(RowsOf(db, i), DocsOf(cache, i))
        /\ \A e \in Clients : AnswersFor(e, i) => Leads(todo[e], i, RowsOf(db, i), DocsOf(cache, i))
    BY DEF CacheIInv, ItemsAreFollowed
  <2>2. \A e \in Clients : AnswersFor(e, i)' => e # c /\ AnswersFor(e, i)
    BY <1>1, <1>2, <1>3 DEF AnswersFor
  <2> QED
    BY <1>1, <1>2, <2>1, <2>2
<1>7. ItemsAreFollowed'
  BY <1>2, <1>6 DEF ItemsAreFollowed
<1> QED
  BY <1>4, <1>5, <1>7 DEF CacheIInv

\* A request begins with calls that lead to documents that show the row,
\* from documents that do or, where it resets the item, from any.
CacheFits(calls, ids, resets) ==
  /\ \A q \in DOMAIN calls : OwnItemCall(calls[q], ids)
  /\ \A i \in ids \cap Items :
       Agrees(RowsOf(db, i), DocsOf(cache, i)) \/ i \in resets
         => Leads(calls, i, RowsOf(db, i), DocsOf(cache, i))

LEMMA FollowedByBegin ==
  ASSUME CacheIInv, OrphansIInv', NEW c \in Clients, NEW calls, NEW ids, NEW resets, NEW stamps \in BOOLEAN,
         resets \subseteq ids, Begin(c, calls, ids, resets, stamps),
         calls # <<>> => CacheFits(calls, ids, resets)
  PROVE  CacheIInv'
<1>1. RequestsAreSound /\ CallsAreOwn /\ ItemsAreFollowed
  BY DEF CacheIInv, OrphansIInv
<1>2. Begun(c, calls, ids, resets, stamps)
  BY <1>1, AboutBegun
<1>3. /\ Idle(c) /\ db' = db /\ cache' = cache
      /\ disturbed' = disturbed \cup UNION {about[e].touches \cap ids : e \in Touching(ids)}
  BY DEF Begin
<1>4. \A e \in Clients \ {c} : /\ todo'[e] = todo[e] /\ about'[e].touches = about[e].touches
                               /\ about'[e].resets = about[e].resets
                               /\ about'[e].alone => about[e].alone
  BY <1>2 DEF Begun, GoesOnBeside
<1>5. /\ todo'[c] = calls /\ (calls = <<>> => about'[c].touches = {})
      /\ calls # <<>> => about'[c].touches = ids /\ about'[c].resets = resets
                         /\ (about'[c].alone => Touching(ids) = {})
  BY <1>2 DEF Begun, BegunByItself, NoRequest
<1>6. about[c].touches = {}
  BY <1>1, <1>3 DEF RequestsAreSound, RequestIsSound, NoRequest
<1>7. CacheIsSound'
  BY <1>3 DEF CacheIInv, CacheIsSound
<1>8. CallsAreOwn'
  <2> SUFFICES ASSUME NEW e \in Clients, NEW q \in DOMAIN todo'[e]
               PROVE  OwnItemCall(todo'[e][q], about'[e].touches)
    BY DEF CallsAreOwn
  <2>1. CASE e # c
    BY <1>1, <1>4, <2>1 DEF CallsAreOwn
  <2>2. CASE e = c
    <3>1. calls # <<>>
      BY <1>5, <2>2
    <3> QED
      BY <1>5, <2>2, <3>1 DEF CacheFits
  <2> QED
    BY <2>1, <2>2
<1>9. ASSUME NEW i \in Items
      PROVE  /\ \/ i \in disturbed' \/ (\E e \in Clients : i \in about'[e].touches)
                \/ Agrees(RowsOf(db, i), DocsOf(cache, i))
             /\ \A e \in Clients : AnswersFor(e, i)' => Leads(todo'[e], i, RowsOf(db, i), DocsOf(cache, i))
  <2>1. /\ \/ i \in disturbed \/ (\E e \in Clients : i \in about[e].touches)
           \/ Agrees(RowsOf(db, i), DocsOf(cache, i))
        /\ \A e \in Clients : AnswersFor(e, i) => Leads(todo[e], i, RowsOf(db, i), DocsOf(cache, i))
    BY <1>1 DEF ItemsAreFollowed
  <2>2. \A e \in Clients \ {c} : AnswersFor(e, i)' => AnswersFor(e, i)
    BY <1>3, <1>4 DEF AnswersFor
  <2>3. ASSUME AnswersFor(c, i)' PROVE Leads(todo'[c], i, RowsOf(db, i), DocsOf(cache, i))
    <3>1. calls # <<>> /\ i \in ids /\ (i \notin disturbed' \/ i \in resets)
      BY <1>5, <2>3 DEF AnswersFor
    <3>2. ASSUME i \notin disturbed' PROVE Agrees(RowsOf(db, i), DocsOf(cache, i))
      <4>1. i \notin disturbed
        BY <1>3, <3>2
      <4>2. ASSUME NEW e \in Clients, i \in about[e].touches PROVE FALSE
        <5>1. ~Idle(e)
          BY <1>1, <4>2, IdleTouchesNothing
        <5>2. e \in Touching(ids)
          BY <3>1, <4>2, <5>1 DEF Touching
        <5>3. i \in about[e].touches \cap ids
          BY <3>1, <4>2
        <5> QED
          BY <1>3, <3>2, <5>2, <5>3
      <4> QED
        BY <2>1, <4>1, <4>2
    <3> QED
      BY <1>5, <3>1, <3>2 DEF CacheFits
  <2>4. \A e \in Clients : AnswersFor(e, i)' => Leads(todo'[e], i, RowsOf(db, i), DocsOf(cache, i))
    BY <1>4, <2>1, <2>2, <2>3
  <2>5. (\E e \in Clients : i \in about[e].touches) => \E e \in Clients : i \in about'[e].touches
    BY <1>4, <1>6
  <2> QED
    BY <1>3, <2>1, <2>4, <2>5
<1>10. ItemsAreFollowed'
  BY <1>3, <1>9 DEF ItemsAreFollowed
<1> QED
  BY <1>7, <1>8, <1>10 DEF CacheIInv

\* Another component caches a document of an item no request is about.
LEMMA FollowedByOthers ==
  ASSUME CacheIInv, OrphansIInv', OtherCaches
  PROVE  CacheIInv'
<1>1. PICK j \in DOMAIN db.items, list \in CachedIn :
        /\ db.items[j].is_hidden = FALSE
        /\ Touching({j}) = {}
        /\ [collection |-> list.collection, subset |-> list.subset, id |-> j] \notin DOMAIN cache.docs
        /\ cache' = CA!AddScores(cache, list.collection, list.subset,
                      [h \in {j} |-> [is_hidden |-> FALSE, score |-> 1,
                                      categories |-> withWildCard(db.items[j].categories)]])
        /\ UNCHANGED <<db, todo, known, clock, requests, failures, about, disturbed, owed>>
  BY DEF OtherCaches
<1> DEFINE key == [collection |-> list.collection, subset |-> list.subset, id |-> j]
           no == FALSE
           doc == [is_hidden |-> no, score |-> 1, categories |-> withWildCard(db.items[j].categories)]
           new == [q \in {key} |-> doc]
           x == Over(new, cache.docs)
           rows == [h \in {j} |-> doc]
<1>2. cache' = [cache EXCEPT !.docs = x]
  <2>1. {[collection |-> list.collection, subset |-> list.subset, id |-> i] : i \in DOMAIN rows} = {key}
    OBVIOUS
  <2>2. [q \in {key} |-> rows[q.id]] = new
    OBVIOUS
  <2>3. cache' = CA!AddScores(cache, list.collection, list.subset, rows)
    BY <1>1
  <2> HIDE DEF rows, new
  <2> QED
    BY <2>1, <2>2, <2>3, SameDocs DEF CA!AddScores
<1>3. cache'.docs = x /\ "docs" \in DOMAIN cache'
  <2> HIDE DEF x
  <2> QED
    BY <1>2 DEF CacheIInv, CacheIsSound
<1>4. /\ key.id = j /\ key.subset = list.subset /\ key.collection = list.collection
      /\ doc.is_hidden = no /\ doc.categories = withWildCard(db.items[j].categories)
      /\ DOMAIN doc = {"is_hidden", "score", "categories"}
      /\ DOMAIN new = {key} /\ new[key] = doc
  OBVIOUS
<1>5. key \notin DOMAIN cache.docs /\ list.collection \in ItemCache /\ list.subset # Latest
  BY <1>1, CacheAssumption
<1>6. IsDocKey(key) /\ key.subset # Latest
  BY <1>5 DEF IsDocKey
<1>7. IsDoc(key, doc)
  <2> HIDE DEF doc, key
  <2> QED
    BY <1>4, <1>6 DEF IsDoc
<1>8. Shows(key, doc, db.items[j])
  <2>1. db.items[j].is_hidden = no
    BY <1>1
  <2> HIDE DEF doc, key, no
  <2> QED
    BY <1>4, <1>6, <2>1 DEF Shows
<1> HIDE DEF key, doc, new
<1>9. /\ DOMAIN x = {key} \cup DOMAIN cache.docs /\ x[key] = doc
      /\ \A q \in DOMAIN cache.docs : x[q] = cache.docs[q]
  BY <1>4, <1>5 DEF Over
<1> HIDE DEF x
<1>10. CacheIsSound'
  <2>1. j \in Items
    BY DEF CacheIInv, CacheIsSound
  <2> QED
    BY <1>1, <1>3, <1>4, <1>6, <1>7, <1>9, <2>1 DEF CacheIInv, CacheIsSound
<1>11. CallsAreOwn'
  BY <1>1 DEF CacheIInv, CallsAreOwn
<1>12. ASSUME NEW e \in Clients PROVE j \notin about[e].touches
  <2>1. j \in about[e].touches => ~Idle(e)
    BY IdleTouchesNothing DEF CacheIInv, OrphansIInv
  <2> QED
    BY <1>1, <2>1 DEF Touching
<1>13. ASSUME NEW i \in Items
      PROVE  /\ \/ i \in disturbed \/ (\E e \in Clients : i \in about[e].touches)
                \/ Agrees(RowsOf(db, i), DocsOf(cache', i))
             /\ \A e \in Clients : AnswersFor(e, i) => Leads(todo[e], i, RowsOf(db, i), DocsOf(cache', i))
  <2>1. /\ \/ i \in disturbed \/ (\E e \in Clients : i \in about[e].touches)
           \/ Agrees(RowsOf(db, i), DocsOf(cache, i))
        /\ \A e \in Clients : AnswersFor(e, i) => Leads(todo[e], i, RowsOf(db, i), DocsOf(cache, i))
    BY DEF CacheIInv, ItemsAreFollowed
  <2>2. CASE i # j
    <3>1. DocsOf(cache', i) = DocsOf(cache, i)
      <4>1. {q \in DOMAIN x : q.id = i} = {q \in DOMAIN cache.docs : q.id = i}
        BY <1>4, <1>9, <2>2
      <4> QED
        BY <1>3, <1>9, <4>1 DEF DocsOf, DocsIn
    <3> QED
      BY <2>1, <3>1
  <2>3. CASE i = j
    <3>1. \A e \in Clients : i \notin about[e].touches /\ ~AnswersFor(e, i)
      BY <1>12, <2>3 DEF AnswersFor
    <3>2. ASSUME Agrees(RowsOf(db, i), DocsOf(cache, i)) PROVE Agrees(RowsOf(db, i), DocsOf(cache', i))
      <4>1. RowsOf(db, i) = {db.items[j]}
        BY <2>3, RowOf
      <4>2. /\ DOMAIN DocsOf(cache', i) = {q \in DOMAIN x : q.id = i}
            /\ \A q \in DOMAIN DocsOf(cache', i) : DocsOf(cache', i)[q] = x[q]
        BY <1>3 DEF DocsOf, DocsIn
      <4>3. /\ DOMAIN DocsOf(cache, i) = {q \in DOMAIN cache.docs : q.id = i}
            /\ \A q \in DOMAIN DocsOf(cache, i) : DocsOf(cache, i)[q] = cache.docs[q]
        BY DEF DocsOf, DocsIn
      <4>4. \A q \in DOMAIN DocsOf(cache, i) : Shows(q, cache.docs[q], db.items[j])
        BY <3>2, <4>1, <4>3 DEF Agrees
      <4>5. \A q \in DOMAIN DocsOf(cache', i) : Shows(q, x[q], db.items[j])
        BY <1>8, <1>9, <4>2, <4>3, <4>4
      <4> QED
        BY <4>1, <4>2, <4>5 DEF Agrees
    <3> QED
      BY <2>1, <3>1, <3>2
  <2> QED
    BY <2>2, <2>3
<1>14. ItemsAreFollowed'
  <2>1. /\ db' = db /\ todo' = todo /\ about' = about /\ disturbed' = disturbed
    BY <1>1
  <2> QED
    BY <1>13, <2>1 DEF ItemsAreFollowed, AnswersFor
<1> QED
  BY <1>10, <1>11, <1>14 DEF CacheIInv

\* Every call of a request.
LEMMA FollowedByCalls == ASSUME CacheIInv, NEW c \in Clients, Calls(c) PROVE CacheIInv'
<1>1. /\ OrphansIInv /\ OrphansIInv' /\ CacheIsSound /\ CallsAreOwn /\ RequestsAreSound /\ IsStore(db)
      /\ "docs" \in DOMAIN cache
  BY OrphansKeptByCalls DEF CacheIInv, OrphansIInv, StoresAreSound, IsStore, CacheIsSound
<1>2. IsLeft(c, Tail(todo[c]))
  BY DEF IsLeft
<1>3. ASSUME ~Idle(c)
      PROVE  OwnItemCall(NextCall(c), about[c].touches) /\ OwnCall(NextCall(c), about[c].touches)
  BY <1>1, <1>2, <1>3, LeftAreOwn, OwnNextCall
<1>4. ASSUME ~Idle(c), NEW d, NEW k, NEW knows, Made(c, d, k, Tail(todo[c]), knows), ItemsAfter(NextCall(c), d, k)
      PROVE  CacheIInv'
  BY <1>1, <1>2, <1>4, FollowedByCall
<1>5. ASSUME ~Idle(c), NEW d, DataCall(c, d), ItemsAfter(NextCall(c), d, cache) PROVE CacheIInv'
  BY <1>4, <1>5 DEF DataCall
<1>6. ASSUME ~Idle(c), NEW k, CacheCall(c, k), ItemsAfter(NextCall(c), db, k) PROVE CacheIInv'
  BY <1>4, <1>6 DEF CacheCall
<1>7. ASSUME ~Idle(c), NextCall(c).call \notin ItemCalls, NEW d, NEW k, NEW left, NEW knows, IsLeft(c, left),
             Made(c, d, k, left, knows), d.items = db.items, k.docs = cache.docs, "docs" \in DOMAIN k
      PROVE  CacheIInv'
  <2>1. ItemsAfter(NextCall(c), d, k)
    BY <1>1, <1>7, ItemsStay
  <2> QED
    BY <1>1, <1>7, <2>1, FollowedByCall
<1>8. ASSUME ~Idle(c), NextCall(c).call \notin ItemCalls, NEW d, DataCall(c, d), d.items = db.items
      PROVE  CacheIInv'
  <2>1. Made(c, d, cache, Tail(todo[c]), known[c])
    BY <1>8 DEF DataCall
  <2> QED
    BY <1>1, <1>2, <1>7, <1>8, <2>1
<1> DEFINE a == NextCall(c)
<1>10. CASE BatchInsertUsers(c)
  <2>1. ~Idle(c) /\ a.call = "BatchInsertUsers" /\ DataCall(c, DB!BatchInsertUsers(db, a.users))
    BY <1>10 DEF BatchInsertUsers, Is
  <2>2. DB!BatchInsertUsers(db, a.users).items = db.items
    BY <1>1, UsersInserted
  <2> QED
    BY <1>8, <2>1, <2>2 DEF ItemCalls
<1>11. CASE CallsModifyUser(c)
  <2>1. ~Idle(c) /\ a.call = "ModifyUser" /\ DataCall(c, DB!ModifyUser(db, a.user, a.userPatch))
    BY <1>11 DEF CallsModifyUser, Is
  <2>2. DB!ModifyUser(db, a.user, a.userPatch).items = db.items
    BY <1>1, UserModified
  <2> QED
    BY <1>8, <2>1, <2>2 DEF ItemCalls
<1>12. CASE DeleteUserRow(c)
  <2>1. ~Idle(c) /\ a.call = "DeleteUserRow" /\ DataCall(c, DB!DeleteUserRow(db, a.dropped))
    BY <1>12 DEF DeleteUserRow, Is
  <2>2. DB!DeleteUserRow(db, a.dropped).items = db.items
    BY <1>1, UserDropped
  <2> QED
    BY <1>8, <2>1, <2>2 DEF ItemCalls
<1>13. CASE DeleteUserFeedback(c)
  <2>1. ~Idle(c) /\ a.call = "DeleteUserFeedback" /\ DataCall(c, DB!DeleteUserFeedback(db, a.of))
    BY <1>13 DEF DeleteUserFeedback, Is
  <2>2. DB!DeleteUserFeedback(db, a.of).items = db.items
    BY <1>1, UserFeedbackDropped
  <2> QED
    BY <1>8, <2>1, <2>2 DEF ItemCalls
<1>14. CASE BatchInsertItems(c)
  <2>1. ~Idle(c) /\ a.call = "BatchInsertItems" /\ DataCall(c, DB!BatchInsertItems(db, a.items))
    BY <1>14 DEF BatchInsertItems, Is
  <2>2. IsItemTable(a.items)
    BY <1>3, <2>1 DEF OwnItemCall
  <2>3. ItemsAfter(a, DB!BatchInsertItems(db, a.items), cache)
    BY <1>1, <2>1, <2>2, ItemsPut
  <2> QED
    BY <1>5, <2>1, <2>3
<1>15. CASE CallsModifyItem(c)
  <2>1. ~Idle(c) /\ a.call = "ModifyItem" /\ DataCall(c, DB!ModifyItem(db, a.item, a.itemPatch))
    BY <1>15 DEF CallsModifyItem, Is
  <2>2. ItemsAfter(a, DB!ModifyItem(db, a.item, a.itemPatch), cache)
    BY <1>1, <2>1, ItemPatched
  <2> QED
    BY <1>5, <2>1, <2>2
<1>16. CASE DeleteItemRow(c)
  <2>1. ~Idle(c) /\ a.call = "DeleteItemRow" /\ DataCall(c, DB!DeleteItemRow(db, a.dropped))
    BY <1>16 DEF DeleteItemRow, Is
  <2>2. ItemsAfter(a, DB!DeleteItemRow(db, a.dropped), cache)
    BY <1>1, <2>1, ItemRowDropped
  <2> QED
    BY <1>5, <2>1, <2>2
<1>17. CASE DeleteItemFeedback(c)
  <2>1. ~Idle(c) /\ a.call = "DeleteItemFeedback" /\ DataCall(c, DB!DeleteItemFeedback(db, a.of))
    BY <1>17 DEF DeleteItemFeedback, Is
  <2>2. DB!DeleteItemFeedback(db, a.of).items = db.items
    BY <1>1, ItemFeedbackDropped
  <2> QED
    BY <1>8, <2>1, <2>2 DEF ItemCalls
<1>18. CASE DeleteUserItemFeedback(c)
  <2>1. /\ ~Idle(c) /\ a.call = "DeleteUserItemFeedback"
        /\ DataCall(c, DB!DeleteUserItemFeedback(db, a.pair[1], a.pair[2], a.types))
    BY <1>18 DEF DeleteUserItemFeedback, Is
  <2>2. DB!DeleteUserItemFeedback(db, a.pair[1], a.pair[2], a.types).items = db.items
    BY <1>1, PairDropped
  <2> QED
    BY <1>8, <2>1, <2>2 DEF ItemCalls
<1>19. CASE InsertUsersOfFeedback(c)
  <2> DEFINE us == UsersIn(a.feedback)
  <2>1. ~Idle(c) /\ a.call = "InsertUsersOfFeedback"
    BY <1>19 DEF InsertUsersOfFeedback, Is
  <2>2. PICK d, knows : Made(c, d, cache, Tail(todo[c]), knows) /\ d.items = db.items
    <3>1. DB!InsertMissingUsers(db, us).items = db.items
      BY <1>1, UsersKnown
    <3>2. \/ Made(c, DB!InsertMissingUsers(db, us), cache, Tail(todo[c]), [users |-> us, items |-> {}])
          \/ Made(c, db, cache, Tail(todo[c]), [users |-> us \cap DOMAIN db.users, items |-> {}])
      BY <1>19 DEF InsertUsersOfFeedback
    <3> QED
      BY <3>1, <3>2
  <2> QED
    BY <1>1, <1>2, <1>7, <2>1, <2>2 DEF ItemCalls
<1>20. CASE InsertItemsOfFeedback(c)
  <2> DEFINE is == ItemsIn(a.feedback)
             know1 == [known[c] EXCEPT !.items = is]
             know2 == [known[c] EXCEPT !.items = is \cap DOMAIN db.items]
  <2>1. ~Idle(c) /\ a.call = "InsertItemsOfFeedback"
    BY <1>20 DEF InsertItemsOfFeedback, Is
  <2>2. ItemsIn(a.feedback) \subseteq Items
    BY <1>3, <2>1 DEF OwnCall
  <2>3. /\ a.insertItem => ItemsAfter(a, DB!InsertMissingItems(db, is), cache)
        /\ ~a.insertItem => ItemsAfter(a, db, cache)
    BY <1>1, <2>1, <2>2, ItemsOfFeedbackKnown
  <2>4. /\ a.insertItem => Made(c, DB!InsertMissingItems(db, is), cache, Tail(todo[c]), know1)
        /\ ~a.insertItem => Made(c, db, cache, Tail(todo[c]), know2)
    BY <1>20 DEF InsertItemsOfFeedback
  <2> HIDE DEF know1, know2, is, a
  <2>5. CASE a.insertItem
    BY <1>4, <2>1, <2>3, <2>4, <2>5 DEF a
  <2>6. CASE ~a.insertItem
    BY <1>4, <2>1, <2>3, <2>4, <2>6 DEF a
  <2> QED
    BY <2>5, <2>6
<1>21. CASE InsertFeedback(c)
  <2> DEFINE d == DB!InsertFeedback(db, a.feedback, known[c].users, known[c].items, a.overwrite)
  <2>1. ~Idle(c) /\ a.call = "InsertFeedback" /\ DataCall(c, d)
    BY <1>21 DEF InsertFeedback, Is
  <2>2. d.items = db.items
    BY <1>1, FeedbackInserted
  <2> HIDE DEF d
  <2> QED
    BY <1>8, <2>1, <2>2 DEF ItemCalls
<1>22. CASE TakesTimes(c)
  <2> DEFINE x == SetTimes([id \in a.stamped |-> clock])
             left == <<x>> \o Tail(todo[c])
  <2>1. ~Idle(c) /\ a.call = "Now" /\ Made(c, db, cache, left, known[c])
    BY <1>22 DEF TakesTimes, Is
  <2>2. x.call = "Set"
    BY DEF SetTimes
  <2>3. x.call \notin ItemCalls /\ OwnItemCall(x, about[c].touches)
    BY <2>2 DEF ItemCalls, OwnItemCall
  <2> HIDE DEF x
  <2>4. IsLeft(c, left)
    BY <2>3 DEF IsLeft
  <2> HIDE DEF left
  <2> QED
    BY <1>1, <1>7, <2>1, <2>4 DEF ItemCalls
<1>23. CASE SetsTimes(c)
  <2> DEFINE k == [cache EXCEPT !.values = Over(a.times, cache.values)]
  <2>1. ~Idle(c) /\ a.call = "Set" /\ Made(c, db, k, Tail(todo[c]), known[c])
    BY <1>23 DEF SetsTimes, CacheCall, Is
  <2>2. k.docs = cache.docs /\ "docs" \in DOMAIN k
    BY <1>1
  <2> HIDE DEF k
  <2> QED
    BY <1>1, <1>2, <1>7, <2>1, <2>2 DEF ItemCalls
<1>24. CASE AddScores(c)
  <2> DEFINE k == CA!AddScores(cache, "NonPersonalized", Latest, [i \in {a.latest} |-> a.doc])
  <2>1. ~Idle(c) /\ a.call = "AddScores" /\ CacheCall(c, k)
    BY <1>24 DEF AddScores, Is
  <2>2. ItemsAfter(a, db, k)
    BY <1>1, <1>3, <2>1, LatestAdded
  <2> HIDE DEF k
  <2> QED
    BY <1>6, <2>1, <2>2
<1>25. CASE UpdateScores(c)
  <2> DEFINE k == CA!UpdateScores(cache, a.collections, a.subset, a.id, a.patch)
  <2>1. ~Idle(c) /\ a.call = "UpdateScores" /\ CacheCall(c, k)
    BY <1>25 DEF UpdateScores, Is
  <2>2. ItemsAfter(a, db, k)
    BY <1>1, <2>1, DocsPatched
  <2> HIDE DEF k
  <2> QED
    BY <1>6, <2>1, <2>2
<1>26. CASE DeleteScores(c)
  <2> DEFINE k == CA!DeleteScores(cache, ItemCache, [subset |-> Nil, id |-> a.docsOf, before |-> Nil])
  <2>1. ~Idle(c) /\ a.call = "DeleteScores" /\ CacheCall(c, k)
    BY <1>26 DEF DeleteScores, Is
  <2>2. ItemsAfter(a, db, k)
    BY <1>1, <1>3, <2>1, DocsDropped
  <2> HIDE DEF k
  <2> QED
    BY <1>6, <2>1, <2>2
<1>27. CASE AddSet(c)
  <2> DEFINE x == CA!WithMembers(cache.sets, "ItemCategories", CA!GetSet(cache, "ItemCategories") \cup a.categories)
             k == [cache EXCEPT !.sets = x]
  <2>1. ~Idle(c) /\ a.call = "AddSet" /\ Made(c, db, k, Tail(todo[c]), known[c])
    BY <1>27 DEF AddSet, Is, CacheCall, CA!AddSet
  <2> HIDE DEF x
  <2>2. k.docs = cache.docs /\ "docs" \in DOMAIN k
    BY <1>1
  <2> HIDE DEF k
  <2> QED
    BY <1>1, <1>2, <1>7, <2>1, <2>2 DEF ItemCalls
<1> QED
  BY <1>10, <1>11, <1>12, <1>13, <1>14, <1>15, <1>16, <1>17, <1>18, <1>19, <1>20, <1>21, <1>22, <1>23,
     <1>24, <1>25, <1>26, <1>27 DEF Calls

----------------------------------------------------------------------------
(* The lists of the handlers lead to documents that show the row           *)

LEMMA ItemIsSound ==
  ASSUME CacheIsSound, NEW i \in Items
  PROVE  AreRows(RowsOf(db, i)) /\ AreDocs(DocsOf(cache, i), i)
<1>1. AreRows(RowsOf(db, i))
  BY RowOf DEF CacheIsSound, AreRows
<1>2. AreDocs(DocsOf(cache, i), i)
  BY DEF CacheIsSound, AreDocs, DocsOf, DocsIn
<1> QED
  BY <1>1, <1>2

\* A call that changes nothing of an item.
Neutral(call, i) ==
  \A rows, docs : RowsAfter(call, i, rows) = rows /\ DocsAfter(call, i, docs) = docs

LEMMA OtherCallsAreNeutral == ASSUME NEW call, call.call \notin ItemCalls, NEW i PROVE Neutral(call, i)
BY NeutralCall DEF Neutral

\* One call of a list is about the item.
LEMMA ReachesOnce ==
  ASSUME NEW s, IsSequence(s), NEW p \in DOMAIN s, NEW i, NEW rows, NEW docs,
         \A q \in DOMAIN s \ {p} : Neutral(s[q], i)
  PROVE  Reaches(s, i, rows, docs, RowsAfter(s[p], i, rows), DocsAfter(s[p], i, docs))
<1> DEFINE m == Len(s)
           rows1 == RowsAfter(s[p], i, rows)
           docs1 == DocsAfter(s[p], i, docs)
           R == [n \in 0 .. m |-> IF n < p THEN rows ELSE rows1]
           D == [n \in 0 .. m |-> IF n < p THEN docs ELSE docs1]
<1>1. m \in Nat /\ DOMAIN s = 1 .. m
  BY JoinedLists
<1>2. /\ \A n \in 0 .. m : n < p => R[n] = rows /\ D[n] = docs
      /\ \A n \in 0 .. m : ~(n < p) => R[n] = rows1 /\ D[n] = docs1
  OBVIOUS
<1> HIDE DEF R, D, m
<1>3. R[0] = rows /\ D[0] = docs /\ R[m] = rows1 /\ D[m] = docs1
  BY <1>1, <1>2
<1>4. ASSUME NEW n \in DOMAIN s
      PROVE  R[n] = RowsAfter(s[n], i, R[n - 1]) /\ D[n] = DocsAfter(s[n], i, D[n - 1])
  <2>1. n \in 0 .. m /\ n - 1 \in 0 .. m /\ p \in 1 .. m
    BY <1>1
  <2>2. CASE n = p
    BY <1>1, <1>2, <2>1, <2>2
  <2>3. CASE n < p
    BY <1>1, <1>2, <2>1, <2>3 DEF Neutral
  <2>4. CASE n > p
    BY <1>1, <1>2, <2>1, <2>4 DEF Neutral
  <2> QED
    BY <1>1, <2>1, <2>2, <2>3, <2>4
<1> QED
  BY <1>3, <1>4 DEF Reaches, m

\* Two of them are.
LEMMA ReachesTwice ==
  ASSUME NEW s, IsSequence(s), NEW p \in DOMAIN s, NEW e \in DOMAIN s, p < e, NEW i, NEW rows, NEW docs,
         \A q \in DOMAIN s \ {p, e} : Neutral(s[q], i)
  PROVE  Reaches(s, i, rows, docs, RowsAfter(s[e], i, RowsAfter(s[p], i, rows)),
                 DocsAfter(s[e], i, DocsAfter(s[p], i, docs)))
<1> DEFINE m == Len(s)
           rows1 == RowsAfter(s[p], i, rows)
           docs1 == DocsAfter(s[p], i, docs)
           rows2 == RowsAfter(s[e], i, rows1)
           docs2 == DocsAfter(s[e], i, docs1)
           R == [n \in 0 .. m |-> IF n < p THEN rows ELSE IF n < e THEN rows1 ELSE rows2]
           D == [n \in 0 .. m |-> IF n < p THEN docs ELSE IF n < e THEN docs1 ELSE docs2]
<1>1. m \in Nat /\ DOMAIN s = 1 .. m
  BY JoinedLists
<1>2. /\ \A n \in 0 .. m : n < p => R[n] = rows /\ D[n] = docs
      /\ \A n \in 0 .. m : ~(n < p) /\ n < e => R[n] = rows1 /\ D[n] = docs1
      /\ \A n \in 0 .. m : ~(n < p) /\ ~(n < e) => R[n] = rows2 /\ D[n] = docs2
  OBVIOUS
<1> HIDE DEF R, D, m
<1>3. R[0] = rows /\ D[0] = docs /\ R[m] = rows2 /\ D[m] = docs2
  BY <1>1, <1>2
<1>4. ASSUME NEW n \in DOMAIN s
      PROVE  R[n] = RowsAfter(s[n], i, R[n - 1]) /\ D[n] = DocsAfter(s[n], i, D[n - 1])
  <2>1. n \in 0 .. m /\ n - 1 \in 0 .. m /\ p \in 1 .. m /\ e \in 1 .. m
    BY <1>1
  <2>2. CASE n = p
    BY <1>1, <1>2, <2>1, <2>2
  <2>3. CASE n = e
    BY <1>1, <1>2, <2>1, <2>3
  <2>4. CASE n < p
    BY <1>1, <1>2, <2>1, <2>4 DEF Neutral
  <2>5. CASE n > p /\ n < e
    BY <1>1, <1>2, <2>1, <2>5 DEF Neutral
  <2>6. CASE n > e
    BY <1>1, <1>2, <2>1, <2>6 DEF Neutral
  <2> QED
    BY <1>1, <2>1, <2>2, <2>3, <2>4, <2>5, <2>6
<1> QED
  BY <1>3, <1>4 DEF Reaches, m

\* A list that changes no item.
LEMMA NeutralFits ==
  ASSUME NEW s, IsSequence(s), NEW ids, NEW resets, resets \cap Items = {},
         \A q \in DOMAIN s : OwnItemCall(s[q], ids) /\ \A i : Neutral(s[q], i)
  PROVE  CacheFits(s, ids, resets)
<1> SUFFICES ASSUME NEW i \in ids \cap Items, Agrees(RowsOf(db, i), DocsOf(cache, i))
             PROVE  Leads(s, i, RowsOf(db, i), DocsOf(cache, i))
  BY DEF CacheFits
<1>1. Reaches(s, i, RowsOf(db, i), DocsOf(cache, i), RowsOf(db, i), DocsOf(cache, i))
  <2>1. \A q \in DOMAIN s : /\ RowsAfter(s[q], i, RowsOf(db, i)) = RowsOf(db, i)
                            /\ DocsAfter(s[q], i, DocsOf(cache, i)) = DocsOf(cache, i)
    BY DEF Neutral
  <2> QED
    BY <2>1, ReachesSame
<1> QED
  BY <1>1 DEF Leads

LEMMA OtherCallsFit ==
  ASSUME NEW s, IsSequence(s), NEW ids, NEW resets, resets \cap Items = {},
         \A q \in DOMAIN s : s[q].call \notin ItemCalls
  PROVE  CacheFits(s, ids, resets)
<1>1. \A q \in DOMAIN s : OwnItemCall(s[q], ids) /\ \A i : Neutral(s[q], i)
  BY OtherCallsAreNeutral DEF OwnItemCall, ItemCalls
<1> QED
  BY <1>1, NeutralFits

LEMMA UserRequestsFit ==
  ASSUME NEW ids, ids \cap Items = {}
  PROVE  /\ \A t : CacheFits(insertUsers(t), ids, ids)
         /\ \A r : CacheFits(insertUser(r), ids, ids)
         /\ \A u, p : CacheFits(modifyUser(u, p), ids, {})
         /\ \A u : CacheFits(deleteUser(u), ids, ids)
<1> DEFINE none == {}
<1>0. none \cap Items = {}
  OBVIOUS
<1>1. ASSUME NEW t PROVE CacheFits(insertUsers(t), ids, ids)
  <2>1. IsSequence(insertUsers(t)) /\ \A q \in DOMAIN insertUsers(t) : insertUsers(t)[q].call \notin ItemCalls
    <3>1. IsSequence(insertUsers(t))
      BY ShortLists DEF insertUsers
    <3> QED
      BY <3>1 DEF insertUsers, PutUsers, Stamp, ItemCalls
  <2> QED
    BY <2>1, OtherCallsFit
<1>2. ASSUME NEW r PROVE CacheFits(insertUser(r), ids, ids)
  <2>1. IsSequence(insertUser(r)) /\ \A q \in DOMAIN insertUser(r) : insertUser(r)[q].call \notin ItemCalls
    <3>1. IsSequence(insertUser(r))
      BY ShortLists DEF insertUser
    <3> QED
      BY <3>1 DEF insertUser, PutUsers, Stamp, ItemCalls
  <2> QED
    BY <2>1, OtherCallsFit
<1>3. ASSUME NEW u, NEW p PROVE CacheFits(modifyUser(u, p), ids, none)
  <2>1. IsSequence(modifyUser(u, p)) /\ \A q \in DOMAIN modifyUser(u, p) : modifyUser(u, p)[q].call \notin ItemCalls
    <3>1. IsSequence(modifyUser(u, p))
      BY ShortLists DEF modifyUser
    <3> QED
      BY <3>1 DEF modifyUser, PatchUser, Stamp, ItemCalls
  <2> HIDE DEF none
  <2> QED
    BY <1>0, <2>1, OtherCallsFit
<1>4. ASSUME NEW u PROVE CacheFits(deleteUser(u), ids, ids)
  <2>1. IsSequence(deleteUser(u)) /\ \A q \in DOMAIN deleteUser(u) : deleteUser(u)[q].call \notin ItemCalls
    <3>1. IsSequence(deleteUser(u))
      BY ShortLists DEF deleteUser
    <3> QED
      BY <3>1 DEF deleteUser, DropUser, DropUserFeedback, ItemCalls
  <2> QED
    BY <2>1, OtherCallsFit
<1> QED
  BY <1>1, <1>2, <1>3, <1>4

LEMMA DeletedPairFits ==
  ASSUME NEW u, NEW i, NEW types, NEW ids, NEW resets, resets \cap Items = {}
  PROVE  CacheFits(deleteUserItemFeedback(u, i, types), ids, resets)
<1> DEFINE s == deleteUserItemFeedback(u, i, types)
<1>1. IsSequence(s)
  BY ShortLists DEF deleteUserItemFeedback
<1>2. \A q \in DOMAIN s : s[q].call \notin ItemCalls
  BY DEF deleteUserItemFeedback, DropFeedback, ItemCalls
<1> HIDE DEF s
<1>3. CacheFits(s, ids, resets)
  BY <1>1, <1>2, OtherCallsFit
<1> QED
  BY <1>3 DEF s

\* Feedback is written back to items that are there, and makes none.
LEMMA WrittenBackFits ==
  ASSUME NEW n \in Nat, NEW u, NEW answer \in [1 .. n -> Items], NEW ids, NEW resets, resets \cap Items = {}
  PROVE  CacheFits(writeBack(u, answer), ids, resets)
<1> DEFINE s == [j \in DOMAIN answer |-> WriteItemBack(WrittenBack(u, answer[j]))]
           no == FALSE
<1>1. s = [j \in 1 .. n |-> s[j]]
  OBVIOUS
<1>2. IsSequence(s) /\ DOMAIN s = 1 .. n /\ Len(s) = n
  BY <1>1, ListOf
<1>3. ASSUME NEW j \in 1 .. n, NEW e \in 1 .. 3, NEW i
      PROVE  OwnItemCall(s[j][e], ids) /\ Neutral(s[j][e], i)
  <2> DEFINE t == WrittenBack(u, answer[j])
  <2>1. s[j] = WriteItemBack(t)
    OBVIOUS
  <2> HIDE DEF t, s
  <2>2. s[j] = <<KnowUsers(t, no), KnowItems(t, no), PutFeedback(t, no)>>
    BY <2>1 DEF WriteItemBack
  <2>3. s[j][1] = KnowUsers(t, no) /\ s[j][2] = KnowItems(t, no) /\ s[j][3] = PutFeedback(t, no)
    BY <2>2
  <2>4. CASE e = 2
    <3>1. s[j][e].call = "InsertItemsOfFeedback" /\ ~s[j][e].insertItem
      BY <2>3, <2>4 DEF KnowItems
    <3>2. Neutral(s[j][e], i)
      BY <3>1 DEF Neutral, RowsAfter, DocsAfter
    <3> QED
      BY <3>1, <3>2 DEF OwnItemCall
  <2>5. CASE e # 2
    <3>1. s[j][e].call \in {"InsertUsersOfFeedback", "InsertFeedback"}
      BY <2>3, <2>5 DEF KnowUsers, PutFeedback
    <3>2. s[j][e].call \notin ItemCalls
      BY <3>1 DEF ItemCalls
    <3>3. OwnItemCall(s[j][e], ids)
      BY <3>1 DEF OwnItemCall
    <3> QED
      BY <3>2, <3>3, OtherCallsAreNeutral
  <2> QED
    BY <2>4, <2>5
<1> HIDE DEF s
<1>4. /\ IsSequence(InTurn(s, 3))
      /\ \A q \in DOMAIN InTurn(s, 3) : \E j \in DOMAIN s, e \in 1 .. 3 : InTurn(s, 3)[q] = s[j][e]
  <2> DEFINE three == 3
  <2>1. three \in {2, 3}
    OBVIOUS
  <2>2. /\ IsSequence(InTurn(s, three))
        /\ \A q \in DOMAIN InTurn(s, three) : \E j \in DOMAIN s, e \in 1 .. three : InTurn(s, three)[q] = s[j][e]
    <3> HIDE DEF three
    <3> QED
      BY <1>2, <2>1, CallsInTurn
  <2> QED
    BY <2>2
<1>5. \A q \in DOMAIN InTurn(s, 3) : OwnItemCall(InTurn(s, 3)[q], ids) /\ \A i : Neutral(InTurn(s, 3)[q], i)
  BY <1>2, <1>3, <1>4
<1>6. CacheFits(InTurn(s, 3), ids, resets)
  BY <1>4, <1>5, NeutralFits
<1> QED
  BY <1>6 DEF writeBack, s

\* A field of a row that is written over.
LEMMA FieldOver ==
  ASSUME NEW p, NEW row, NEW f
  PROVE  /\ f \in DOMAIN p => Over(p, row)[f] = p[f]
         /\ f \in DOMAIN row \ DOMAIN p => Over(p, row)[f] = row[f]
BY DEF Over

\* What an update leaves of the documents of an item.
LEMMA DocsWritten ==
  ASSUME NEW call, NEW i, call.call = "UpdateScores", call.id = i, NEW docs, AreDocs(docs, i)
  PROVE  /\ DOMAIN DocsAfter(call, i, docs) = DOMAIN docs
         /\ AreDocs(DocsAfter(call, i, docs), i)
         /\ \A k \in DOMAIN docs :
              DocsAfter(call, i, docs)[k] = IF Hits(call, k) THEN Over(call.patch, docs[k]) ELSE docs[k]
         /\ \A rows : RowsAfter(call, i, rows) = rows
<1> DEFINE left == DocsAfter(call, i, docs)
<1>1. left = [k \in DOMAIN docs |-> IF Hits(call, k) THEN Over(call.patch, docs[k]) ELSE docs[k]]
  BY DEF DocsAfter
<1> HIDE DEF left
<1>2. /\ DOMAIN left = DOMAIN docs
      /\ \A k \in DOMAIN docs : left[k] = IF Hits(call, k) THEN Over(call.patch, docs[k]) ELSE docs[k]
  BY <1>1
<1>3. AreDocs(left, i)
  <2>1. \A k \in DOMAIN docs : IsDoc(k, left[k])
    BY <1>2, DocWrittenOver DEF AreDocs
  <2> QED
    BY <1>2, <2>1 DEF AreDocs
<1>4. \A rows : RowsAfter(call, i, rows) = rows
  BY RowsStay
<1> QED
  BY <1>2, <1>3, <1>4 DEF left

\* One that is about everything cached of the item writes all of them.
LEMMA AllWritten ==
  ASSUME NEW i, NEW p, NEW docs, AreDocs(docs, i)
  PROVE  /\ UpdateDocs(ItemCache, Nil, i, p).call = "UpdateScores"
         /\ UpdateDocs(ItemCache, Nil, i, p).id = i
         /\ DOMAIN DocsAfter(UpdateDocs(ItemCache, Nil, i, p), i, docs) = DOMAIN docs
         /\ AreDocs(DocsAfter(UpdateDocs(ItemCache, Nil, i, p), i, docs), i)
         /\ \A k \in DOMAIN docs :
              DocsAfter(UpdateDocs(ItemCache, Nil, i, p), i, docs)[k] = Over(p, docs[k])
         /\ \A rows : RowsAfter(UpdateDocs(ItemCache, Nil, i, p), i, rows) = rows
<1> DEFINE a == UpdateDocs(ItemCache, Nil, i, p)
<1>1. a.call = "UpdateScores" /\ a.id = i /\ a.patch = p /\ a.collections = ItemCache /\ a.subset = Nil
  BY DEF UpdateDocs
<1> HIDE DEF a
<1>2. \A k \in DOMAIN docs : Hits(a, k)
  BY <1>1 DEF Hits, AreDocs, IsDocKey
<1> QED
  BY <1>1, <1>2, DocsWritten DEF a

\* Delete: no row and no document is left.
LEMMA ItemDeletionFits ==
  ASSUME CacheIsSound, NEW i \in Items
  PROVE  CacheFits(deleteItem(i), {i}, {i})
<1> DEFINE s == deleteItem(i)
           rows == RowsOf(db, i)
           docs == DocsOf(cache, i)
           rows2 == RowsAfter(s[3], i, RowsAfter(s[1], i, rows))
           docs2 == DocsAfter(s[3], i, DocsAfter(s[1], i, docs))
<1>1. IsSequence(s)
  BY ShortLists DEF deleteItem
<1>2. /\ DOMAIN s = {1, 2, 3}
      /\ s[1].call = "DeleteItemRow" /\ s[1].dropped = i
      /\ s[2].call = "DeleteItemFeedback"
      /\ s[3].call = "DeleteScores" /\ s[3].docsOf = i
  BY DEF deleteItem, DropItem, DropItemFeedback, DropDocs
<1> HIDE DEF s
<1>3. \A q \in DOMAIN s : OwnItemCall(s[q], {i})
  BY <1>2 DEF OwnItemCall
<1>4. \A q \in DOMAIN s \ {1, 3} : Neutral(s[q], i)
  <2>1. s[2].call \notin ItemCalls
    BY <1>2 DEF ItemCalls
  <2> QED
    BY <1>2, <2>1, OtherCallsAreNeutral
<1>5. Reaches(s, i, rows, docs, rows2, docs2)
  <2>1. 1 \in DOMAIN s /\ 3 \in DOMAIN s /\ 1 < 3
    BY <1>2
  <2> DEFINE one == 1
             three == 3
  <2>2. one \in DOMAIN s /\ three \in DOMAIN s /\ one < three /\ \A q \in DOMAIN s \ {one, three} : Neutral(s[q], i)
    BY <1>4, <2>1
  <2>3. Reaches(s, i, rows, docs, RowsAfter(s[three], i, RowsAfter(s[one], i, rows)),
                DocsAfter(s[three], i, DocsAfter(s[one], i, docs)))
    <3> HIDE DEF one, three, rows, docs
    <3> QED
      BY <1>1, <2>2, ReachesTwice
  <2> QED
    BY <2>3
<1>6. AreDocs(docs, i)
  BY ItemIsSound
<1> HIDE DEF rows, docs
<1>7. DOMAIN docs2 = {}
  <2>1. DocsAfter(s[1], i, docs) = docs
    BY <1>2 DEF DocsAfter
  <2>2. docs2 = Without(docs, {k \in DOMAIN docs : k.collection \in ItemCache})
    BY <1>2, <2>1 DEF DocsAfter
  <2>3. {k \in DOMAIN docs : k.collection \in ItemCache} = DOMAIN docs
    BY <1>6 DEF AreDocs, IsDocKey
  <2> QED
    BY <2>2, <2>3 DEF Without
<1> HIDE DEF rows2, docs2
<1>8. Agrees(rows2, docs2)
  BY <1>7 DEF Agrees
<1>9. Leads(s, i, rows, docs)
  BY <1>5, <1>8 DEF Leads
<1> QED
  BY <1>3, <1>9 DEF CacheFits, s, rows, docs

\* A row of one item makes a table.
LEMMA OneRowTable ==
  ASSUME NEW i \in Items, NEW row, IsRow(row)
  PROVE  /\ IsItemTable(<<[key |-> i, row |-> row]>>)
         /\ KeysOf(<<[key |-> i, row |-> row]>>) = {i}
         /\ FirstRows(<<[key |-> i, row |-> row]>>)[i] = row
<1> DEFINE r == [key |-> i, row |-> row]
           t == <<r>>
<1>1. r.key = i /\ r.row = row
  OBVIOUS
<1> HIDE DEF r
<1>2. DOMAIN t = {1} /\ t[1] = r
  OBVIOUS
<1>3. KeysOf(t) = {i}
  BY <1>1, KeyOfRow
<1> HIDE DEF t
<1>4. IsItemTable(t)
  BY <1>1, <1>2, <1>3 DEF IsItemTable
<1>5. FirstRows(t)[i] = row
  <2>1. 1 \in DOMAIN t /\ t[1].key = i /\ t[1].row = row
    BY <1>1, <1>2
  <2> DEFINE one == 1
  <2>2. one \in DOMAIN t /\ t[one].key = i /\ t[one].row = row
    BY <2>1
  <2> HIDE DEF one
  <2> QED
    BY <1>4, <2>2, OnlyRow
<1> QED
  BY <1>3, <1>4, <1>5 DEF t, r

\* The item with its categories changed, and the documents as well.
LEMMA CategorizedShows ==
  ASSUME CacheIsSound, NEW i \in Items, i \in DOMAIN db.items, NEW cs,
         Agrees(RowsOf(db, i), DocsOf(cache, i))
  PROVE  Agrees({[db.items[i] EXCEPT !.categories = cs]},
                DocsAfter(UpdateDocs(ItemCache, Nil, i, [categories |-> withWildCard(cs)]), i, DocsOf(cache, i)))
<1> DEFINE row == db.items[i]
           new == [row EXCEPT !.categories = cs]
           wild == withWildCard(cs)
           p == [categories |-> wild]
           docs == DocsOf(cache, i)
           left == DocsAfter(UpdateDocs(ItemCache, Nil, i, p), i, docs)
<1>1. IsRow(row)
  BY DEF CacheIsSound
<1>2. new.categories = cs /\ new.is_hidden = row.is_hidden /\ new.timestamp = row.timestamp
  <2> HIDE DEF row
  <2> QED
    BY <1>1 DEF IsRow, ItemFields
<1>3. AreDocs(docs, i)
  BY ItemIsSound
<1>4. RowsOf(db, i) = {row}
  BY RowOf
<1>5. \A k \in DOMAIN docs : Shows(k, docs[k], row)
  BY <1>4 DEF Agrees
<1>6. DOMAIN p = {"categories"} /\ p["categories"] = wild
  OBVIOUS
<1> HIDE DEF p, docs, row
<1>7. DOMAIN left = DOMAIN docs /\ \A k \in DOMAIN docs : left[k] = Over(p, docs[k])
  BY <1>3, AllWritten
<1> HIDE DEF new, left
<1>8. ASSUME NEW k \in DOMAIN left PROVE Shows(k, left[k], new)
  <2>1. IsDoc(k, docs[k]) /\ left[k] = Over(p, docs[k]) /\ Shows(k, docs[k], row)
    BY <1>3, <1>5, <1>7 DEF AreDocs
  <2>2. left[k].categories = wild
    BY <1>6, <2>1, FieldOver
  <2>3. left[k].is_hidden = docs[k].is_hidden
    <3>1. "is_hidden" \in DOMAIN docs[k] \ DOMAIN p
      BY <1>6, <2>1 DEF IsDoc
    <3> QED
      BY <2>1, <3>1, FieldOver
  <2>4. k.subset = Latest => left[k].score = docs[k].score
    <3>1. k.subset = Latest => "score" \in DOMAIN docs[k] \ DOMAIN p
      BY <1>6, <2>1 DEF IsDoc
    <3> QED
      BY <2>1, <3>1, FieldOver
  <2> QED
    BY <1>2, <2>1, <2>2, <2>3, <2>4 DEF Shows, wild
<1>9. Agrees({new}, left)
  BY <1>8 DEF Agrees
<1> QED
  BY <1>9 DEF new, row, left, p, docs, wild

\* The list of an insertion, and of a deletion, of a category.
LEMMA CategoryOrdersFit ==
  ASSUME CacheIsSound, NEW i \in Items, i \in DOMAIN db.items, NEW cs,
         NEW put, put = PutItems(<<[key |-> i, row |-> [db.items[i] EXCEPT !.categories = cs]]>>),
         NEW update, update = UpdateDocs(ItemCache, Nil, i, [categories |-> withWildCard(cs)])
  PROVE  CacheFits(<<put, update>>, {i}, {}) /\ CacheFits(<<update, put>>, {i}, {})
<1> DEFINE row == [db.items[i] EXCEPT !.categories = cs]
           t == <<[key |-> i, row |-> row]>>
           rows == RowsOf(db, i)
           docs == DocsOf(cache, i)
           docs2 == DocsAfter(update, i, docs)
           ids == {i}
           none == {}
           pu == <<put, update>>
           up == <<update, put>>
<1>1. IsRow(row)
  BY DEF CacheIsSound, IsRow
<1>2. Agrees(rows, docs) => Agrees({row}, docs2)
  BY CategorizedShows
<1>3. IsSequence(pu) /\ IsSequence(up)
  BY ShortLists
<1>4. /\ DOMAIN pu = {1, 2} /\ pu[1] = put /\ pu[2] = update
      /\ DOMAIN up = {1, 2} /\ up[1] = update /\ up[2] = put
  OBVIOUS
<1>5. put = PutItems(t) /\ i \in ids
  OBVIOUS
<1> HIDE DEF row, pu, up
<1>6. IsItemTable(t) /\ KeysOf(t) = {i} /\ FirstRows(t)[i] = row
  BY <1>1, OneRowTable
<1> HIDE DEF t, ids
<1>7. put.call = "BatchInsertItems" /\ put.items = t
  BY <1>5 DEF PutItems
<1>8. update.call = "UpdateScores" /\ update.id = i /\ \A x : RowsAfter(update, i, x) = x
  <2>1. update.call = "UpdateScores" /\ update.id = i
    BY DEF UpdateDocs
  <2> QED
    BY <2>1, RowsStay
<1>9. (\A x : RowsAfter(put, i, x) = {row}) /\ \A x : DocsAfter(put, i, x) = x
  BY <1>6, <1>7 DEF RowsAfter, DocsAfter
<1>10. OwnItemCall(put, ids) /\ OwnItemCall(update, ids)
  BY <1>5, <1>6, <1>7, <1>8 DEF OwnItemCall
<1> HIDE DEF rows, docs, docs2
<1>11. \A s \in {pu, up} : Reaches(s, i, rows, docs, {row}, docs2)
  <2> DEFINE one == 1
             two == 2
  <2>1. /\ one \in DOMAIN pu /\ two \in DOMAIN pu /\ one < two /\ \A q \in DOMAIN pu \ {one, two} : Neutral(pu[q], i)
        /\ one \in DOMAIN up /\ two \in DOMAIN up /\ \A q \in DOMAIN up \ {one, two} : Neutral(up[q], i)
        /\ pu[one] = put /\ pu[two] = update /\ up[one] = update /\ up[two] = put
    BY <1>4
  <2> HIDE DEF one, two
  <2>2. Reaches(pu, i, rows, docs, RowsAfter(update, i, RowsAfter(put, i, rows)),
                DocsAfter(update, i, DocsAfter(put, i, docs)))
    BY <1>3, <2>1, ReachesTwice
  <2>3. Reaches(up, i, rows, docs, RowsAfter(put, i, RowsAfter(update, i, rows)),
                DocsAfter(put, i, DocsAfter(update, i, docs)))
    BY <1>3, <2>1, ReachesTwice
  <2> QED
    BY <1>8, <1>9, <2>2, <2>3 DEF docs2
<1>12. \A s \in {pu, up} : Agrees(rows, docs) => Leads(s, i, rows, docs)
  BY <1>2, <1>11 DEF Leads
<1>13. \A s \in {pu, up} : \A q \in DOMAIN s : OwnItemCall(s[q], ids)
  BY <1>4, <1>10
<1>14. CacheFits(pu, ids, none) /\ CacheFits(up, ids, none)
  BY <1>12, <1>13 DEF CacheFits, ids, rows, docs
<1> QED
  BY <1>14 DEF pu, up, ids

LEMMA CategoriesFit ==
  ASSUME CacheIsSound, NEW i \in Items, NEW c
  PROVE  /\ insertItemCategory(i, c) # <<>> => CacheFits(insertItemCategory(i, c), {i}, {})
         /\ deleteItemCategory(i, c) # <<>> => CacheFits(deleteItemCategory(i, c), {i}, {})
<1>1. CASE DB!GetItem(db, i) = NotFound
  BY <1>1 DEF insertItemCategory, deleteItemCategory
<1>2. CASE DB!GetItem(db, i) # NotFound
  <2>1. i \in DOMAIN db.items /\ DB!GetItem(db, i) = db.items[i]
    BY <1>2 DEF DB!GetItem
  <2> DEFINE more == db.items[i].categories \cup {c}
             less == db.items[i].categories \ {c}
             put(cs) == PutItems(<<[key |-> i, row |-> [db.items[i] EXCEPT !.categories = cs]]>>)
             update(cs) == UpdateDocs(ItemCache, Nil, i, [categories |-> withWildCard(cs)])
  <2>2. /\ insertItemCategory(i, c) = <<put(more), update(more)>>
        /\ deleteItemCategory(i, c) = <<update(less), put(less)>>
    BY <1>2, <2>1 DEF insertItemCategory, deleteItemCategory, Categorized
  <2> HIDE DEF more, less
  <2>3. \A cs : CacheFits(<<put(cs), update(cs)>>, {i}, {}) /\ CacheFits(<<update(cs), put(cs)>>, {i}, {})
    BY <2>1, CategoryOrdersFit
  <2> HIDE DEF put, update
  <2> QED
    BY <2>2, <2>3
<1> QED
  BY <1>1, <1>2

\* A call that is made when a field is to be changed.
LEMMA ReachesWhen ==
  ASSUME NEW b \in BOOLEAN, NEW a, NEW i, NEW rows, NEW docs
  PROVE  /\ IsSequence(When(b, a))
         /\ \A q \in DOMAIN When(b, a) : When(b, a)[q] = a
         /\ b => Reaches(When(b, a), i, rows, docs, RowsAfter(a, i, rows), DocsAfter(a, i, docs))
         /\ ~b => Reaches(When(b, a), i, rows, docs, rows, docs)
<1>1. CASE b
  <2>1. When(b, a) = <<a>>
    BY <1>1 DEF When
  <2>2. IsSequence(<<a>>)
    BY ShortLists
  <2>3. \A q \in DOMAIN <<a>> : <<a>>[q] = a
    OBVIOUS
  <2> QED
    BY <1>1, <2>1, <2>2, <2>3, ReachesOne
<1>2. CASE ~b
  <2>1. When(b, a) = <<>>
    BY <1>2 DEF When
  <2>2. IsSequence(<<>>) /\ DOMAIN <<>> = {}
    <3>1. DOMAIN <<>> = {}
      OBVIOUS
    <3>2. IsSequence(<<>>)
      BY ShortLists
    <3> QED
      BY <3>1, <3>2
  <2> DEFINE s == <<>>
  <2>3. IsSequence(s) /\ DOMAIN s = {} /\ s = When(b, a)
    BY <2>1, <2>2
  <2>4. Reaches(s, i, rows, docs, rows, docs)
    BY ReachesNothing
  <2> HIDE DEF s
  <2>5. Reaches(When(b, a), i, rows, docs, rows, docs)
    BY <2>3, <2>4
  <2>6. IsSequence(When(b, a)) /\ DOMAIN When(b, a) = {}
    BY <2>3
  <2> QED
    BY <1>2, <2>5, <2>6
<1> QED
  BY <1>1, <1>2

\* An update that is made when a field is to be changed.
Written(b, call, i, docs, left) ==
  /\ DOMAIN left = DOMAIN docs /\ AreDocs(left, i)
  /\ \A k \in DOMAIN docs : \A f \in DOMAIN docs[k] :
       /\ b /\ Hits(call, k) /\ f \in DOMAIN call.patch => left[k][f] = call.patch[f]
       /\ ~(b /\ f \in DOMAIN call.patch) => left[k][f] = docs[k][f]

LEMMA WhenWritten ==
  ASSUME NEW b \in BOOLEAN, NEW call, NEW i, call.call = "UpdateScores", call.id = i,
         NEW rows, NEW docs, AreDocs(docs, i), NEW left, left = IF b THEN DocsAfter(call, i, docs) ELSE docs
  PROVE  Written(b, call, i, docs, left) /\ Reaches(When(b, call), i, rows, docs, rows, left)
<1>1. CASE b
  <2>1. left = DocsAfter(call, i, docs)
    BY <1>1
  <2>2. /\ DOMAIN left = DOMAIN docs /\ AreDocs(left, i)
        /\ \A k \in DOMAIN docs : left[k] = IF Hits(call, k) THEN Over(call.patch, docs[k]) ELSE docs[k]
        /\ RowsAfter(call, i, rows) = rows
    BY <2>1, DocsWritten
  <2>3. Reaches(When(b, call), i, rows, docs, RowsAfter(call, i, rows), DocsAfter(call, i, docs))
    BY <1>1, ReachesWhen
  <2>4. Reaches(When(b, call), i, rows, docs, rows, left)
    BY <2>1, <2>2, <2>3
  <2>5. ASSUME NEW k \in DOMAIN docs, NEW f \in DOMAIN docs[k]
        PROVE  /\ Hits(call, k) /\ f \in DOMAIN call.patch => left[k][f] = call.patch[f]
               /\ f \notin DOMAIN call.patch => left[k][f] = docs[k][f]
    <3>1. CASE Hits(call, k)
      <4>1. left[k] = Over(call.patch, docs[k])
        BY <2>2, <3>1
      <4> QED
        BY <4>1, FieldOver
    <3>2. CASE ~Hits(call, k)
      BY <2>2, <3>2
    <3> QED
      BY <3>1, <3>2
  <2> QED
    BY <1>1, <2>2, <2>4, <2>5 DEF Written
<1>2. CASE ~b
  <2>1. left = docs
    BY <1>2
  <2>2. Reaches(When(b, call), i, rows, docs, rows, docs)
    BY <1>2, ReachesWhen
  <2> QED
    BY <1>2, <2>1, <2>2 DEF Written
<1> QED
  BY <1>1, <1>2

\* The calls of one list after those of another.
LEMMA OwnJoined ==
  ASSUME NEW s, NEW t, IsSequence(s), IsSequence(t), NEW ids,
         \A q \in DOMAIN s : OwnItemCall(s[q], ids), \A q \in DOMAIN t : OwnItemCall(t[q], ids)
  PROVE  IsSequence(s \o t) /\ \A q \in DOMAIN (s \o t) : OwnItemCall((s \o t)[q], ids)
<1> DEFINE st == s \o t
<1>1. /\ IsSequence(st)
      /\ \A q \in DOMAIN s : st[q] = s[q]
      /\ \A q \in DOMAIN st \ DOMAIN s : q - Len(s) \in DOMAIN t /\ st[q] = t[q - Len(s)]
  BY JoinedLists
<1> HIDE DEF st
<1>2. \A q \in DOMAIN st : OwnItemCall(st[q], ids)
  BY <1>1
<1> QED
  BY <1>1, <1>2 DEF st

\* What a change of an item leaves of a field that is cached.
LEMMA ChangedField ==
  ASSUME NEW p, NEW row, NEW f \in DOMAIN row
  PROVE  Over(p, row)[f] = IF f \in DOMAIN p THEN p[f] ELSE row[f]
BY DEF Over

\* Modify: the documents first, then the row, field by field the same.
LEMMA ItemChangeFits ==
  ASSUME CacheIsSound, NEW i \in Items, NEW p
  PROVE  CacheFits(modifyItem(i, p), {i}, {})
<1> DEFINE ids == {i}
           none == {}
           b1 == "is_hidden" \in DOMAIN p
           b2 == "timestamp" \in DOMAIN p
           b3 == "categories" \in DOMAIN p
           a1 == UpdateDocs(ItemCache, Nil, i, Restriction(p, {"is_hidden"}))
           a2 == UpdateDocs({"NonPersonalized"}, Latest, i, [score |-> p.timestamp])
           a3 == UpdateDocs(ItemCache, Nil, i, [categories |-> withWildCard(p.categories)])
           w1 == When(b1, a1)
           w2 == When(b2, a2)
           w3 == When(b3, a3)
           r == <<PatchItem(i, p), Stamp({i})>>
           rows == RowsOf(db, i)
           docs == DocsOf(cache, i)
           docs1 == IF b1 THEN DocsAfter(a1, i, docs) ELSE docs
           docs2 == IF b2 THEN DocsAfter(a2, i, docs1) ELSE docs1
           docs3 == IF b3 THEN DocsAfter(a3, i, docs2) ELSE docs2
           left == {Over(p, x) : x \in rows}
<1>1. modifyItem(i, p) = ((w1 \o w2) \o w3) \o r
  BY DEF modifyItem
<1>2. AreRows(rows) /\ AreDocs(docs, i)
  BY ItemIsSound
<1>3. /\ a1.call = "UpdateScores" /\ a1.id = i /\ a1.collections = ItemCache /\ a1.subset = Nil
      /\ b1 => a1.patch["is_hidden"] = p.is_hidden /\ "is_hidden" \in DOMAIN a1.patch
      /\ DOMAIN a1.patch \subseteq {"is_hidden"}
  BY DEF UpdateDocs, Restriction
<1>4. /\ a2.call = "UpdateScores" /\ a2.id = i /\ a2.collections = {"NonPersonalized"} /\ a2.subset = Latest
      /\ a2.patch["score"] = p.timestamp /\ DOMAIN a2.patch = {"score"}
  BY DEF UpdateDocs
<1>5. /\ a3.call = "UpdateScores" /\ a3.id = i /\ a3.collections = ItemCache /\ a3.subset = Nil
      /\ a3.patch["categories"] = withWildCard(p.categories) /\ DOMAIN a3.patch = {"categories"}
  BY DEF UpdateDocs
<1>6. IsSequence(r)
  BY ShortLists
<1>7. /\ DOMAIN r = {1, 2} /\ r[1].call = "ModifyItem" /\ r[1].item = i /\ r[1].itemPatch = p
      /\ r[2].call = "Now"
  BY DEF PatchItem, Stamp
<1>8. b1 \in BOOLEAN /\ b2 \in BOOLEAN /\ b3 \in BOOLEAN /\ i \in ids
  OBVIOUS
<1> HIDE DEF a1, a2, a3, r, rows, docs, ids
<1>9. docs1 = (IF b1 THEN DocsAfter(a1, i, docs) ELSE docs) /\ docs2 = (IF b2 THEN DocsAfter(a2, i, docs1) ELSE docs1)
      /\ docs3 = IF b3 THEN DocsAfter(a3, i, docs2) ELSE docs2
  OBVIOUS
<1>10. (b1 <=> "is_hidden" \in DOMAIN p) /\ (b2 <=> "timestamp" \in DOMAIN p) /\ (b3 <=> "categories" \in DOMAIN p)
  OBVIOUS
<1> HIDE DEF docs1, docs2, docs3, b1, b2, b3
<1>11. Written(b1, a1, i, docs, docs1) /\ Reaches(w1, i, rows, docs, rows, docs1)
  <2>1. AreDocs(docs, i)
    BY <1>2 DEF Written
  <2>2. b1 \in BOOLEAN /\ a1.call = "UpdateScores" /\ a1.id = i
    BY <1>3, <1>8
  <2>3. docs1 = IF b1 THEN DocsAfter(a1, i, docs) ELSE docs
    BY <1>9
  <2> QED
    BY <2>1, <2>2, <2>3, WhenWritten
<1>12. Written(b2, a2, i, docs1, docs2) /\ Reaches(w2, i, rows, docs1, rows, docs2)
  <2>1. AreDocs(docs1, i)
    BY <1>11 DEF Written
  <2>2. b2 \in BOOLEAN /\ a2.call = "UpdateScores" /\ a2.id = i
    BY <1>4, <1>8
  <2>3. docs2 = IF b2 THEN DocsAfter(a2, i, docs1) ELSE docs1
    BY <1>9
  <2> QED
    BY <2>1, <2>2, <2>3, WhenWritten
<1>13. Written(b3, a3, i, docs2, docs3) /\ Reaches(w3, i, rows, docs2, rows, docs3)
  <2>1. AreDocs(docs2, i)
    BY <1>12 DEF Written
  <2>2. b3 \in BOOLEAN /\ a3.call = "UpdateScores" /\ a3.id = i
    BY <1>5, <1>8
  <2>3. docs3 = IF b3 THEN DocsAfter(a3, i, docs2) ELSE docs2
    BY <1>9
  <2> QED
    BY <2>1, <2>2, <2>3, WhenWritten
<1>14. /\ IsSequence(w1) /\ IsSequence(w2) /\ IsSequence(w3)
       /\ (\A q \in DOMAIN w1 : w1[q] = a1) /\ (\A q \in DOMAIN w2 : w2[q] = a2) /\ \A q \in DOMAIN w3 : w3[q] = a3
  BY <1>8, ReachesWhen
<1> HIDE DEF w1, w2, w3
<1>15. Reaches(r, i, rows, docs3, left, docs3)
  <2>1. RowsAfter(r[1], i, rows) = left /\ DocsAfter(r[1], i, docs3) = docs3
    BY <1>7 DEF RowsAfter, DocsAfter
  <2>2. r[2].call \notin ItemCalls
    BY <1>7 DEF ItemCalls
  <2> DEFINE one == 1
  <2>3. one \in DOMAIN r /\ RowsAfter(r[one], i, rows) = left /\ DocsAfter(r[one], i, docs3) = docs3
        /\ \A q \in DOMAIN r \ {one} : Neutral(r[q], i)
    BY <1>7, <2>1, <2>2, OtherCallsAreNeutral
  <2> HIDE DEF one, left
  <2>4. Reaches(r, i, rows, docs3, RowsAfter(r[one], i, rows), DocsAfter(r[one], i, docs3))
    BY <1>6, <2>3, ReachesOnce
  <2> QED
    BY <2>3, <2>4
<1> DEFINE w12 == w1 \o w2
           w123 == w12 \o w3
           s == w123 \o r
<1>16. /\ \A q \in DOMAIN w1 : OwnItemCall(w1[q], ids)
       /\ \A q \in DOMAIN w2 : OwnItemCall(w2[q], ids)
       /\ \A q \in DOMAIN w3 : OwnItemCall(w3[q], ids)
       /\ \A q \in DOMAIN r : OwnItemCall(r[q], ids)
  <2>1. OwnItemCall(a1, ids) /\ OwnItemCall(a2, ids) /\ OwnItemCall(a3, ids)
    BY <1>3, <1>4, <1>5, <1>8 DEF OwnItemCall
  <2>2. \A q \in DOMAIN r : OwnItemCall(r[q], ids)
    BY <1>7 DEF OwnItemCall
  <2> QED
    BY <1>14, <2>1, <2>2
<1> HIDE DEF left
<1>17. /\ IsSequence(w12) /\ (\A q \in DOMAIN w12 : OwnItemCall(w12[q], ids))
       /\ Reaches(w12, i, rows, docs, rows, docs2)
  BY <1>11, <1>12, <1>14, <1>16, OwnJoined, ReachesJoined
<1> HIDE DEF w12
<1>18. /\ IsSequence(w123) /\ (\A q \in DOMAIN w123 : OwnItemCall(w123[q], ids))
       /\ Reaches(w123, i, rows, docs, rows, docs3)
  BY <1>13, <1>14, <1>16, <1>17, OwnJoined, ReachesJoined
<1> HIDE DEF w123
<1>19. (\A q \in DOMAIN s : OwnItemCall(s[q], ids)) /\ Reaches(s, i, rows, docs, left, docs3)
  BY <1>6, <1>15, <1>16, <1>18, OwnJoined, ReachesJoined
<1> HIDE DEF s
<1>20. ASSUME Agrees(rows, docs) PROVE Agrees(left, docs3)
  <2> SUFFICES ASSUME NEW k \in DOMAIN docs3 PROVE left # {} /\ \A y \in left : Shows(k, docs3[k], y)
    BY DEF Agrees
  <2>1. k \in DOMAIN docs /\ k \in DOMAIN docs1 /\ k \in DOMAIN docs2 /\ k \in DOMAIN docs3
    BY <1>11, <1>12, <1>13 DEF Written
  <2>2. rows # {} /\ \A x \in rows : IsRow(x) /\ Shows(k, docs[k], x)
    BY <1>2, <1>20, <2>1 DEF Agrees, AreRows
  <2>3. IsDocKey(k) /\ IsDoc(k, docs[k]) /\ IsDoc(k, docs1[k]) /\ IsDoc(k, docs2[k])
    BY <1>2, <1>11, <1>12, <2>1 DEF AreDocs, Written
  <2>4. Hits(a1, k) /\ Hits(a3, k) /\ (k.subset = Latest => Hits(a2, k))
    BY <1>3, <1>4, <1>5, <2>3 DEF Hits, IsDocKey
  <2>5. docs3[k].is_hidden = IF b1 THEN p.is_hidden ELSE docs[k].is_hidden
    <3>1. "is_hidden" \in DOMAIN docs[k] /\ "is_hidden" \in DOMAIN docs1[k] /\ "is_hidden" \in DOMAIN docs2[k]
      BY <2>3 DEF IsDoc
    <3>2. docs3[k]["is_hidden"] = docs2[k]["is_hidden"]
      BY <1>5, <1>13, <2>1, <3>1 DEF Written
    <3>3. docs2[k]["is_hidden"] = docs1[k]["is_hidden"]
      BY <1>4, <1>12, <2>1, <3>1 DEF Written
    <3>4. b1 => docs1[k]["is_hidden"] = p.is_hidden
      BY <1>3, <1>11, <2>1, <2>4, <3>1 DEF Written
    <3>5. ~b1 => docs1[k]["is_hidden"] = docs[k]["is_hidden"]
      BY <1>11, <2>1, <3>1 DEF Written
    <3> QED
      BY <3>2, <3>3, <3>4, <3>5
  <2>6. docs3[k].categories = IF b3 THEN withWildCard(p.categories) ELSE docs[k].categories
    <3>1. "categories" \in DOMAIN docs[k] /\ "categories" \in DOMAIN docs1[k] /\ "categories" \in DOMAIN docs2[k]
      BY <2>3 DEF IsDoc
    <3>2. b3 => docs3[k]["categories"] = withWildCard(p.categories)
      BY <1>5, <1>13, <2>1, <2>4, <3>1 DEF Written
    <3>3. ~b3 => docs3[k]["categories"] = docs2[k]["categories"]
      BY <1>13, <2>1, <3>1 DEF Written
    <3>4. docs2[k]["categories"] = docs1[k]["categories"]
      BY <1>4, <1>12, <2>1, <3>1 DEF Written
    <3>5. docs1[k]["categories"] = docs[k]["categories"]
      BY <1>3, <1>11, <2>1, <3>1 DEF Written
    <3> QED
      BY <3>2, <3>3, <3>4, <3>5
  <2>7. k.subset = Latest => docs3[k].score = IF b2 THEN p.timestamp ELSE docs[k].score
    <3> SUFFICES ASSUME k.subset = Latest PROVE docs3[k].score = IF b2 THEN p.timestamp ELSE docs[k].score
      OBVIOUS
    <3>1. "score" \in DOMAIN docs[k] /\ "score" \in DOMAIN docs1[k] /\ "score" \in DOMAIN docs2[k]
      BY <2>3 DEF IsDoc
    <3>2. docs3[k]["score"] = docs2[k]["score"]
      BY <1>5, <1>13, <2>1, <3>1 DEF Written
    <3>3. b2 => docs2[k]["score"] = p.timestamp
      BY <1>4, <1>12, <2>1, <2>4, <3>1 DEF Written
    <3>4. ~b2 => docs2[k]["score"] = docs1[k]["score"]
      BY <1>12, <2>1, <3>1 DEF Written
    <3>5. docs1[k]["score"] = docs[k]["score"]
      BY <1>3, <1>11, <2>1, <3>1 DEF Written
    <3> QED
      BY <3>2, <3>3, <3>4, <3>5
  <2>8. ASSUME NEW x \in rows PROVE Shows(k, docs3[k], Over(p, x))
    <3> DEFINE y == Over(p, x)
    <3>1. "is_hidden" \in DOMAIN x /\ "categories" \in DOMAIN x /\ "timestamp" \in DOMAIN x
      BY <2>2 DEF IsRow, ItemFields
    <3>2. /\ y["is_hidden"] = IF b1 THEN p["is_hidden"] ELSE x["is_hidden"]
          /\ y["categories"] = IF b3 THEN p["categories"] ELSE x["categories"]
          /\ y["timestamp"] = IF b2 THEN p["timestamp"] ELSE x["timestamp"]
      BY <1>10, <3>1, ChangedField
    <3>3. Shows(k, docs[k], x)
      BY <2>2
    <3> HIDE DEF y
    <3>4. docs3[k].is_hidden = y.is_hidden
      BY <2>5, <3>2, <3>3 DEF Shows
    <3>5. docs3[k].categories = withWildCard(y.categories)
      BY <2>6, <3>2, <3>3 DEF Shows
    <3>6. k.subset = Latest => docs3[k].score = y.timestamp
      BY <2>7, <3>2, <3>3 DEF Shows
    <3> QED
      BY <3>4, <3>5, <3>6 DEF Shows, y
  <2> QED
    BY <2>2, <2>8 DEF left
<1>21. Agrees(rows, docs) => Leads(s, i, rows, docs)
  BY <1>19, <1>20 DEF Leads
<1>22. CacheFits(s, ids, none)
  BY <1>19, <1>21 DEF CacheFits, ids, rows, docs
<1> QED
  BY <1>1, <1>22 DEF s, w123, w12, ids

\* Feedback makes an unknown item, of which nothing is cached.
LEMMA FeedbackFits ==
  ASSUME CacheIsSound, NEW t, NEW overwrite, NEW ids, NEW resets, resets \cap Items = {}
  PROVE  CacheFits(insertFeedback(t, overwrite), ids, resets)
<1> DEFINE s == insertFeedback(t, overwrite)
<1>1. IsSequence(s)
  BY ShortLists DEF insertFeedback
<1>2. /\ DOMAIN s = {1, 2, 3, 4}
      /\ s[1].call = "InsertUsersOfFeedback" /\ s[2].call = "InsertItemsOfFeedback"
      /\ s[3].call = "InsertFeedback" /\ s[4].call = "Now"
  BY DEF insertFeedback, KnowUsers, KnowItems, PutFeedback, Stamp
<1> HIDE DEF s
<1>3. \A q \in DOMAIN s : OwnItemCall(s[q], ids)
  BY <1>2 DEF OwnItemCall
<1> DEFINE two == 2
<1>4. two \in DOMAIN s /\ s[two].call = "InsertItemsOfFeedback" /\ \A q \in DOMAIN s \ {two} : s[q].call \notin ItemCalls
  BY <1>2 DEF ItemCalls
<1> HIDE DEF two
<1>5. ASSUME NEW i \in ids \cap Items, Agrees(RowsOf(db, i), DocsOf(cache, i))
      PROVE  Leads(s, i, RowsOf(db, i), DocsOf(cache, i))
  <2> DEFINE rows == RowsOf(db, i)
             docs == DocsOf(cache, i)
             rows2 == RowsAfter(s[two], i, rows)
             docs2 == DocsAfter(s[two], i, docs)
  <2>1. Agrees(rows, docs)
    BY <1>5
  <2> HIDE DEF rows, docs
  <2>2. Reaches(s, i, rows, docs, rows2, docs2)
    BY <1>1, <1>4, ReachesOnce, OtherCallsAreNeutral
  <2>3. docs2 = docs
    BY <1>4 DEF DocsAfter
  <2>4. rows2 = rows \/ rows = {}
    BY <1>4 DEF RowsAfter
  <2> HIDE DEF rows2, docs2
  <2>5. Agrees(rows2, docs2)
    BY <2>1, <2>3, <2>4 DEF Agrees
  <2> QED
    BY <2>2, <2>5 DEF Leads, rows, docs
<1>6. CacheFits(s, ids, resets)
  BY <1>3, <1>5 DEF CacheFits
<1> QED
  BY <1>6 DEF s

\* The latest document and the others of an item that is inserted.
LEMMA InsertedShows ==
  ASSUME NEW i \in Items, NEW r, r.key = i, IsRow(r.row), NEW docs, AreDocs(docs, i)
  PROVE  /\ CacheItem(r)[1].call = "AddScores" /\ CacheItem(r)[1].latest = i
         /\ {"is_hidden", "categories", "score"} \subseteq DOMAIN CacheItem(r)[1].doc
         /\ CacheItem(r)[2].call = "UpdateScores" /\ CacheItem(r)[2].id = i
         /\ Agrees({r.row}, DocsAfter(CacheItem(r)[2], i, DocsAfter(CacheItem(r)[1], i, docs)))
<1> DEFINE row == r.row
           no == FALSE
           wild == withWildCard(row.categories)
           doc == [is_hidden |-> no, categories |-> wild, score |-> row.timestamp]
           p == [categories |-> wild, is_hidden |-> row.is_hidden]
           a == AddLatest(i, doc)
           u == UpdateDocs(ItemCache, Nil, i, p)
           key == LatestKey(i)
           docs1 == DocsAfter(a, i, docs)
           docs2 == DocsAfter(u, i, docs1)
<1>1. CacheItem(r)[1] = a /\ CacheItem(r)[2] = u
  BY DEF CacheItem
<1>2. a.call = "AddScores" /\ a.latest = i /\ a.doc = doc
  BY DEF AddLatest
<1>3. u.call = "UpdateScores" /\ u.id = i
  BY DEF UpdateDocs
<1>4. DOMAIN doc = {"is_hidden", "categories", "score"} /\ doc["score"] = row.timestamp
  OBVIOUS
<1>5. DOMAIN p = {"is_hidden", "categories"} /\ p["categories"] = wild /\ p["is_hidden"] = row.is_hidden
  OBVIOUS
<1>6. /\ key.collection = "NonPersonalized" /\ key.subset = Latest /\ key.id = i
      /\ key = [collection |-> key.collection, subset |-> key.subset, id |-> key.id]
  BY DEF LatestKey
<1>7. \A k : IsDocKey(k) /\ k.id = i /\ k.subset = Latest => k = key
  BY DEF LatestKey, IsDocKey
<1> HIDE DEF doc, p, a
<1>8. docs1 = Over([k \in {key} |-> doc], docs)
  BY <1>2 DEF DocsAfter
<1> HIDE DEF key, docs1
<1>9. /\ DOMAIN docs1 = {key} \cup DOMAIN docs /\ docs1[key] = doc
      /\ \A k \in DOMAIN docs \ {key} : docs1[k] = docs[k]
  BY <1>8 DEF Over
<1>10. AreDocs(docs1, i)
  <2>1. IsDocKey(key)
    BY <1>6 DEF IsDocKey, ItemCache
  <2>2. IsDoc(key, doc)
    BY <1>4 DEF IsDoc
  <2> QED
    BY <1>6, <1>9, <2>1, <2>2 DEF AreDocs
<1>11. DOMAIN docs2 = DOMAIN docs1 /\ \A k \in DOMAIN docs1 : docs2[k] = Over(p, docs1[k])
  BY <1>10, AllWritten
<1> HIDE DEF docs2, u
<1>12. ASSUME NEW k \in DOMAIN docs2 PROVE Shows(k, docs2[k], row)
  <2>1. docs2[k] = Over(p, docs1[k]) /\ IsDocKey(k) /\ k.id = i
    BY <1>10, <1>11 DEF AreDocs
  <2>2. docs2[k]["is_hidden"] = row.is_hidden /\ docs2[k]["categories"] = wild
    BY <1>5, <2>1, FieldOver
  <2>3. k.subset = Latest => docs2[k]["score"] = row.timestamp
    <3>1. k.subset = Latest => docs1[k] = doc
      BY <1>7, <1>9, <2>1
    <3>2. "score" \in DOMAIN doc \ DOMAIN p
      BY <1>4, <1>5
    <3> QED
      BY <1>4, <2>1, <3>1, <3>2, FieldOver
  <2> QED
    BY <2>2, <2>3 DEF Shows
<1>13. Agrees({row}, docs2)
  BY <1>12 DEF Agrees
<1> QED
  BY <1>1, <1>2, <1>3, <1>4, <1>13 DEF docs2, docs1, row

\* Insert: one item after the other in the cache, then all of them in the
\* data store.
LEMMA ItemInsertionFits ==
  ASSUME CacheIsSound, NEW t, IsSequence(t), IsItemTable(t)
  PROVE  CacheFits(batchInsertItems(t), KeysOf(t), KeysOf(t))
<1> DEFINE ids == KeysOf(t)
           m == Len(t)
           s == [j \in DOMAIN t |-> CacheItem(t[j])]
           e == AddCategories(UNION {t[j].row.categories : j \in DOMAIN t})
           l == InTurn(s, 2)
           r == <<PutItems(t), Stamp(ids), e>>
<1>1. m \in Nat /\ DOMAIN t = 1 .. m
  BY TailOfList
<1> HIDE DEF m
<1>2. IsSequence(s) /\ Len(s) = m /\ DOMAIN s = 1 .. m /\ \A j \in 1 .. m : s[j] = CacheItem(t[j])
  <2>1. s = [j \in 1 .. m |-> s[j]] /\ \A j \in 1 .. m : s[j] = CacheItem(t[j])
    BY <1>1
  <2> HIDE DEF s
  <2> QED
    BY <1>1, <2>1, ListOf
<1> HIDE DEF s
<1>3. /\ IsSequence(l) /\ DOMAIN l = 1 .. 2 * m
      /\ \A q \in DOMAIN l : l[q] = s[((q - 1) \div 2) + 1][((q - 1) % 2) + 1]
  <2> DEFINE two == 2
  <2>1. two \in {2, 3}
    OBVIOUS
  <2>2. IsSequence(InTurn(s, two))
    <3> HIDE DEF two
    <3> QED
      BY <1>1, <1>2, <2>1, CallsInTurn
  <2>3. IsSequence(l)
    BY <2>2
  <2> QED
    BY <1>2, <2>3 DEF InTurn
<1>4. IsSequence(r)
  BY ShortLists
<1>5. /\ DOMAIN r = {1, 2, 3} /\ r[1].call = "BatchInsertItems" /\ r[1].items = t
      /\ r[2].call = "Now" /\ r[3].call = "AddSet"
  BY DEF PutItems, Stamp, AddCategories
<1>6. batchInsertItems(t) = l \o r
  BY DEF batchInsertItems, s
<1> HIDE DEF l, r, e, ids
<1>7. \A j \in 1 .. m : t[j].key \in ids /\ t[j].key \in Items /\ IsRow(t[j].row)
  BY <1>1 DEF IsItemTable, KeysOf, ids
\* The item of a call of the cache.
<1>8. ASSUME NEW j \in 1 .. m
      PROVE  /\ s[j][1].call = "AddScores" /\ s[j][1].latest = t[j].key
             /\ {"is_hidden", "categories", "score"} \subseteq DOMAIN s[j][1].doc
             /\ s[j][2].call = "UpdateScores" /\ s[j][2].id = t[j].key
             /\ \A docs : AreDocs(docs, t[j].key) =>
                  Agrees({t[j].row}, DocsAfter(s[j][2], t[j].key, DocsAfter(s[j][1], t[j].key, docs)))
  <2>1. t[j].key \in Items /\ IsRow(t[j].row) /\ s[j] = CacheItem(t[j])
    BY <1>2, <1>7
  <2>2. AreDocs(EmptyTable, t[j].key)
    BY DEF AreDocs, EmptyTable
  <2> QED
    BY <2>1, <2>2, InsertedShows
<1>9. ASSUME NEW q \in DOMAIN l
      PROVE  \E j \in 1 .. m : \/ q = 2 * j - 1 /\ l[q] = s[j][1]
                               \/ q = 2 * j /\ l[q] = s[j][2]
  <2> DEFINE j == ((q - 1) \div 2) + 1
             n == ((q - 1) % 2) + 1
  <2>1. j \in 1 .. m /\ ((n = 1 /\ q = 2 * j - 1) \/ (n = 2 /\ q = 2 * j))
    <3>1. q \in Nat /\ 1 <= q /\ q <= 2 * m /\ m \in Nat
      BY <1>1, <1>3
    <3>2. \E a \in Nat, b \in {0, 1} : q - 1 = 2 * a + b /\ a = (q - 1) \div 2 /\ b = (q - 1) % 2
      BY <3>1
    <3>3. PICK a \in Nat, b \in {0, 1} : q - 1 = 2 * a + b /\ a = (q - 1) \div 2 /\ b = (q - 1) % 2
      BY <3>2
    <3>4. j = a + 1 /\ n = b + 1
      BY <3>3
    <3> HIDE DEF j, n
    <3> QED
      BY <3>1, <3>3, <3>4
  <2>2. l[q] = s[j][n]
    BY <1>3
  <2> HIDE DEF j, n
  <2> QED
    BY <2>1, <2>2
<1>10. \A j \in 1 .. m : /\ 2 * j - 1 \in DOMAIN l /\ l[2 * j - 1] = s[j][1]
                         /\ 2 * j \in DOMAIN l /\ l[2 * j] = s[j][2]
  <2> TAKE j \in 1 .. m
  <2>1. 2 * j - 1 \in DOMAIN l /\ 2 * j \in DOMAIN l
    BY <1>1, <1>3
  <2>2. /\ \A h \in 1 .. m : 2 * j - 1 = 2 * h - 1 => h = j
        /\ \A h \in 1 .. m : 2 * j - 1 # 2 * h
        /\ \A h \in 1 .. m : 2 * j = 2 * h => h = j
        /\ \A h \in 1 .. m : 2 * j # 2 * h - 1
    BY <1>1
  <2>3. l[2 * j - 1] = s[j][1]
    BY <1>9, <2>1, <2>2
  <2>4. l[2 * j] = s[j][2]
    BY <1>9, <2>1, <2>2
  <2> QED
    BY <2>1, <2>3, <2>4
<1>11. ASSUME NEW q \in DOMAIN l PROVE OwnItemCall(l[q], ids)
  <2>1. PICK j \in 1 .. m : l[q] = s[j][1] \/ l[q] = s[j][2]
    BY <1>9
  <2> QED
    BY <1>7, <1>8, <2>1 DEF OwnItemCall
<1>12. \A q \in DOMAIN r : OwnItemCall(r[q], ids)
  BY <1>5 DEF OwnItemCall
<1>13. ASSUME NEW i \in ids PROVE Leads(l \o r, i, RowsOf(db, i), DocsOf(cache, i))
  <2> DEFINE rows == RowsOf(db, i)
             docs == DocsOf(cache, i)
  <2>1. PICK j \in 1 .. m : i = t[j].key
    BY <1>1 DEF ids, KeysOf
  <2> DEFINE x == 2 * j - 1
             y == 2 * j
             docs2 == DocsAfter(l[y], i, DocsAfter(l[x], i, docs))
             row == t[j].row
  <2>2. x \in DOMAIN l /\ y \in DOMAIN l /\ x < y /\ l[x] = s[j][1] /\ l[y] = s[j][2]
    BY <1>10
  <2>3. \A q \in DOMAIN l \ {x, y} : Neutral(l[q], i)
    <3> SUFFICES ASSUME NEW q \in DOMAIN l \ {x, y} PROVE Neutral(l[q], i)
      OBVIOUS
    <3>1. PICK h \in 1 .. m : (q = 2 * h - 1 /\ l[q] = s[h][1]) \/ (q = 2 * h /\ l[q] = s[h][2])
      BY <1>9
    <3>2. h # j
      BY <3>1
    <3>3. t[h].key # i
      BY <1>1, <2>1, <3>2 DEF IsItemTable
    <3> QED
      BY <1>8, <3>1, <3>3 DEF Neutral, RowsAfter, DocsAfter
  <2>4. AreDocs(docs, i)
    BY <1>7, <2>1, ItemIsSound
  <2> HIDE DEF x, y, docs, rows
  <2>5. Agrees({row}, docs2)
    BY <1>8, <2>1, <2>2, <2>4
  <2>6. Reaches(l, i, rows, docs, RowsAfter(l[y], i, RowsAfter(l[x], i, rows)), docs2)
    BY <1>3, <2>2, <2>3, ReachesTwice
  <2>7. RowsAfter(l[y], i, RowsAfter(l[x], i, rows)) = rows
    <3>1. l[x].call = "AddScores" /\ l[y].call = "UpdateScores"
      BY <1>8, <2>2
    <3> QED
      BY <3>1, RowsStay
  <2>8. Reaches(r, i, rows, docs2, {row}, docs2)
    <3> DEFINE one == 1
    <3>1. /\ one \in DOMAIN r /\ r[one].call = "BatchInsertItems" /\ r[one].items = t
          /\ \A q \in DOMAIN r \ {one} : r[q].call \notin ItemCalls
      BY <1>5 DEF ItemCalls
    <3> HIDE DEF one, docs2
    <3>2. Reaches(r, i, rows, docs2, RowsAfter(r[one], i, rows), DocsAfter(r[one], i, docs2))
      BY <1>4, <3>1, ReachesOnce, OtherCallsAreNeutral
    <3>3. FirstRows(t)[i] = row /\ i \in KeysOf(t)
      BY <1>1, <2>1, OnlyRow
    <3>4. RowsAfter(r[one], i, rows) = {row}
      BY <3>1, <3>3 DEF RowsAfter
    <3>5. DocsAfter(r[one], i, docs2) = docs2
      BY <3>1 DEF DocsAfter
    <3> QED
      BY <3>2, <3>4, <3>5
  <2> HIDE DEF docs2, row
  <2>9. Reaches(l \o r, i, rows, docs, {row}, docs2)
    BY <1>3, <1>4, <2>6, <2>7, <2>8, ReachesJoined
  <2> QED
    BY <2>5, <2>9 DEF Leads, rows, docs
<1> DEFINE lr == l \o r
<1>14. \A q \in DOMAIN lr : OwnItemCall(lr[q], ids)
  BY <1>3, <1>4, <1>11, <1>12, OwnJoined
<1>15. \A i \in ids : Leads(lr, i, RowsOf(db, i), DocsOf(cache, i))
  BY <1>13
<1> HIDE DEF lr
<1>16. CacheFits(lr, ids, ids)
  BY <1>14, <1>15 DEF CacheFits
<1> QED
  BY <1>6, <1>16 DEF lr, ids

\* Every request begins with a list that fits the cache as well.
BeginsFollowed(c) ==
  \E calls, ids, resets, stamps :
    /\ stamps \in BOOLEAN /\ resets \subseteq ids
    /\ Begin(c, calls, ids, resets, stamps) /\ (calls # <<>> => CacheFits(calls, ids, resets))

\* The tables of items that are inserted.
LEMMA ItemTablesAre ==
  ASSUME OnceEach, NEW t \in ItemTables
  PROVE  /\ IsItemTable(t) /\ t[1].key \in Items /\ IsRow(t[1].row)
         /\ IsItemTable(<<t[1]>>) /\ KeysOf(<<t[1]>>) = {t[1].key} /\ IsSequence(<<t[1]>>)
<1>1. IsSequence(t) /\ t # <<>> /\ KeysOf(t) \subseteq Items /\ t[1].key \in KeysOf(t)
  BY NamedInTables
<1>2. Len(t) \in Nat /\ DOMAIN t = 1 .. Len(t) /\ 1 \in DOMAIN t
  BY <1>1, TailOfList
<1>3. \A j \in DOMAIN t : IsRow(t[j].row)
  BY CacheAssumption DEF IsRow
<1>4. IsItemTable(t)
  BY <1>1, <1>2, <1>3 DEF IsItemTable, OnceEach
<1> DEFINE r == t[1]
           one == <<r>>
<1>5. r.key \in Items /\ IsRow(r.row)
  BY <1>1, <1>2, <1>3
<1>6. IsSequence(one)
  BY ShortLists
<1>7. DOMAIN one = {1} /\ one[1] = r
  OBVIOUS
<1>8. KeysOf(one) = {r.key}
  BY KeyOfRow
<1> HIDE DEF one
<1>9. IsItemTable(one)
  BY <1>5, <1>7, <1>8 DEF IsItemTable
<1> QED
  BY <1>4, <1>5, <1>6, <1>8, <1>9 DEF one, r

LEMMA BeginsAreFollowed ==
  ASSUME OnceEach, CacheIsSound, NEW c \in Clients, Begins(c)
  PROVE  BeginsFollowed(c)
<1>1. ASSUME NEW calls, NEW ids, NEW resets, NEW stamps \in BOOLEAN, resets \subseteq ids,
             Begin(c, calls, ids, resets, stamps), calls # <<>> => CacheFits(calls, ids, resets)
      PROVE  BeginsFollowed(c)
  BY <1>1 DEF BeginsFollowed
<1> DEFINE none == {}
<1>0. (\A ids : none \subseteq ids) /\ none \cap Items = {} /\ \A u \in Users : {u} \cap Items = {}
  BY NamedInTables
<1>2. CASE InsertsUsers(c)
  <2>1. PICK t \in UserTables : \/ Begin(c, insertUsers(t), KeysOf(t), KeysOf(t), TRUE)
                                \/ Begin(c, insertUser(t[1]), {t[1].key}, {t[1].key}, TRUE)
    BY <1>2 DEF InsertsUsers
  <2>2. KeysOf(t) \cap Items = {} /\ {t[1].key} \cap Items = {}
    BY NamedInTables
  <2>3. CacheFits(insertUsers(t), KeysOf(t), KeysOf(t))
    BY <2>2, UserRequestsFit
  <2>4. CacheFits(insertUser(t[1]), {t[1].key}, {t[1].key})
    BY <2>2, UserRequestsFit
  <2> QED
    BY <1>1, <2>1, <2>3, <2>4
<1>3. CASE ModifiesUser(c)
  <2>1. PICK x \in UserChanges : Begin(c, modifyUser(x.id, x.patch), {x.id}, none, TRUE)
    BY <1>3 DEF ModifiesUser
  <2>2. x.id \in Users
    BY DEF Users
  <2>3. CacheFits(modifyUser(x.id, x.patch), {x.id}, none)
    BY <1>0, <2>2, UserRequestsFit
  <2> DEFINE s == modifyUser(x.id, x.patch)
             ids == {x.id}
             yes == TRUE
  <2>4. Begin(c, s, ids, none, yes) /\ CacheFits(s, ids, none) /\ yes \in BOOLEAN
    BY <2>1, <2>3
  <2> HIDE DEF s, ids, none, yes
  <2> QED
    BY <1>0, <1>1, <2>4
<1>4. CASE DeletesUser(c)
  <2>1. PICK u \in Users : Begin(c, deleteUser(u), {u}, {u}, FALSE)
    BY <1>4 DEF DeletesUser
  <2>2. CacheFits(deleteUser(u), {u}, {u})
    BY <1>0, UserRequestsFit
  <2> QED
    BY <1>1, <2>1, <2>2
<1>5. CASE InsertsItems(c)
  <2>1. PICK t \in ItemTables : \/ Begin(c, insertItems(t), KeysOf(t), KeysOf(t), TRUE)
                                \/ Begin(c, insertItem(t[1]), {t[1].key}, {t[1].key}, TRUE)
    BY <1>5 DEF InsertsItems
  <2>2. IsSequence(t) /\ IsItemTable(t) /\ IsItemTable(<<t[1]>>) /\ KeysOf(<<t[1]>>) = {t[1].key} /\ IsSequence(<<t[1]>>)
    BY ItemTablesAre, NamedInTables
  <2>3. CacheFits(insertItems(t), KeysOf(t), KeysOf(t))
    BY <2>2, ItemInsertionFits DEF insertItems
  <2>4. CacheFits(insertItem(t[1]), {t[1].key}, {t[1].key})
    <3> DEFINE one == <<t[1]>>
    <3>1. IsSequence(one) /\ IsItemTable(one) /\ KeysOf(one) = {t[1].key}
      BY <2>2
    <3> HIDE DEF one
    <3>2. CacheFits(batchInsertItems(one), {t[1].key}, {t[1].key})
      BY <3>1, ItemInsertionFits
    <3> QED
      BY <3>2 DEF insertItem, one
  <2> QED
    BY <1>1, <2>1, <2>3, <2>4
<1>6. CASE ModifiesItem(c)
  <2>1. PICK x \in ItemChanges : Begin(c, modifyItem(x.id, x.patch), {x.id}, none, TRUE)
    BY <1>6 DEF ModifiesItem
  <2>2. x.id \in Items
    BY DEF Items
  <2>3. CacheFits(modifyItem(x.id, x.patch), {x.id}, none)
    BY <2>2, ItemChangeFits
  <2> DEFINE s == modifyItem(x.id, x.patch)
             ids == {x.id}
             yes == TRUE
  <2>4. Begin(c, s, ids, none, yes) /\ CacheFits(s, ids, none) /\ yes \in BOOLEAN
    BY <2>1, <2>3
  <2> HIDE DEF s, ids, none, yes
  <2> QED
    BY <1>0, <1>1, <2>4
<1>7. CASE DeletesItem(c)
  <2>1. PICK i \in Items : Begin(c, deleteItem(i), {i}, {i}, FALSE)
    BY <1>7 DEF DeletesItem
  <2>2. CacheFits(deleteItem(i), {i}, {i})
    BY ItemDeletionFits
  <2> QED
    BY <1>1, <2>1, <2>2
<1>8. CASE ChangesCategory(c)
  <2>1. PICK i \in Items, k \in Categories :
          \/ Begin(c, insertItemCategory(i, k), {i}, none, FALSE)
          \/ Begin(c, deleteItemCategory(i, k), {i}, none, FALSE)
    BY <1>8 DEF ChangesCategory
  <2>2. /\ insertItemCategory(i, k) # <<>> => CacheFits(insertItemCategory(i, k), {i}, none)
        /\ deleteItemCategory(i, k) # <<>> => CacheFits(deleteItemCategory(i, k), {i}, none)
    BY CategoriesFit
  <2> HIDE DEF none
  <2> QED
    BY <1>0, <1>1, <2>1, <2>2
<1>9. CASE InsertsFeedback(c)
  <2>1. PICK t \in FeedbackTables, overwrite \in BOOLEAN :
          Begin(c, insertFeedback(t, overwrite), UsersIn(t) \cup ItemsIn(t), none, TRUE)
    BY <1>9 DEF InsertsFeedback
  <2> HIDE DEF none
  <2>2. CacheFits(insertFeedback(t, overwrite), UsersIn(t) \cup ItemsIn(t), none)
    BY <1>0, FeedbackFits
  <2> QED
    BY <1>0, <1>1, <2>1, <2>2
<1>10. CASE WritesBack(c)
  <2>1. PICK u \in Users, n \in 0 .. 2 :
          \E answer \in getRecommend([db |-> db, cache |-> cache], u, {}, 2, 0, FALSE, Fallback)
                          \cap [1 .. n -> Items] :
            Begin(c, writeBack(u, answer), {u} \cup {answer[j] : j \in 1 .. n}, none, FALSE)
    BY <1>10 DEF WritesBack
  <2>2. PICK answer \in [1 .. n -> Items] :
          Begin(c, writeBack(u, answer), {u} \cup {answer[j] : j \in 1 .. n}, none, FALSE)
    BY <2>1
  <2>3. n \in Nat
    OBVIOUS
  <2> HIDE DEF none
  <2>4. CacheFits(writeBack(u, answer), {u} \cup {answer[j] : j \in 1 .. n}, none)
    BY <1>0, <2>3, WrittenBackFits
  <2> QED
    BY <1>0, <1>1, <2>2, <2>4
<1>11. CASE DeletesFeedback(c)
  <2>1. PICK u \in Users, i \in Items, types \in {{}} \cup {{y} : y \in FeedbackTypes} :
          Begin(c, deleteUserItemFeedback(u, i, types), {u, i}, none, FALSE)
    BY <1>11 DEF DeletesFeedback
  <2> HIDE DEF none
  <2>2. CacheFits(deleteUserItemFeedback(u, i, types), {u, i}, none)
    BY <1>0, DeletedPairFits
  <2> QED
    BY <1>0, <1>1, <2>1, <2>2
<1> QED
  BY <1>2, <1>3, <1>4, <1>5, <1>6, <1>7, <1>8, <1>9, <1>10, <1>11 DEF Begins

----------------------------------------------------------------------------
(* The items at the beginning *)

LEMMA FilledItems ==
  ASSUME NEW us, NEW is, NEW fs
  PROVE  LET d == Filled(us, is, fs)
         IN  /\ \A i \in KeysOf(is) : d.items[i] = FirstRows(is)[i]
             /\ \A i \in ItemsIn(fs) \ KeysOf(is) : d.items[i] = BlankItem
<1> DEFINE d0 == DB!EmptyStore
           d1 == DB!BatchInsertUsers(d0, us)
           x == Over(FirstRows(is), d1.items)
           d2 == DB!BatchInsertItems(d1, is)
           d3 == DB!InsertMissingUsers(d2, UsersIn(fs))
           y == Over(d3.items, [i \in ItemsIn(fs) |-> BlankItem])
           d4 == DB!InsertMissingItems(d3, ItemsIn(fs))
           us5 == UsersIn(fs) \cap DOMAIN d4.users
           is5 == ItemsIn(fs) \cap DOMAIN d4.items
           yes == TRUE
           d5 == DB!InsertFeedback(d4, fs, us5, is5, yes)
<1>1. Filled(us, is, fs) = d5
  BY SameRows DEF Filled, DB!BatchInsertFeedback, UsersIn, ItemsIn
<1>2. IsStore(d0) /\ DOMAIN d0.items = {}
  <2>1. DB!EmptyTable = EmptyTable /\ DOMAIN EmptyTable = {}
    BY SameRows DEF EmptyTable
  <2>2. d0 = [users |-> DB!EmptyTable, items |-> DB!EmptyTable, feedback |-> DB!EmptyTable]
    BY DEF DB!EmptyStore
  <2> HIDE DEF d0
  <2> QED
    BY <2>1, <2>2 DEF IsStore
<1> HIDE DEF d0
<1>3. IsStore(d1) /\ d1.items = d0.items
  BY <1>2, UsersInserted
<1>4. d2 = [d1 EXCEPT !.items = x]
  BY SameRows DEF DB!BatchInsertItems
<1> HIDE DEF d1
<1>5. /\ DOMAIN x = KeysOf(is)
      /\ \A i \in KeysOf(is) : x[i] = FirstRows(is)[i]
  BY <1>2, <1>3 DEF Over, FirstRows
<1> HIDE DEF x, d2
<1>6. IsStore(d2) /\ d2.items = x
  BY <1>3, <1>4, TableChanges
<1>7. IsStore(d3) /\ d3.items = d2.items
  BY <1>6, UsersKnown
<1>8. d4 = [d3 EXCEPT !.items = y]
  BY SameRows DEF DB!InsertMissingItems
<1> HIDE DEF d3
<1>9. /\ \A i \in KeysOf(is) : y[i] = FirstRows(is)[i]
      /\ \A i \in ItemsIn(fs) \ KeysOf(is) : y[i] = BlankItem
  BY <1>5, <1>6, <1>7 DEF Over
<1> HIDE DEF y, d4
<1>10. IsStore(d4) /\ d4.items = y
  BY <1>7, <1>8, TableChanges
<1>11. d5.items = d4.items
  <2> HIDE DEF us5, is5, yes
  <2> QED
    BY <1>10, FeedbackInserted
<1> HIDE DEF d5
<1> QED
  BY <1>1, <1>9, <1>10, <1>11

\* The latest items are cached as they are stored.
LEMMA CacheAtFirst ==
  ASSUME NEW is
  PROVE  /\ "docs" \in DOMAIN CacheOf(is)
         /\ \A k \in DOMAIN CacheOf(is).docs :
              LET doc == CacheOf(is).docs[k]
                  row == FirstRows(is)[k.id]
              IN  /\ k.id \in KeysOf(is) /\ k = LatestKey(k.id)
                  /\ DOMAIN doc = {"is_hidden", "categories", "score"} /\ doc.is_hidden = row.is_hidden
                  /\ doc.categories = withWildCard(row.categories) /\ doc.score = row.timestamp
<1> DEFINE K == {[collection |-> "NonPersonalized", subset |-> Latest, id |-> i] : i \in KeysOf(is)}
           D == [k \in K |-> LET row == FirstRows(is)[k.id]
                             IN  [is_hidden |-> row.is_hidden, categories |-> withWildCard(row.categories),
                                  score |-> row.timestamp]]
<1>1. CacheOf(is) = [EmptyCache EXCEPT !.docs = D]
  BY DEF CacheOf
<1>2. \A k \in K : k.id \in KeysOf(is) /\ k = LatestKey(k.id)
  BY DEF LatestKey
<1>3. /\ DOMAIN D = K
      /\ \A k \in K : LET doc == D[k]
                          row == FirstRows(is)[k.id]
                      IN  /\ DOMAIN doc = {"is_hidden", "categories", "score"} /\ doc.is_hidden = row.is_hidden
                          /\ doc.categories = withWildCard(row.categories) /\ doc.score = row.timestamp
  <2> HIDE DEF K
  <2> QED
    OBVIOUS
<1> HIDE DEF D, K
<1>4. CacheOf(is).docs = D /\ "docs" \in DOMAIN CacheOf(is)
  BY <1>1 DEF EmptyCache
<1> QED
  BY <1>2, <1>3, <1>4

LEMMA FollowedAtFirst == ASSUME OnceEach, ServerInit PROVE CacheIInv
<1>1. OrphansIInv
  BY OrphansBegin
<1>2. PICK us \in UserTables, is \in ItemTables, fs \in FeedbackTables :
        db = Filled(us, is, fs) /\ cache = CacheOf(is)
  BY DEF ServerInit
<1>3. /\ DOMAIN db.items = KeysOf(is) \cup ItemsIn(fs)
      /\ \A i \in KeysOf(is) : db.items[i] = FirstRows(is)[i]
      /\ \A i \in ItemsIn(fs) \ KeysOf(is) : db.items[i] = BlankItem
  BY <1>2, FilledIsStore, FilledItems
<1>4. KeysOf(is) \subseteq Items /\ ItemsIn(fs) \subseteq Items /\ IsItemTable(is)
  BY NamedInTables, ItemTablesAre
<1>5. \A i \in KeysOf(is) : IsRow(FirstRows(is)[i])
  BY <1>4, RowsAreThere
<1>6. IsRow(BlankItem)
  BY CacheAssumption DEF IsRow
<1>7. /\ "docs" \in DOMAIN cache
      /\ \A k \in DOMAIN cache.docs :
           /\ k.id \in KeysOf(is) /\ k = LatestKey(k.id)
           /\ DOMAIN cache.docs[k] = {"is_hidden", "categories", "score"}
           /\ Shows(k, cache.docs[k], FirstRows(is)[k.id])
  BY <1>2, CacheAtFirst DEF Shows
<1>8. CacheIsSound
  <2>1. \A i \in DOMAIN db.items : i \in Items /\ IsRow(db.items[i])
    BY <1>3, <1>4, <1>5, <1>6
  <2>2. ASSUME NEW k \in DOMAIN cache.docs PROVE k.id \in Items /\ IsDocKey(k) /\ IsDoc(k, cache.docs[k])
    <3>1. k.id \in Items /\ IsDoc(k, cache.docs[k])
      BY <1>4, <1>7 DEF IsDoc
    <3>2. /\ k.collection = "NonPersonalized"
          /\ k = [collection |-> k.collection, subset |-> k.subset, id |-> k.id]
      BY <1>7 DEF LatestKey
    <3> QED
      BY <3>1, <3>2 DEF IsDocKey, ItemCache
  <2> QED
    BY <1>7, <2>1, <2>2 DEF CacheIsSound
<1>9. \A c \in Clients : todo[c] = <<>> /\ about[c].touches = {}
  BY DEF ServerInit, NoRequest
<1>10. CallsAreOwn
  BY <1>9 DEF CallsAreOwn
<1>11. ASSUME NEW i \in Items PROVE Agrees(RowsOf(db, i), DocsOf(cache, i))
  <2> SUFFICES ASSUME NEW k \in DOMAIN DocsOf(cache, i)
               PROVE  RowsOf(db, i) # {} /\ \A r \in RowsOf(db, i) : Shows(k, DocsOf(cache, i)[k], r)
    BY DEF Agrees
  <2>1. k \in DOMAIN cache.docs /\ k.id = i /\ DocsOf(cache, i)[k] = cache.docs[k]
    BY DEF DocsOf, DocsIn
  <2>2. i \in KeysOf(is) /\ RowsOf(db, i) = {FirstRows(is)[i]}
    BY <1>3, <1>7, <2>1, RowOf
  <2> QED
    BY <1>7, <2>1, <2>2
<1>12. ItemsAreFollowed
  BY <1>9, <1>11 DEF ItemsAreFollowed, AnswersFor
<1> QED
  BY <1>1, <1>8, <1>10, <1>12 DEF CacheIInv

LEMMA FollowedByStep == ASSUME OnceEach, CacheIInv, [ServerNext]_serverVars PROVE CacheIInv'
<1>1. OrphansIInv'
  BY OrphansStep DEF CacheIInv
<1>2. ASSUME NEW c \in Clients, Begins(c) PROVE CacheIInv'
  <2>1. PICK calls, ids, resets, stamps :
          /\ stamps \in BOOLEAN /\ resets \subseteq ids
          /\ Begin(c, calls, ids, resets, stamps) /\ (calls # <<>> => CacheFits(calls, ids, resets))
    BY <1>2, BeginsAreFollowed DEF BeginsFollowed, CacheIInv
  <2> QED
    BY <1>1, <2>1, FollowedByBegin
<1>3. CASE UNCHANGED serverVars
  <2>1. UNCHANGED <<db, cache, todo, about, disturbed>>
    BY <1>3 DEF serverVars
  <2> QED
    BY <1>1, <2>1 DEF CacheIInv, CacheIsSound, CallsAreOwn, ItemsAreFollowed, AnswersFor
<1> QED
  BY <1>1, <1>2, <1>3, FollowedByCalls, FollowedByFailure, FollowedByOthers DEF ServerNext

\* Where no request repeats a row, what is cached of an item is what is
\* stored of it, and nothing is cached of one that is not, unless requests
\* for it overlapped or failed: the handlers write the two stores in
\* different orders, and every one of them ends where they agree.
THEOREM CacheIsFollowed == OnceEach => (ServerSpec => []CacheFollowsStore)
<1> SUFFICES ASSUME OnceEach PROVE ServerSpec => []CacheFollowsStore
  OBVIOUS
<1>1. ServerInit => CacheIInv
  BY FollowedAtFirst
<1>2. CacheIInv /\ [ServerNext]_serverVars => CacheIInv'
  BY FollowedByStep
<1>3. CacheIInv => CacheFollowsStore
  <2> SUFFICES ASSUME CacheIInv, NEW k \in DOMAIN cache.docs, k.id \notin disturbed, Touching({k.id}) = {}
               PROVE  /\ k.id \in DOMAIN db.items
                      /\ Shows(k, cache.docs[k], db.items[k.id])
    BY DEF CacheFollowsStore, Shows
  <2> DEFINE i == k.id
  <2>1. i \in Items /\ RequestsAreSound
    BY DEF CacheIInv, CacheIsSound, OrphansIInv
  <2>2. \A c \in Clients : i \notin about[c].touches
    BY <2>1, IdleTouchesNothing DEF Touching
  <2>3. Agrees(RowsOf(db, i), DocsOf(cache, i))
    BY <2>1, <2>2 DEF CacheIInv, ItemsAreFollowed
  <2>4. k \in DOMAIN DocsOf(cache, i) /\ DocsOf(cache, i)[k] = cache.docs[k]
    BY DEF DocsOf, DocsIn
  <2>5. RowsOf(db, i) # {} /\ \A r \in RowsOf(db, i) : Shows(k, cache.docs[k], r)
    BY <2>3, <2>4 DEF Agrees
  <2> QED
    BY <2>5, RowOf
<1> QED
  BY <1>1, <1>2, <1>3, PTL DEF ServerSpec
=============================================================================
