---------------------------- MODULE RoomsProofs -----------------------------
(***************************************************************************)
(* A room stays whole and has one playable game, for every number of       *)
(* users, seats, requests in flight and crashes.                           *)
(*                                                                         *)
(* The invariant has three parts: the types with the members all different *)
(* (MembersInv), what the requests of a start know of the game they are at *)
(* (StartInv), and, as long as no two requests overlapped and none was cut *)
(* short, how far the one request in flight has come with the room         *)
(* (AloneInv).                                                             *)
(***************************************************************************)
EXTENDS Rooms, TLAPS, SequenceTheorems

Steps == {"create:room", "create:add", "join:list", "join:add", "ready:on", "ready:off",
          "leave:remove", "leave:list", "leave:update",
          "start:list", "start:create", "start:pay", "start:save"}

MemberType == [userId : User, isReady : BOOLEAN]
RequestType == [step : Steps, user : User, hostId : User, players : Seq(MemberType)]

\* No user is a member twice.
Different(players) ==
    \A i, j \in 1..Len(players) : players[i].userId = players[j].userId => i = j

RoomInv ==
    /\ status \in {"NONE", "LOBBY", "IN_PROGRESS", "FINISHED", "CANCELLED"}
    /\ hostId \in User
    /\ members \in Seq(MemberType) /\ Different(members)

RequestsInv ==
    /\ request \in [Request -> {Done} \cup RequestType]
    /\ \A r \in Request : At(r, "start:create") =>
          Different(request[r].players) /\ Len(request[r].players) >= 2

FlagsInv == overlapped \in BOOLEAN /\ refused \in BOOLEAN /\ interrupted \in BOOLEAN

MembersInv == RoomInv /\ RequestsInv /\ FlagsInv

\* The steps of a start that has created its game.
Charging == {"start:pay", "start:save"}

\* Before the room exists nothing but its creation is under way.
UncreatedInv ==
    /\ status = "NONE" =>
          /\ members = <<>> /\ game = NoGame
          /\ \A r \in Request : request[r].step \in {"done", "create:room"}
    /\ \A r \in Request : request[r].step = "create:room" =>
          status = "NONE" /\ \A o \in Request : o # r => request[o].step = "done"

\* The game has its players; one that is unpaid, or paid and without a table, has
\* a start at work on it or was given up.
GameInv ==
    game # NoGame =>
        /\ game \in GameType /\ IsInjective(game.players) /\ Len(game.players) >= 2
        /\ status \in {"IN_PROGRESS", "FINISHED", "CANCELLED"}
        /\ game.status = "WAITING" =>
              refused \/ interrupted \/ \E r \in Request : request[r].step = "start:pay"
        /\ game.status = "IN_PROGRESS" =>
              game.live \/ interrupted \/ \E r \in Request : request[r].step = "start:save"
        /\ game.live => game.status # "WAITING"
        /\ status = "IN_PROGRESS" => game.status # "FINISHED"

\* One start alone is at work on the game, and finds it as it left it.
ChargeInv ==
    /\ \A r \in Request : request[r].step \in Charging =>
          /\ game # NoGame /\ ~game.live
          /\ request[r].step = "start:pay" => game.status = "WAITING"
          /\ request[r].step = "start:save" => game.status = "IN_PROGRESS"
    /\ \A r, o \in Request :
          request[r].step \in Charging /\ request[o].step \in Charging => r = o

StartInv == UncreatedInv /\ GameInv /\ ChargeInv

WholeRoom ==
    /\ status = "LOBBY" => hostId \in Users(members)
    /\ status \in {"LOBBY", "CANCELLED"} => (status = "CANCELLED" <=> members = <<>>)

\* How far a request has come that was alone with the room from its first read on.
Creation(r) ==
    request[r].step = "create:add" =>
        status = "LOBBY" /\ members = <<>> /\ request[r].user = hostId

Joining(r) ==
    /\ request[r].step \in {"join:list", "join:add"} => status # "CANCELLED"
    /\ request[r].step = "join:add" =>
          request[r].user \notin Users(members) /\ Len(members) < MaxPlayers

Leaving(r) ==
    /\ request[r].step \in {"leave:remove", "leave:list", "leave:update"} =>
          request[r].hostId = hostId
    /\ request[r].step \in {"leave:list", "leave:update"} =>
          /\ status # "CANCELLED"
          /\ status = "LOBBY" => hostId = request[r].user \/ hostId \in Users(members)
    /\ request[r].step = "leave:update" => request[r].players = members

Between == {"create:add", "leave:list", "leave:update"}

Alone ==
    /\ \A r, o \in Request : request[r] # Done /\ request[o] # Done => r = o
    /\ Len(members) <= MaxPlayers
    /\ (\A r \in Request : request[r].step \notin Between) => WholeRoom
    /\ \A r \in Request : Creation(r) /\ Joining(r) /\ Leaving(r)

AloneInv == ~overlapped /\ ~interrupted => Alone

-----------------------------------------------------------------------------
\* A request in flight is not a request that is over.
LEMMA InFlight ==
    ASSUME NEW q \in {Done} \cup RequestType
    PROVE  /\ q # Done <=> q \in RequestType
           /\ q = Done <=> q.step = "done"
           /\ q # Done => q.step \in Steps
<1>1. Done.step = "done" /\ "done" \notin Steps BY DEF Done, Steps
<1>2. ASSUME q \in RequestType PROVE q.step \in Steps BY <1>2 DEF RequestType
<1> QED BY <1>1, <1>2

\* A member leaves the list and the others stay in order.
LEMMA Removal ==
    ASSUME NEW S, NEW s \in Seq(S), NEW i \in 1..Len(s)
    PROVE  /\ RemoveAt(s, i) \in Seq(S)
           /\ Len(RemoveAt(s, i)) = Len(s) - 1
           /\ \A j \in 1..(Len(s) - 1) : RemoveAt(s, i)[j] = IF j < i THEN s[j] ELSE s[j + 1]
<1> DEFINE a == SubSeq(s, 1, i - 1)
           b == SubSeq(s, i + 1, Len(s))
           n == Len(s)
<1>1. n \in Nat /\ i \in 1..n BY LenProperties
<1>2. /\ a \in Seq(S) /\ Len(a) = i - 1 /\ \A j \in 1..(i - 1) : a[j] = s[j]
  <2>1. 1 \in Int /\ i - 1 \in Int /\ \A j \in 1..(i - 1) : s[j] \in S
    <3>1. \A j \in 1..(i - 1) : j \in 1..Len(s) BY <1>1
    <3> QED BY <1>1, <3>1, ElementOfSeq
  <2>2. /\ a \in Seq(S)
        /\ Len(a) = IF 1 <= i - 1 THEN (i - 1) - 1 + 1 ELSE 0
        /\ \A j \in 1..((i - 1) - 1 + 1) : a[j] = s[1 + j - 1]
    BY <2>1, SubSeqProperties
  <2> HIDE DEF a
  <2>3. \A j \in 1..(i - 1) : 1 + j - 1 = j /\ j \in 1..((i - 1) - 1 + 1) BY <1>1
  <2> QED BY <1>1, <2>2, <2>3
<1>3. /\ b \in Seq(S) /\ Len(b) = n - i /\ \A j \in 1..(n - i) : b[j] = s[i + j]
  <2>1. i + 1 \in Int /\ n \in Int /\ \A j \in (i + 1)..n : s[j] \in S
    <3>1. \A j \in (i + 1)..n : j \in 1..Len(s) BY <1>1
    <3> QED BY <1>1, <3>1, ElementOfSeq
  <2>2. /\ b \in Seq(S)
        /\ Len(b) = IF i + 1 <= n THEN n - (i + 1) + 1 ELSE 0
        /\ \A j \in 1..(n - (i + 1) + 1) : b[j] = s[(i + 1) + j - 1]
    BY <2>1, SubSeqProperties
  <2> HIDE DEF b
  <2>3. \A j \in 1..(n - i) : (i + 1) + j - 1 = i + j /\ j \in 1..(n - (i + 1) + 1) BY <1>1
  <2> QED BY <1>1, <2>2, <2>3
<1> HIDE DEF a, b
<1>4. /\ a \o b \in Seq(S) /\ Len(a \o b) = Len(a) + Len(b)
      /\ \A j \in 1..(Len(a) + Len(b)) : (a \o b)[j] = IF j <= Len(a) THEN a[j] ELSE b[j - Len(a)]
  BY <1>2, <1>3, ConcatProperties
<1>5. RemoveAt(s, i) = a \o b BY DEF RemoveAt, a, b
<1> HIDE DEF n
<1>6. ASSUME NEW j \in 1..(n - 1) PROVE (a \o b)[j] = IF j < i THEN s[j] ELSE s[j + 1]
  <2>1. j \in 1..(Len(a) + Len(b)) BY <1>1, <1>2, <1>3
  <2>2. CASE j < i
    <3>1. j \in 1..(i - 1) /\ j <= Len(a) BY <1>1, <1>2, <2>2
    <3> QED BY <1>2, <1>4, <2>1, <2>2, <3>1
  <2>3. CASE ~(j < i)
    <3>1. j - Len(a) \in 1..(n - i) /\ ~(j <= Len(a)) /\ i + (j - Len(a)) = j + 1
      BY <1>1, <1>2, <2>3
    <3> QED BY <1>3, <1>4, <2>1, <2>3, <3>1
  <2> QED BY <2>2, <2>3
<1> QED BY <1>1, <1>2, <1>3, <1>4, <1>5, <1>6 DEF n

-----------------------------------------------------------------------------
\* The request r becomes q.
LEMMA RequestBecomes ==
    ASSUME RequestsInv, NEW r \in Request, NEW q \in {Done} \cup RequestType,
           request' = [request EXCEPT ![r] = q],
           q.step = "start:create" => Different(q.players) /\ Len(q.players) >= 2
    PROVE  RequestsInv'
<1>1. request' \in [Request -> {Done} \cup RequestType]
  BY DEF RequestsInv
<1>2. ASSUME NEW o \in Request, At(o, "start:create")'
      PROVE  Different(request'[o].players) /\ Len(request'[o].players) >= 2
  <2>1. request'[o] = IF o = r THEN q ELSE request[o] BY DEF RequestsInv
  <2>2. CASE o = r BY <1>2, <2>1, <2>2 DEF At
  <2>3. CASE o # r BY <1>2, <2>1, <2>3 DEF At, RequestsInv
  <2> QED BY <2>2, <2>3
<1> QED BY <1>1, <1>2 DEF RequestsInv, At

\* A request starts at its first step, which is not the creation of a game.
LEMMA BeginKeepsRequests ==
    ASSUME MembersInv, NEW r \in Request, NEW u \in User,
           NEW step \in Steps \ {"start:create"}, Begin(r, step, u)
    PROVE  RequestsInv' /\ RoomInv' /\ FlagsInv'
<1> DEFINE q == [step |-> step, user |-> u, hostId |-> hostId, players |-> <<>>]
<1>1. hostId \in User /\ <<>> \in Seq(MemberType) BY DEF MembersInv, RoomInv
<1>2. q \in RequestType /\ q.step # "start:create" BY <1>1 DEF RequestType
<1>3. request' = [request EXCEPT ![r] = q] BY DEF Begin
<1> HIDE DEF q
<1>4. RequestsInv' BY <1>2, <1>3, RequestBecomes DEF MembersInv
<1>5. RoomInv' BY DEF Begin, room, MembersInv, RoomInv
<1>6. FlagsInv' BY DEF Begin, MembersInv, FlagsInv
<1> QED BY <1>4, <1>5, <1>6

\* A request that goes on with what it has read does not come to the creation.
LEMMA ProceedsKeepsRequests ==
    ASSUME MembersInv, NEW r \in Request, request[r] # Done,
           NEW step \in Steps \ {"start:create"}, Proceeds(r, step)
    PROVE  RequestsInv' /\ FlagsInv'
<1> DEFINE q == [request[r] EXCEPT !.step = step]
<1>1. request[r] \in RequestType BY DEF MembersInv, RequestsInv
<1>2. q \in RequestType /\ q.step # "start:create" BY <1>1 DEF RequestType
<1>3. request' = [request EXCEPT ![r] = q] BY DEF Proceeds
<1> HIDE DEF q
<1> QED BY <1>2, <1>3, RequestBecomes DEF MembersInv, FlagsInv, Proceeds, history

\* A request that has listed the members knows different members.
LEMMA GoesOnKeepsRequests ==
    ASSUME MembersInv, NEW r \in Request, request[r] # Done, NEW step \in Steps,
           step = "start:create" => Len(members) >= 2, GoesOn(r, step)
    PROVE  RequestsInv' /\ FlagsInv'
<1> DEFINE q == [request[r] EXCEPT !.step = step, !.players = members]
<1>1. request[r] \in RequestType /\ members \in Seq(MemberType) /\ Different(members)
  BY DEF MembersInv, RequestsInv, RoomInv
<1>2. q \in RequestType /\ q.step = step /\ q.players = members BY <1>1 DEF RequestType
<1>3. request' = [request EXCEPT ![r] = q] BY DEF GoesOn
<1> HIDE DEF q
<1> QED BY <1>1, <1>2, <1>3, RequestBecomes DEF MembersInv, FlagsInv, GoesOn, history

\* A request that is over knows nothing.
LEMMA EndKeepsRequests ==
    ASSUME MembersInv, NEW r \in Request, request' = [request EXCEPT ![r] = Done]
    PROVE  RequestsInv'
<1>1. Done.step # "start:create" BY DEF Done
<1> QED BY <1>1, RequestBecomes DEF MembersInv

\* Adding a member keeps the members different.
LEMMA AddKeepsRoom ==
    ASSUME RoomInv, NEW u \in User, NEW ready \in BOOLEAN, AddMember(u, ready)
    PROVE  members' \in Seq(MemberType) /\ Different(members')
<1> DEFINE m == Member(u, ready)
<1>1. members \in Seq(MemberType) /\ Different(members) /\ Len(members) \in Nat
      /\ DOMAIN members = 1..Len(members)
  BY LenProperties DEF RoomInv
<1>2. m \in MemberType /\ m.userId = u BY DEF Member, MemberType
<1>3. CASE u \in Users(members) BY <1>1, <1>3 DEF AddMember
<1>4. CASE u \notin Users(members)
  <2>1. members' = Append(members, m) BY <1>4 DEF AddMember
  <2> HIDE DEF m
  <2>2. /\ members' \in Seq(MemberType) /\ Len(members') = Len(members) + 1
        /\ \A i \in 1..Len(members) : members'[i] = members[i]
        /\ members'[Len(members) + 1] = m
    BY <1>1, <1>2, <2>1, AppendProperties
  <2>3. \A i \in 1..Len(members) : members[i].userId # u
    BY <1>1, <1>4 DEF Users
  <2>4. ASSUME NEW i \in 1..Len(members'), NEW j \in 1..Len(members'),
               members'[i].userId = members'[j].userId
        PROVE  i = j
    <3>1. CASE i = Len(members) + 1 /\ j = Len(members) + 1 BY <3>1
    <3>2. CASE i = Len(members) + 1 /\ j # Len(members) + 1
      <4>1. j \in 1..Len(members) BY <1>1, <2>2, <3>2
      <4> QED BY <1>2, <2>2, <2>3, <2>4, <3>2, <4>1
    <3>3. CASE i # Len(members) + 1 /\ j = Len(members) + 1
      <4>1. i \in 1..Len(members) BY <1>1, <2>2, <3>3
      <4> QED BY <1>2, <2>2, <2>3, <2>4, <3>3, <4>1
    <3>4. CASE i # Len(members) + 1 /\ j # Len(members) + 1
      <4>1. i \in 1..Len(members) /\ j \in 1..Len(members) BY <1>1, <2>2, <3>4
      <4> QED BY <1>1, <2>2, <2>4, <4>1 DEF Different
    <3> QED BY <3>1, <3>2, <3>3, <3>4
  <2> QED BY <2>2, <2>4 DEF Different
<1> QED BY <1>3, <1>4

\* Taking a member away does too.
LEMMA RemoveKeepsRoom ==
    ASSUME RoomInv, NEW i \in DOMAIN members
    PROVE  RemoveAt(members, i) \in Seq(MemberType) /\ Different(RemoveAt(members, i))
<1> DEFINE new == RemoveAt(members, i)
           n == Len(members)
<1>1. members \in Seq(MemberType) /\ Different(members) /\ n \in Nat /\ i \in 1..n
  BY LenProperties DEF RoomInv
<1>2. /\ new \in Seq(MemberType) /\ Len(new) = n - 1
      /\ \A j \in 1..(n - 1) : new[j] = IF j < i THEN members[j] ELSE members[j + 1]
  BY <1>1, Removal
<1> HIDE DEF new
<1>3. ASSUME NEW j \in 1..Len(new), NEW k \in 1..Len(new), new[j].userId = new[k].userId
      PROVE  j = k
  <2> DEFINE Old(x) == IF x < i THEN x ELSE x + 1
  <2>1. \A x \in 1..(n - 1) : new[x] = members[Old(x)] /\ Old(x) \in 1..n BY <1>1, <1>2
  <2>2. j \in 1..(n - 1) /\ k \in 1..(n - 1) BY <1>2
  <2>3. Old(j) = Old(k)
    <3> HIDE DEF Old
    <3> QED BY <1>1, <1>3, <2>1, <2>2 DEF Different
  <2> QED BY <1>1, <2>2, <2>3
<1> QED BY <1>2, <1>3 DEF Different, new

\* A request at a step is in flight, and its user is a user.
LEMMA AtStep ==
    ASSUME MembersInv, NEW r \in Request, NEW step, At(r, step)
    PROVE  request[r] # Done /\ request[r] \in RequestType /\ request[r].user \in User
  BY DEF At, MembersInv, RequestsInv, RequestType

\* Every step keeps the types and the members different.
LEMMA MembersStep == MembersInv /\ [Next]_vars => MembersInv'
<1> SUFFICES ASSUME MembersInv, [Next]_vars PROVE MembersInv'
  OBVIOUS
<1> USE DEF MembersInv
<1>1. ASSUME NEW r \in Request, NEW u \in User, JoinBegin(r, u) PROVE MembersInv'
  <2>1. "join:list" \in Steps \ {"start:create"} BY DEF Steps
  <2> QED BY <1>1, <2>1, BeginKeepsRequests DEF JoinBegin
<1>2. ASSUME NEW r \in Request, NEW u \in User, LeaveBegin(r, u) PROVE MembersInv'
  <2>1. "leave:remove" \in Steps \ {"start:create"} BY DEF Steps
  <2> QED BY <1>2, <2>1, BeginKeepsRequests DEF LeaveBegin
<1>3. ASSUME NEW r \in Request, NEW u \in User, StartBegin(r, u) PROVE MembersInv'
  <2>1. "start:list" \in Steps \ {"start:create"} BY DEF Steps
  <2> QED BY <1>3, <2>1, BeginKeepsRequests DEF StartBegin
<1>4. ASSUME NEW r \in Request, NEW u \in User, NEW ready \in BOOLEAN, SetReadyBegin(r, u, ready)
      PROVE  MembersInv'
  <2>1. (IF ready THEN "ready:on" ELSE "ready:off") \in Steps \ {"start:create"} BY DEF Steps
  <2> QED BY <1>4, <2>1, BeginKeepsRequests DEF SetReadyBegin
<1>5. ASSUME NEW r \in Request, CreateBegin(r) PROVE MembersInv'
  <2>1. "create:room" \in Steps \ {"start:create"} /\ Creator \in User
    BY RoomAssumption DEF Steps
  <2> QED BY <1>5, <2>1, BeginKeepsRequests DEF CreateBegin
<1>6. ASSUME NEW r \in Request, CreateRoom(r) PROVE MembersInv'
  <2>1. "create:add" \in Steps \ {"start:create"} BY DEF Steps
  <2>2. request[r] # Done /\ request[r].user \in User BY <1>6, AtStep DEF CreateRoom
  <2>3. RequestsInv' /\ FlagsInv' BY <1>6, <2>1, <2>2, ProceedsKeepsRequests DEF CreateRoom
  <2> QED BY <1>6, <2>2, <2>3 DEF CreateRoom, RoomInv
<1>7. ASSUME NEW r \in Request, CreateAdd(r) PROVE MembersInv'
  <2>1. request[r].user \in User BY <1>7, AtStep DEF CreateAdd
  <2>2. members' \in Seq(MemberType) /\ Different(members')
    BY <1>7, <2>1, AddKeepsRoom DEF CreateAdd
  <2>3. RequestsInv' /\ FlagsInv' BY <1>7, EndKeepsRequests DEF CreateAdd, Ends, FlagsInv, history
  <2> QED BY <1>7, <2>2, <2>3 DEF CreateAdd, RoomInv
<1>8. ASSUME NEW r \in Request, JoinList(r) PROVE MembersInv'
  <2>1. "join:add" \in Steps /\ "join:add" # "start:create" BY DEF Steps
  <2>2. request[r] # Done BY <1>8, AtStep DEF JoinList
  <2>3. RequestsInv' /\ FlagsInv' BY <1>8, <2>1, <2>2, GoesOnKeepsRequests DEF JoinList
  <2> QED BY <1>8, <2>3 DEF JoinList, RoomInv, room
<1>9. ASSUME NEW r \in Request, JoinEnds(r) PROVE MembersInv'
  <2>1. RequestsInv' /\ FlagsInv' BY <1>9, EndKeepsRequests DEF JoinEnds, Ends, FlagsInv, history
  <2> QED BY <1>9, <2>1 DEF JoinEnds, RoomInv, room
<1>10. ASSUME NEW r \in Request, JoinAdd(r) PROVE MembersInv'
  <2>1. request[r].user \in User BY <1>10, AtStep DEF JoinAdd
  <2>2. members' \in Seq(MemberType) /\ Different(members')
    BY <1>10, <2>1, AddKeepsRoom DEF JoinAdd
  <2>3. RequestsInv' /\ FlagsInv' BY <1>10, EndKeepsRequests DEF JoinAdd, Ends, FlagsInv, history
  <2> QED BY <1>10, <2>2, <2>3 DEF JoinAdd, RoomInv
<1>11. ASSUME NEW r \in Request, SetReady(r) PROVE MembersInv'
  <2> DEFINE u == request[r].user
             on == At(r, "ready:on")
  <2>1. u \in User BY <1>11, AtStep DEF SetReady
  <2>2. RequestsInv' /\ FlagsInv' BY <1>11, EndKeepsRequests DEF SetReady, Ends, FlagsInv, history
  <2>3. members \in Seq(MemberType) /\ Different(members) /\ DOMAIN members = 1..Len(members)
        /\ Len(members) \in Nat
    BY LenProperties DEF RoomInv
  <2>4. members' = [i \in DOMAIN members |-> IF members[i].userId = u THEN Member(u, on) ELSE members[i]]
    BY <1>11 DEF SetReady
  <2>5. on \in BOOLEAN BY DEF At
  <2> HIDE DEF u, on
  <2>6. Member(u, on) \in MemberType /\ Member(u, on).userId = u
    BY <2>1, <2>5 DEF Member, MemberType
  <2>7. \A i \in 1..Len(members) : members'[i] \in MemberType /\ members'[i].userId = members[i].userId
    BY <2>3, <2>4, <2>6
  <2>8. members' \in Seq(MemberType) /\ Len(members') = Len(members)
    BY <2>3, <2>4, <2>7
  <2>9. Different(members') BY <2>3, <2>7, <2>8 DEF Different
  <2> QED BY <1>11, <2>2, <2>8, <2>9 DEF SetReady, RoomInv
<1>12. ASSUME NEW r \in Request, LeaveRemove(r) PROVE MembersInv'
  <2>1. "leave:list" \in Steps \ {"start:create"} BY DEF Steps
  <2>2. request[r] # Done BY <1>12, AtStep DEF LeaveRemove
  <2>3. RequestsInv' /\ FlagsInv'
    BY <1>12, <2>1, <2>2, ProceedsKeepsRequests, EndKeepsRequests
       DEF LeaveRemove, Ends, FlagsInv, history
  <2>4. members' \in Seq(MemberType) /\ Different(members')
    BY <1>12, RemoveKeepsRoom DEF LeaveRemove, RoomInv
  <2> QED BY <1>12, <2>3, <2>4 DEF LeaveRemove, RoomInv
<1>13. ASSUME NEW r \in Request, LeaveList(r) PROVE MembersInv'
  <2>1. "leave:update" \in Steps /\ "leave:update" # "start:create" BY DEF Steps
  <2>2. request[r] # Done BY <1>13, AtStep DEF LeaveList
  <2>3. RequestsInv' /\ FlagsInv' BY <1>13, <2>1, <2>2, GoesOnKeepsRequests DEF LeaveList
  <2> QED BY <1>13, <2>3 DEF LeaveList, RoomInv, room
<1>14. ASSUME NEW r \in Request, LeaveUpdate(r) PROVE MembersInv'
  <2> DEFINE remaining == request[r].players
  <2>1. RequestsInv' /\ FlagsInv' BY <1>14, EndKeepsRequests DEF LeaveUpdate, Ends, FlagsInv, history
  <2>2. remaining \in Seq(MemberType) BY <1>14, AtStep DEF LeaveUpdate, RequestType
  <2>3. remaining # <<>> => remaining[1].userId \in User
    <3> HIDE DEF remaining
    <3> SUFFICES ASSUME remaining # <<>> PROVE remaining[1].userId \in User
      OBVIOUS
    <3>1. remaining[1] \in MemberType BY <2>2, EmptySeq, ElementOfSeq
    <3> QED BY <3>1 DEF MemberType
  <2> QED BY <1>14, <2>1, <2>3 DEF LeaveUpdate, RoomInv
<1>15. ASSUME NEW r \in Request, StartList(r) PROVE MembersInv'
  <2>1. "start:create" \in Steps BY DEF Steps
  <2>2. request[r] # Done BY <1>15, AtStep DEF StartList
  <2>3. CASE MayStart
    <3>1. Len(members) >= 2 /\ GoesOn(r, "start:create") BY <1>15, <2>3 DEF StartList, MayStart
    <3>2. RequestsInv' /\ FlagsInv' BY <2>1, <2>2, <3>1, GoesOnKeepsRequests
    <3> QED BY <1>15, <3>2 DEF StartList, RoomInv, room
  <2>4. CASE ~MayStart
    <3>1. RequestsInv' /\ FlagsInv'
      BY <1>15, <2>4, EndKeepsRequests DEF StartList, Ends, FlagsInv, history
    <3> QED BY <1>15, <3>1 DEF StartList, RoomInv, room
  <2> QED BY <2>3, <2>4
<1>16. ASSUME NEW r \in Request, StartCreate(r) PROVE MembersInv'
  <2>1. "start:pay" \in Steps \ {"start:create"} BY DEF Steps
  <2>2. request[r] # Done BY <1>16, AtStep DEF StartCreate
  <2>3. RequestsInv' /\ FlagsInv' BY <1>16, <2>1, <2>2, ProceedsKeepsRequests DEF StartCreate
  <2> QED BY <1>16, <2>3 DEF StartCreate, RoomInv
<1>17. ASSUME NEW r \in Request, StartCreateRefused(r) PROVE MembersInv'
  <2>1. RequestsInv' /\ FlagsInv'
    BY <1>17, EndKeepsRequests DEF StartCreateRefused, Ends, FlagsInv, history
  <2> QED BY <1>17, <2>1 DEF StartCreateRefused, RoomInv, room
<1>18. ASSUME NEW r \in Request, StartPay(r) PROVE MembersInv'
  <2>1. "start:save" \in Steps \ {"start:create"} BY DEF Steps
  <2>2. request[r] # Done BY <1>18, AtStep DEF StartPay
  <2>3. RequestsInv' /\ FlagsInv' BY <1>18, <2>1, <2>2, ProceedsKeepsRequests DEF StartPay
  <2> QED BY <1>18, <2>3 DEF StartPay, RoomInv
<1>19. ASSUME NEW r \in Request, StartRefused(r) PROVE MembersInv'
  <2>1. RequestsInv' BY <1>19, EndKeepsRequests DEF StartRefused
  <2> QED BY <1>19, <2>1 DEF StartRefused, RoomInv, room, FlagsInv
<1>20. ASSUME NEW r \in Request, StartSave(r) PROVE MembersInv'
  <2>1. RequestsInv' /\ FlagsInv' BY <1>20, EndKeepsRequests DEF StartSave, Ends, FlagsInv, history
  <2> QED BY <1>20, <2>1 DEF StartSave, RoomInv
<1>21. ASSUME NEW r \in Request, StartSaveFails(r) PROVE MembersInv'
  <2>1. RequestsInv' BY <1>21, EndKeepsRequests DEF StartSaveFails
  <2> QED BY <1>21, <2>1 DEF StartSaveFails, RoomInv, room, FlagsInv
<1>22. CASE Crash
  <2>1. request' = [r \in Request |-> Done] BY <1>22 DEF Crash
  <2>2. RequestsInv' BY <2>1 DEF RequestsInv, At
  <2> QED BY <1>22, <2>2 DEF Crash, RoomInv, room, FlagsInv
<1>23. CASE FinishGame
  BY <1>23 DEF FinishGame, RoomInv, RequestsInv, FlagsInv, At, history
<1>24. CASE UNCHANGED vars
  BY <1>24 DEF vars, RoomInv, RequestsInv, FlagsInv, At
<1> QED BY <1>1, <1>2, <1>3, <1>4, <1>5, <1>6, <1>7, <1>8, <1>9, <1>10, <1>11, <1>12, <1>13,
           <1>14, <1>15, <1>16, <1>17, <1>18, <1>19, <1>20, <1>21, <1>22, <1>23, <1>24 DEF Next

\* Nothing has begun.
LEMMA MembersInit == Init => MembersInv
<1> SUFFICES ASSUME Init PROVE MembersInv
  OBVIOUS
<1>1. RoomInv
  <2>1. members = <<>> /\ <<>> \in Seq(MemberType) /\ Len(<<>>) = 0 BY DEF Init
  <2> QED BY <2>1, RoomAssumption DEF Init, RoomInv, Different
<1>2. RequestsInv BY DEF Init, RequestsInv, At
<1> QED BY <1>1, <1>2 DEF MembersInv, Init, FlagsInv

-----------------------------------------------------------------------------
\* The request r is at step s from here on; the others stay where they are.
Stepped(r, s) ==
    /\ request'[r].step = s
    /\ \A o \in Request : o # r => request'[o] = request[o]

\* A request that is at no step is over, and the other way round.
LEMMA StepOfDone ==
    ASSUME MembersInv, NEW r \in Request
    PROVE  /\ request[r] = Done <=> request[r].step = "done"
           /\ request[r] # Done => request[r] \in RequestType /\ request[r].step \in Steps
           /\ \A s : At(r, s) => request[r].step = s /\ request[r] # Done
<1>1. request[r] \in {Done} \cup RequestType BY DEF MembersInv, RequestsInv
<1> QED BY <1>1, InFlight DEF At

\* The first read of a request.
LEMMA BeginMoves ==
    ASSUME MembersInv, NEW r \in Request, NEW u \in User, NEW step \in Steps, Begin(r, step, u)
    PROVE  /\ Stepped(r, step) /\ request[r].step = "done"
           /\ request'[r].user = u /\ request'[r].hostId = hostId
           /\ request'[r].players = <<>>
<1>1. request[r].step = "done" BY DEF Begin, Done
<1> QED BY <1>1 DEF Begin, Stepped, MembersInv, RequestsInv

\* A request goes on with what it has read.
LEMMA ProceedsMoves ==
    ASSUME MembersInv, NEW r \in Request, request[r] # Done, NEW step \in Steps, Proceeds(r, step)
    PROVE  /\ Stepped(r, step)
           /\ request'[r].user = request[r].user /\ request'[r].hostId = request[r].hostId
           /\ request'[r].players = request[r].players
<1>1. request[r] \in RequestType BY DEF MembersInv, RequestsInv
<1>2. request'[r] = [request[r] EXCEPT !.step = step]
      /\ \A o \in Request : o # r => request'[o] = request[o]
  BY DEF Proceeds, MembersInv, RequestsInv
<1> QED BY <1>1, <1>2 DEF Stepped, RequestType

\* A request lists the members and goes on.
LEMMA GoesOnMoves ==
    ASSUME MembersInv, NEW r \in Request, request[r] # Done, NEW step \in Steps, GoesOn(r, step)
    PROVE  /\ Stepped(r, step)
           /\ request'[r].user = request[r].user /\ request'[r].hostId = request[r].hostId
           /\ request'[r].players = members
<1>1. request[r] \in RequestType BY DEF MembersInv, RequestsInv
<1>2. request'[r] = [request[r] EXCEPT !.step = step, !.players = members]
      /\ \A o \in Request : o # r => request'[o] = request[o]
  BY DEF GoesOn, MembersInv, RequestsInv
<1> QED BY <1>1, <1>2 DEF Stepped, RequestType

\* A request is over.
LEMMA EndMoves ==
    ASSUME MembersInv, NEW r \in Request, request' = [request EXCEPT ![r] = Done]
    PROVE  Stepped(r, "done") /\ request'[r] = Done
<1>1. request'[r] = Done /\ \A o \in Request : o # r => request'[o] = request[o]
  BY DEF MembersInv, RequestsInv
<1> QED BY <1>1 DEF Stepped, Done

\* A step of a request that neither creates the room nor works on the game, in a
\* room that exists and is left as it was or cancelled, says nothing new of the game.
LEMMA ElsewhereKeepsStart ==
    ASSUME StartInv, NEW r \in Request, NEW s, Stepped(r, s),
           s \notin Charging \cup {"create:room"},
           request[r].step \notin Charging \cup {"create:room"},
           status # "NONE", status' \in {status, "CANCELLED"}, game' = game,
           refused' = refused, interrupted' = interrupted
    PROVE  StartInv'
<1>1. \A o \in Request : request'[o].step = IF o = r THEN s ELSE request[o].step
  BY DEF Stepped
<1>2. UncreatedInv' BY <1>1 DEF StartInv, UncreatedInv
<1>3. GameInv'
  <2> SUFFICES ASSUME game # NoGame PROVE GameInv'
    BY DEF GameInv
  <2>1. \A o \in Request : request[o].step \in Charging => request'[o].step = request[o].step
    BY <1>1
  <2>2. \A o \in Request :
          /\ request[o].step = "start:pay" => request'[o].step = "start:pay"
          /\ request[o].step = "start:save" => request'[o].step = "start:save"
    BY <2>1 DEF Charging
  <2> QED BY <2>2 DEF StartInv, GameInv
<1>4. ChargeInv' BY <1>1 DEF StartInv, ChargeInv
<1> QED BY <1>2, <1>3, <1>4 DEF StartInv

\* A request that begins in a room that exists leaves the game alone.
LEMMA BeginKeepsStart ==
    ASSUME MembersInv, StartInv, NEW r \in Request, NEW u \in User, status # "NONE",
           NEW step \in Steps \ (Charging \cup {"create:room"}), Begin(r, step, u)
    PROVE  StartInv'
<1>1. Stepped(r, step) /\ request[r].step = "done" BY BeginMoves
<1>2. request[r].step \notin Charging \cup {"create:room"} BY <1>1 DEF Charging
<1>3. status' = status /\ game' = game /\ refused' = refused /\ interrupted' = interrupted
  BY DEF Begin, room
<1> QED BY <1>1, <1>2, <1>3, ElsewhereKeepsStart

\* So does one that ends, or goes on, at a step that is not about the game.
LEMMA OtherKeepsStart ==
    ASSUME MembersInv, StartInv, NEW r \in Request, NEW s,
           request[r].step \in Steps \ (Charging \cup {"create:room"}),
           s \notin Charging \cup {"create:room"}, Stepped(r, s),
           status' \in {status, "CANCELLED"}, game' = game,
           refused' = refused, interrupted' = interrupted
    PROVE  StartInv'
<1>1. status # "NONE"
  <2>1. request[r].step \notin {"done", "create:room"} BY DEF Steps
  <2> QED BY <2>1 DEF StartInv, UncreatedInv
<1> QED BY <1>1, ElsewhereKeepsStart

\* The players of a game are the different members that were listed.
LEMMA SeatedIsPlayable ==
    ASSUME MembersInv, NEW r \in Request, At(r, "start:create")
    PROVE  Seated(r) \in GameType /\ IsInjective(Seated(r).players) /\ Len(Seated(r).players) >= 2
<1> DEFINE listed == request[r].players
           players == Seated(r).players
<1>1. listed \in Seq(MemberType) /\ Different(listed) /\ Len(listed) >= 2
  BY AtStep DEF MembersInv, RequestsInv, RequestType
<1>2. players = [i \in DOMAIN listed |-> listed[i].userId] BY DEF Seated
<1>3. Seated(r).status = "WAITING" /\ Seated(r).live = FALSE
      /\ Seated(r) = [players |-> players, status |-> "WAITING", live |-> FALSE]
  BY DEF Seated
<1> HIDE DEF listed, players
<1>4. DOMAIN listed = 1..Len(listed) /\ Len(listed) \in Nat /\ \A i \in 1..Len(listed) : listed[i] \in MemberType
  BY <1>1, LenProperties, ElementOfSeq
<1>5. players \in Seq(User) /\ Len(players) = Len(listed)
  BY <1>2, <1>4 DEF MemberType
<1>6. IsInjective(players) BY <1>1, <1>2, <1>4 DEF IsInjective, Different
<1> QED BY <1>1, <1>3, <1>5, <1>6 DEF GameType, players

\* Every step keeps what the requests of a start know of the game.
LEMMA StartStep == MembersInv /\ StartInv /\ [Next]_vars => StartInv'
<1> SUFFICES ASSUME MembersInv, StartInv, [Next]_vars PROVE StartInv'
  OBVIOUS
<1>1. ASSUME NEW r \in Request, NEW u \in User, JoinBegin(r, u) PROVE StartInv'
  <2>1. "join:list" \in Steps \ (Charging \cup {"create:room"}) BY DEF Steps, Charging
  <2> QED BY <1>1, <2>1, BeginKeepsStart DEF JoinBegin
<1>2. ASSUME NEW r \in Request, NEW u \in User, LeaveBegin(r, u) PROVE StartInv'
  <2>1. "leave:remove" \in Steps \ (Charging \cup {"create:room"}) BY DEF Steps, Charging
  <2> QED BY <1>2, <2>1, BeginKeepsStart DEF LeaveBegin
<1>3. ASSUME NEW r \in Request, NEW u \in User, StartBegin(r, u) PROVE StartInv'
  <2>1. "start:list" \in Steps \ (Charging \cup {"create:room"}) BY DEF Steps, Charging
  <2> QED BY <1>3, <2>1, BeginKeepsStart DEF StartBegin
<1>4. ASSUME NEW r \in Request, NEW u \in User, NEW ready \in BOOLEAN, SetReadyBegin(r, u, ready) PROVE StartInv'
  <2>1. (IF ready THEN "ready:on" ELSE "ready:off") \in Steps \ (Charging \cup {"create:room"}) BY DEF Steps, Charging
  <2> QED BY <1>4, <2>1, BeginKeepsStart DEF SetReadyBegin
<1>5. ASSUME NEW r \in Request, CreateAdd(r) PROVE StartInv'
  <2>1. request[r].step = "create:add" BY <1>5, StepOfDone DEF CreateAdd
  <2>2. request[r].step \in Steps \ (Charging \cup {"create:room"}) BY <2>1 DEF Steps, Charging
  <2>3. Stepped(r, "done") BY <1>5, EndMoves DEF CreateAdd, Ends
  <2>4. "done" \notin Charging \cup {"create:room"} BY DEF Charging
  <2>5. status' \in {status, "CANCELLED"} /\ game' = game /\ refused' = refused
        /\ interrupted' = interrupted
    BY <1>5 DEF CreateAdd, Ends, history, room
  <2> QED BY <2>2, <2>3, <2>4, <2>5, OtherKeepsStart
<1>6. ASSUME NEW r \in Request, JoinList(r) PROVE StartInv'
  <2>1. request[r].step = "join:list" BY <1>6, StepOfDone DEF JoinList
  <2>2. request[r].step \in Steps \ (Charging \cup {"create:room"}) BY <2>1 DEF Steps, Charging
  <2>3. Stepped(r, "join:add") /\ "join:add" \notin Charging \cup {"create:room"}
    <3>1. "join:add" \in Steps /\ request[r] # Done BY <1>6, StepOfDone DEF Steps, JoinList
    <3> QED BY <1>6, <3>1, GoesOnMoves DEF Charging, JoinList
  <2>4. "join:add" \notin Charging \cup {"create:room"} BY <2>3
  <2>5. status' \in {status, "CANCELLED"} /\ game' = game /\ refused' = refused
        /\ interrupted' = interrupted
    BY <1>6 DEF JoinList, GoesOn, history, room
  <2> QED BY <2>2, <2>3, <2>4, <2>5, OtherKeepsStart
<1>7. ASSUME NEW r \in Request, JoinEnds(r) PROVE StartInv'
  <2>1. request[r].step \in {"join:list", "join:add"} BY <1>7, StepOfDone DEF JoinEnds
  <2>2. request[r].step \in Steps \ (Charging \cup {"create:room"}) BY <2>1 DEF Steps, Charging
  <2>3. Stepped(r, "done") BY <1>7, EndMoves DEF JoinEnds, Ends
  <2>4. "done" \notin Charging \cup {"create:room"} BY DEF Charging
  <2>5. status' \in {status, "CANCELLED"} /\ game' = game /\ refused' = refused
        /\ interrupted' = interrupted
    BY <1>7 DEF JoinEnds, Ends, history, room
  <2> QED BY <2>2, <2>3, <2>4, <2>5, OtherKeepsStart
<1>8. ASSUME NEW r \in Request, JoinAdd(r) PROVE StartInv'
  <2>1. request[r].step = "join:add" BY <1>8, StepOfDone DEF JoinAdd
  <2>2. request[r].step \in Steps \ (Charging \cup {"create:room"}) BY <2>1 DEF Steps, Charging
  <2>3. Stepped(r, "done") BY <1>8, EndMoves DEF JoinAdd, Ends
  <2>4. "done" \notin Charging \cup {"create:room"} BY DEF Charging
  <2>5. status' \in {status, "CANCELLED"} /\ game' = game /\ refused' = refused
        /\ interrupted' = interrupted
    BY <1>8 DEF JoinAdd, Ends, history, room
  <2> QED BY <2>2, <2>3, <2>4, <2>5, OtherKeepsStart
<1>9. ASSUME NEW r \in Request, SetReady(r) PROVE StartInv'
  <2>1. request[r].step \in {"ready:on", "ready:off"} BY <1>9, StepOfDone DEF SetReady
  <2>2. request[r].step \in Steps \ (Charging \cup {"create:room"}) BY <2>1 DEF Steps, Charging
  <2>3. Stepped(r, "done") BY <1>9, EndMoves DEF SetReady, Ends
  <2>4. "done" \notin Charging \cup {"create:room"} BY DEF Charging
  <2>5. status' \in {status, "CANCELLED"} /\ game' = game /\ refused' = refused
        /\ interrupted' = interrupted
    BY <1>9 DEF SetReady, Ends, history, room
  <2> QED BY <2>2, <2>3, <2>4, <2>5, OtherKeepsStart
<1>10. ASSUME NEW r \in Request, LeaveRemove(r) PROVE StartInv'
  <2>1. request[r].step = "leave:remove" /\ request[r] # Done BY <1>10, StepOfDone DEF LeaveRemove
  <2>2. request[r].step \in Steps \ (Charging \cup {"create:room"}) BY <2>1 DEF Steps, Charging
  <2>3. "leave:list" \in Steps BY DEF Steps
  <2>4. Stepped(r, "leave:list") \/ Stepped(r, "done")
    BY <1>10, <2>1, <2>3, ProceedsMoves, EndMoves DEF LeaveRemove, Ends
  <2>5. {"leave:list", "done"} \cap (Charging \cup {"create:room"}) = {} BY DEF Charging
  <2>6. status' \in {status, "CANCELLED"} /\ game' = game /\ refused' = refused
        /\ interrupted' = interrupted
    BY <1>10 DEF LeaveRemove, Proceeds, Ends, history
  <2>7. CASE Stepped(r, "leave:list") BY <2>2, <2>5, <2>6, <2>7, OtherKeepsStart
  <2>8. CASE Stepped(r, "done") BY <2>2, <2>5, <2>6, <2>8, OtherKeepsStart
  <2> QED BY <2>4, <2>7, <2>8
<1>11. ASSUME NEW r \in Request, LeaveList(r) PROVE StartInv'
  <2>1. request[r].step = "leave:list" BY <1>11, StepOfDone DEF LeaveList
  <2>2. request[r].step \in Steps \ (Charging \cup {"create:room"}) BY <2>1 DEF Steps, Charging
  <2>3. Stepped(r, "leave:update") /\ "leave:update" \notin Charging \cup {"create:room"}
    <3>1. "leave:update" \in Steps /\ request[r] # Done BY <1>11, StepOfDone DEF Steps, LeaveList
    <3> QED BY <1>11, <3>1, GoesOnMoves DEF Charging, LeaveList
  <2>4. "leave:update" \notin Charging \cup {"create:room"} BY <2>3
  <2>5. status' \in {status, "CANCELLED"} /\ game' = game /\ refused' = refused
        /\ interrupted' = interrupted
    BY <1>11 DEF LeaveList, GoesOn, history, room
  <2> QED BY <2>2, <2>3, <2>4, <2>5, OtherKeepsStart
<1>12. ASSUME NEW r \in Request, LeaveUpdate(r) PROVE StartInv'
  <2>1. request[r].step = "leave:update" BY <1>12, StepOfDone DEF LeaveUpdate
  <2>2. request[r].step \in Steps \ (Charging \cup {"create:room"}) BY <2>1 DEF Steps, Charging
  <2>3. Stepped(r, "done") BY <1>12, EndMoves DEF LeaveUpdate, Ends
  <2>4. "done" \notin Charging \cup {"create:room"} BY DEF Charging
  <2>5. status' \in {status, "CANCELLED"} /\ game' = game /\ refused' = refused
        /\ interrupted' = interrupted
    BY <1>12 DEF LeaveUpdate, Ends, history, room
  <2> QED BY <2>2, <2>3, <2>4, <2>5, OtherKeepsStart
<1>13. ASSUME NEW r \in Request, StartList(r) PROVE StartInv'
  <2>1. request[r].step = "start:list" /\ request[r] # Done BY <1>13, StepOfDone DEF StartList
  <2>2. request[r].step \in Steps \ (Charging \cup {"create:room"}) BY <2>1 DEF Steps, Charging
  <2>3. "start:create" \in Steps BY DEF Steps
  <2>4. Stepped(r, "start:create") \/ Stepped(r, "done")
    BY <1>13, <2>1, <2>3, GoesOnMoves, EndMoves DEF StartList, Ends
  <2>5. {"start:create", "done"} \cap (Charging \cup {"create:room"}) = {} BY DEF Charging
  <2>6. status' \in {status, "CANCELLED"} /\ game' = game /\ refused' = refused
        /\ interrupted' = interrupted
    BY <1>13 DEF StartList, GoesOn, Ends, history, room
  <2>7. CASE Stepped(r, "start:create") BY <2>2, <2>5, <2>6, <2>7, OtherKeepsStart
  <2>8. CASE Stepped(r, "done") BY <2>2, <2>5, <2>6, <2>8, OtherKeepsStart
  <2> QED BY <2>4, <2>7, <2>8
<1>14. ASSUME NEW r \in Request, StartCreateRefused(r) PROVE StartInv'
  <2>1. request[r].step = "start:create" BY <1>14, StepOfDone DEF StartCreateRefused
  <2>2. request[r].step \in Steps \ (Charging \cup {"create:room"}) BY <2>1 DEF Steps, Charging
  <2>3. Stepped(r, "done") BY <1>14, EndMoves DEF StartCreateRefused, Ends
  <2>4. "done" \notin Charging \cup {"create:room"} BY DEF Charging
  <2>5. status' \in {status, "CANCELLED"} /\ game' = game /\ refused' = refused
        /\ interrupted' = interrupted
    BY <1>14 DEF StartCreateRefused, Ends, history, room
  <2> QED BY <2>2, <2>3, <2>4, <2>5, OtherKeepsStart
<1>15. ASSUME NEW r \in Request, CreateBegin(r) PROVE StartInv'
  <2>1. "create:room" \in Steps /\ Creator \in User BY RoomAssumption DEF Steps
  <2>2. Stepped(r, "create:room") BY <1>15, <2>1, BeginMoves DEF CreateBegin
  <2>3. status = "NONE" /\ members' = members /\ game' = game /\ status' = status
    BY <1>15 DEF CreateBegin, Begin, room
  <2>4. \A o \in Request : o # r => request'[o].step = "done"
    BY <1>15, <2>2, StepOfDone DEF CreateBegin, Stepped
  <2>5. UncreatedInv' BY <2>2, <2>3, <2>4 DEF StartInv, UncreatedInv, Stepped
  <2>6. GameInv' BY <2>3 DEF StartInv, UncreatedInv, GameInv
  <2>7. ChargeInv' BY <2>2, <2>4 DEF ChargeInv, Charging, Stepped
  <2> QED BY <2>5, <2>6, <2>7 DEF StartInv
<1>16. ASSUME NEW r \in Request, CreateRoom(r) PROVE StartInv'
  <2>1. "create:add" \in Steps BY DEF Steps
  <2>2. request[r].step = "create:room" /\ request[r] # Done BY <1>16, StepOfDone DEF CreateRoom
  <2>3. Stepped(r, "create:add") BY <1>16, <2>1, <2>2, ProceedsMoves DEF CreateRoom
  <2>4. game = NoGame /\ \A o \in Request : o # r => request[o].step = "done"
    BY <2>2 DEF StartInv, UncreatedInv
  <2>5. status' = "LOBBY" /\ game' = game BY <1>16 DEF CreateRoom
  <2>6. UncreatedInv' BY <2>3, <2>4, <2>5 DEF UncreatedInv, Stepped
  <2>7. GameInv' BY <2>4, <2>5 DEF GameInv
  <2>8. ChargeInv' BY <2>3, <2>4 DEF ChargeInv, Charging, Stepped
  <2> QED BY <2>6, <2>7, <2>8 DEF StartInv
<1>17. ASSUME NEW r \in Request, StartCreate(r) PROVE StartInv'
  <2>1. "start:pay" \in Steps BY DEF Steps
  <2>2. request[r].step = "start:create" /\ request[r] # Done BY <1>17, StepOfDone DEF StartCreate
  <2>3. Stepped(r, "start:pay") BY <1>17, <2>1, <2>2, ProceedsMoves DEF StartCreate
  <2>4. Seated(r) \in GameType /\ IsInjective(Seated(r).players) /\ Len(Seated(r).players) >= 2
    BY <1>17, SeatedIsPlayable DEF StartCreate
  <2>5. game = NoGame /\ game' = Seated(r) /\ status' = "IN_PROGRESS" BY <1>17 DEF StartCreate
  <2>6. game'.status = "WAITING" /\ ~game'.live /\ game' # NoGame
    BY <2>4, <2>5, RoomAssumption DEF Seated
  <2>7. UncreatedInv'
    <3>1. status # "NONE" BY <2>2 DEF StartInv, UncreatedInv
    <3>2. \A o \in Request : request'[o].step # "create:room"
      BY <2>3, <3>1 DEF StartInv, UncreatedInv, Stepped
    <3> QED BY <2>5, <3>2 DEF UncreatedInv
  <2>8. GameInv' BY <2>3, <2>4, <2>5, <2>6 DEF GameInv, Stepped
  <2>9. ChargeInv'
    <3>1. \A o \in Request : o # r => request'[o].step \notin Charging
      BY <2>3, <2>5 DEF StartInv, ChargeInv, Stepped
    <3>2. request'[r].step = "start:pay" BY <2>3 DEF Stepped
    <3> QED BY <2>6, <3>1, <3>2 DEF ChargeInv
  <2> QED BY <2>7, <2>8, <2>9 DEF StartInv
<1>18. ASSUME NEW r \in Request, StartPay(r) PROVE StartInv'
  <2>1. request[r].step = "start:pay" /\ request[r] # Done BY <1>18, StepOfDone DEF StartPay
  <2>2. "start:save" \in Steps BY DEF Steps
  <2>3. Stepped(r, "start:save") BY <1>18, <2>1, <2>2, ProceedsMoves DEF StartPay
  <2>4. /\ game # NoGame /\ ~game.live
        /\ game.status = "WAITING"
        /\ \A o \in Request : o # r => request[o].step \notin Charging
    BY <2>1 DEF StartInv, ChargeInv, Charging
  <2>5. game \in GameType /\ IsInjective(game.players) /\ Len(game.players) >= 2
        /\ status \in {"IN_PROGRESS", "FINISHED", "CANCELLED"}
    BY <2>4 DEF StartInv, GameInv
  <2>6. game' = [game EXCEPT !.status = "IN_PROGRESS"] /\ status' = status BY <1>18 DEF StartPay
  <2>7. /\ game' \in GameType /\ game'.players = game.players
        /\ game'.status = "IN_PROGRESS" /\ game'.live = FALSE
    BY <2>4, <2>5, <2>6 DEF GameType
  <2>8. game' # NoGame BY <2>7, RoomAssumption
  <2>9. \A o \in Request : request'[o].step \in Charging => o = r /\ request'[o].step = "start:save"
    BY <2>3, <2>4 DEF Stepped, Charging
  <2>10. UncreatedInv'
    <3>1. \A o \in Request : request'[o].step # "create:room"
      BY <2>3, <2>5 DEF StartInv, UncreatedInv, Stepped
    <3> QED BY <2>5, <2>6, <3>1 DEF UncreatedInv
  <2>11. GameInv' BY <2>3, <2>5, <2>6, <2>7 DEF GameInv, Stepped
  <2>12. ChargeInv' BY <2>3, <2>7, <2>8, <2>9 DEF ChargeInv, Stepped, Charging
  <2> QED BY <2>10, <2>11, <2>12 DEF StartInv
<1>19. ASSUME NEW r \in Request, StartSave(r) PROVE StartInv'
  <2>1. request[r].step = "start:save" /\ request[r] # Done BY <1>19, StepOfDone DEF StartSave
  <2>3. Stepped(r, "done") BY <1>19, EndMoves DEF StartSave, Ends
  <2>4. /\ game # NoGame /\ ~game.live
        /\ game.status = "IN_PROGRESS"
        /\ \A o \in Request : o # r => request[o].step \notin Charging
    BY <2>1 DEF StartInv, ChargeInv, Charging
  <2>5. game \in GameType /\ IsInjective(game.players) /\ Len(game.players) >= 2
        /\ status \in {"IN_PROGRESS", "FINISHED", "CANCELLED"}
    BY <2>4 DEF StartInv, GameInv
  <2>6. game' = [game EXCEPT !.live = TRUE] /\ status' = status BY <1>19 DEF StartSave
  <2>7. /\ game' \in GameType /\ game'.players = game.players
        /\ game'.status = "IN_PROGRESS" /\ game'.live = TRUE
    BY <2>4, <2>5, <2>6 DEF GameType
  <2>8. game' # NoGame BY <2>7, RoomAssumption
  <2>9. \A o \in Request : request'[o].step \in Charging => o = r /\ request'[o].step = "start:save"
    BY <2>3, <2>4 DEF Stepped, Charging
  <2>10. UncreatedInv'
    <3>1. \A o \in Request : request'[o].step # "create:room"
      BY <2>3, <2>5 DEF StartInv, UncreatedInv, Stepped
    <3> QED BY <2>5, <2>6, <3>1 DEF UncreatedInv
  <2>11. GameInv' BY <2>3, <2>5, <2>6, <2>7 DEF GameInv, Stepped
  <2>12. ChargeInv' BY <2>3, <2>7, <2>8, <2>9 DEF ChargeInv, Stepped, Charging
  <2> QED BY <2>10, <2>11, <2>12 DEF StartInv
<1>20. ASSUME NEW r \in Request, StartRefused(r) PROVE StartInv'
  <2>1. request[r].step = "start:pay" BY <1>20, StepOfDone DEF StartRefused
  <2>2. Stepped(r, "done") BY <1>20, EndMoves DEF StartRefused
  <2>3. /\ game # NoGame /\ status # "NONE"
        /\ game.status = "WAITING"
    BY <2>1 DEF StartInv, ChargeInv, Charging, UncreatedInv
  <2>4. status' = status /\ game' = game BY <1>20 DEF StartRefused, room
  <2>5. UncreatedInv' BY <2>2, <2>3, <2>4 DEF StartInv, UncreatedInv, Stepped
  <2>6. GameInv'
    BY <1>20, <2>3, <2>4 DEF StartRefused, StartInv, GameInv
  <2>7. ChargeInv'
    <3>1. \A o \in Request : request'[o].step \in Charging => request'[o] = request[o]
      BY <2>2 DEF Stepped, Charging
    <3> QED BY <2>4, <3>1 DEF StartInv, ChargeInv
  <2> QED BY <2>5, <2>6, <2>7 DEF StartInv
<1>21. ASSUME NEW r \in Request, StartSaveFails(r) PROVE StartInv'
  <2>1. request[r].step = "start:save" BY <1>21, StepOfDone DEF StartSaveFails
  <2>2. Stepped(r, "done") BY <1>21, EndMoves DEF StartSaveFails
  <2>3. /\ game # NoGame /\ status # "NONE"
        /\ game.status = "IN_PROGRESS"
    BY <2>1 DEF StartInv, ChargeInv, Charging, UncreatedInv
  <2>4. status' = status /\ game' = game BY <1>21 DEF StartSaveFails, room
  <2>5. UncreatedInv' BY <2>2, <2>3, <2>4 DEF StartInv, UncreatedInv, Stepped
  <2>6. GameInv'
    BY <1>21, <2>3, <2>4 DEF StartSaveFails, StartInv, GameInv
  <2>7. ChargeInv'
    <3>1. \A o \in Request : request'[o].step \in Charging => request'[o] = request[o]
      BY <2>2 DEF Stepped, Charging
    <3> QED BY <2>4, <3>1 DEF StartInv, ChargeInv
  <2> QED BY <2>5, <2>6, <2>7 DEF StartInv
<1>22. CASE FinishGame
  <2>1. game # NoGame /\ game.status = "IN_PROGRESS" /\ game.live BY <1>22 DEF FinishGame
  <2>2. game' = [game EXCEPT !.status = "FINISHED"] /\ status' = "FINISHED" /\ request' = request
    BY <1>22 DEF FinishGame
  <2>3. game \in GameType /\ status # "NONE" BY <2>1 DEF StartInv, GameInv
  <2>4. game' \in GameType /\ game'.players = game.players /\ game'.status = "FINISHED"
    BY <2>2, <2>3 DEF GameType
  <2>5. UncreatedInv' BY <2>2, <2>3 DEF StartInv, UncreatedInv
  <2>6. GameInv' BY <2>1, <2>2, <2>4 DEF StartInv, GameInv
  <2>7. ChargeInv' BY <2>1, <2>2 DEF StartInv, ChargeInv
  <2> QED BY <2>5, <2>6, <2>7 DEF StartInv
<1>23. CASE Crash
  <2>1. request' = [r \in Request |-> Done] /\ status' = status /\ game' = game
        /\ members' = members /\ interrupted'
    BY <1>23 DEF Crash, room
  <2>2. \A r \in Request : request'[r].step = "done" BY <2>1 DEF Done
  <2>3. UncreatedInv' BY <2>1, <2>2 DEF StartInv, UncreatedInv
  <2>4. GameInv' BY <2>1 DEF StartInv, GameInv
  <2>5. ChargeInv' BY <2>2 DEF ChargeInv, Charging
  <2> QED BY <2>3, <2>4, <2>5 DEF StartInv
<1>24. CASE UNCHANGED vars
  BY <1>24 DEF vars, StartInv, UncreatedInv, GameInv, ChargeInv
<1> QED BY <1>1, <1>2, <1>3, <1>4, <1>5, <1>6, <1>7, <1>8, <1>9, <1>10, <1>11, <1>12,
           <1>13, <1>14, <1>15, <1>16, <1>17, <1>18, <1>19, <1>20, <1>21, <1>22, <1>23,
           <1>24 DEF Next

\* There is no room yet.
LEMMA StartInit == Init => StartInv
<1> SUFFICES ASSUME Init PROVE StartInv
  OBVIOUS
<1>1. \A r \in Request : request[r].step = "done" BY DEF Init, Done
<1> QED BY <1>1 DEF Init, StartInv, UncreatedInv, GameInv, ChargeInv, Charging

\* The members are always different, and the game of a start is always the one its
\* request left.
THEOREM RoomInductive == Spec => [](MembersInv /\ StartInv)
<1>1. Init => MembersInv /\ StartInv BY MembersInit, StartInit
<1>2. (MembersInv /\ StartInv) /\ [Next]_vars => (MembersInv /\ StartInv)'
  BY MembersStep, StartStep
<1> QED BY <1>1, <1>2, PTL DEF Spec

\* RoomsService.start: overlapping requests leave no room between the game, the
\* entries and the live state; only a refusal, a crash or a lost save does.
THEOREM StartedRoomIsPlayableHolds == Spec => []StartedRoomIsPlayable
<1>1. MembersInv /\ StartInv => StartedRoomIsPlayable
  <2> SUFFICES ASSUME MembersInv, StartInv, Quiet, game # NoGame
               PROVE  /\ game.status = "WAITING" => refused \/ interrupted
                      /\ game.status = "IN_PROGRESS" => game.live \/ interrupted
                      /\ game.live => game.status # "WAITING"
                      /\ status = "IN_PROGRESS" => game.status # "FINISHED"
    BY DEF StartedRoomIsPlayable
  <2>1. \A r \in Request : request[r].step = "done" BY StepOfDone DEF Quiet
  <2> QED BY <2>1 DEF StartInv, GameInv
<1> QED BY <1>1, RoomInductive, PTL

\* One step never takes a room's game, its players or its payment back.
LEMMA GameStays ==
    ASSUME MembersInv, StartInv, [Next]_vars, game # NoGame
    PROVE  /\ game' # NoGame /\ game'.players = game.players
           /\ IsInjective(game.players) /\ Len(game.players) >= 2
           /\ game.status # "WAITING" => game'.status # "WAITING"
           /\ status' # "LOBBY"
<1> DEFINE Stays ==
      /\ game' # NoGame /\ game'.players = game.players
      /\ game.status # "WAITING" => game'.status # "WAITING"
      /\ status' # "LOBBY"
<1>1. /\ game \in GameType /\ IsInjective(game.players) /\ Len(game.players) >= 2
      /\ status \in {"IN_PROGRESS", "FINISHED", "CANCELLED"}
  BY DEF StartInv, GameInv
<1>2. ASSUME game' = game, status' \in {status, "CANCELLED", "FINISHED"} PROVE Stays
  BY <1>1, <1>2
<1>3. ASSUME NEW r \in Request, NEW u \in User, NEW s, Begin(r, s, u) PROVE Stays
  BY <1>2, <1>3 DEF Begin, room
<1>4. ASSUME NEW r \in Request, NEW u \in User,
             JoinBegin(r, u) \/ LeaveBegin(r, u) \/ StartBegin(r, u)
      PROVE  Stays
  BY <1>3, <1>4 DEF JoinBegin, LeaveBegin, StartBegin
<1>5. ASSUME NEW r \in Request, NEW u \in User, NEW ready \in BOOLEAN, SetReadyBegin(r, u, ready)
      PROVE  Stays
  BY <1>3, <1>5 DEF SetReadyBegin
<1>6. ASSUME NEW r \in Request,
             \/ CreateAdd(r) \/ JoinList(r) \/ JoinEnds(r) \/ JoinAdd(r) \/ SetReady(r)
             \/ LeaveRemove(r) \/ LeaveList(r) \/ LeaveUpdate(r)
             \/ StartList(r) \/ StartCreateRefused(r) \/ StartRefused(r) \/ StartSaveFails(r)
      PROVE  Stays
  <2>1. game' = game /\ status' \in {status, "CANCELLED"}
    BY <1>6 DEF CreateAdd, JoinList, JoinEnds, JoinAdd, SetReady, LeaveRemove, LeaveList,
                LeaveUpdate, StartList, StartCreateRefused, StartRefused, StartSaveFails, room
  <2> QED BY <1>2, <2>1
<1>7. ASSUME NEW r \in Request, CreateBegin(r) \/ CreateRoom(r) PROVE Stays
  <2>1. CASE CreateBegin(r) BY <1>3, <2>1, RoomAssumption DEF CreateBegin
  <2>2. CASE CreateRoom(r)
    <3>1. request[r].step = "create:room" BY <2>2, StepOfDone DEF CreateRoom
    <3> QED BY <1>1, <3>1 DEF StartInv, UncreatedInv
  <2> QED BY <1>7, <2>1, <2>2
<1>8. ASSUME NEW r \in Request, StartCreate(r) PROVE Stays
  BY <1>8 DEF StartCreate
<1>9. ASSUME NEW r \in Request, StartPay(r) PROVE Stays
  <2>1. game' = [game EXCEPT !.status = "IN_PROGRESS"] /\ status' = status BY <1>9 DEF StartPay
  <2>2. game' \in GameType /\ game'.players = game.players
        /\ game'.status \in {"IN_PROGRESS", game.status}
    BY <1>1, <2>1 DEF GameType
  <2> QED BY <1>1, <2>1, <2>2, RoomAssumption
<1>10. ASSUME NEW r \in Request, StartSave(r) PROVE Stays
  <2>1. game' = [game EXCEPT !.live = TRUE] /\ status' = status BY <1>10 DEF StartSave
  <2>2. game' \in GameType /\ game'.players = game.players
        /\ game'.status \in {"IN_PROGRESS", game.status}
    BY <1>1, <2>1 DEF GameType
  <2> QED BY <1>1, <2>1, <2>2, RoomAssumption
<1>11. ASSUME FinishGame PROVE Stays
  <2>1. game' = [game EXCEPT !.status = "FINISHED"] /\ status' = "FINISHED"
    BY <1>11 DEF FinishGame
  <2>2. game' \in GameType /\ game'.players = game.players /\ game'.status = "FINISHED"
    BY <1>1, <2>1 DEF GameType
  <2> QED BY <2>1, <2>2, RoomAssumption
<1>12. ASSUME Crash \/ UNCHANGED vars PROVE Stays
  BY <1>2, <1>12 DEF Crash, room, vars
<1> HIDE DEF Stays
<1>13. Stays
  BY <1>4, <1>5, <1>6, <1>7, <1>8, <1>9, <1>10, <1>11,
     <1>12 DEF Next
<1> QED BY <1>1, <1>13 DEF Stays

\* RoomsService.start: whatever runs at the same time, the game of a room is kept for
\* good, with the players it was dealt to and what they paid.
THEOREM OneGameForGoodHolds == Spec => OneGameForGood
<1>1. (MembersInv /\ StartInv) /\ [Next]_vars =>
        [ game # NoGame =>
            /\ game' # NoGame /\ game'.players = game.players
            /\ IsInjective(game.players) /\ Len(game.players) >= 2
            /\ game.status # "WAITING" => game'.status # "WAITING"
            /\ status' # "LOBBY" ]_vars
  <2> SUFFICES ASSUME MembersInv, StartInv, [Next]_vars, game # NoGame
               PROVE  /\ game' # NoGame /\ game'.players = game.players
                      /\ IsInjective(game.players) /\ Len(game.players) >= 2
                      /\ game.status # "WAITING" => game'.status # "WAITING"
                      /\ status' # "LOBBY"
    OBVIOUS
  <2> QED BY GameStays
<1> QED BY <1>1, RoomInductive, PTL DEF Spec, OneGameForGood

-----------------------------------------------------------------------------
\* A request that ran alone leaves the others over, and what is true of the room is
\* what is true of it.
LEMMA AloneAfter ==
    ASSUME MembersInv, NEW r \in Request, \A o \in Request : o # r => request[o] = Done,
           NEW s, Stepped(r, s),
           Len(members') <= MaxPlayers, s \notin Between => WholeRoom',
           Creation(r)', Joining(r)', Leaving(r)'
    PROVE  Alone'
<1>1. \A o \in Request : o # r => request'[o] = Done /\ request'[o].step = "done"
  BY DEF Stepped, Done
<1>2. request'[r].step = s BY DEF Stepped
<1>3. ASSUME NEW o \in Request, NEW q \in Request, request'[o] # Done, request'[q] # Done
      PROVE  o = q
  BY <1>1, <1>3
<1>4. ASSUME NEW o \in Request PROVE Creation(o)' /\ Joining(o)' /\ Leaving(o)'
  <2>1. CASE o = r BY <2>1
  <2>2. CASE o # r BY <1>1, <2>2 DEF Creation, Joining, Leaving
  <2> QED BY <2>1, <2>2
<1>5. (\A o \in Request : request'[o].step \notin Between) => WholeRoom' BY <1>2
<1> QED BY <1>3, <1>4, <1>5 DEF Alone

\* The request in flight is the only one.
LEMMA OnlyOne ==
    ASSUME MembersInv, Alone, NEW r \in Request, request[r] # Done
    PROVE  /\ \A o \in Request : o # r => request[o] = Done
           /\ request[r].step \notin Between => WholeRoom
<1>1. \A o \in Request : o # r => request[o] = Done BY DEF Alone
<1>2. \A o \in Request : o # r => request[o].step \notin Between BY <1>1 DEF Done, Between
<1> QED BY <1>1, <1>2 DEF Alone

\* A request begins when no other is in flight.
LEMMA BeginKeepsAlone ==
    ASSUME MembersInv, AloneInv, NEW r \in Request, NEW u \in User,
           NEW step \in Steps \ (Between \cup {"join:add"}), Begin(r, step, u),
           step = "join:list" => status # "CANCELLED"
    PROVE  AloneInv'
<1> SUFFICES ASSUME ~overlapped', ~interrupted' PROVE Alone'
  BY DEF AloneInv
<1>1. /\ ~overlapped /\ ~interrupted /\ \A o \in Request : request[o] = Done
      /\ status' = status /\ hostId' = hostId /\ members' = members
  BY DEF Begin, room
<1>2. Stepped(r, step) /\ request'[r].hostId = hostId BY BeginMoves
<1>3. \A o \in Request : request[o].step \notin Between BY <1>1 DEF Done, Between
<1>4. Len(members') <= MaxPlayers /\ WholeRoom' BY <1>1, <1>3 DEF AloneInv, Alone, WholeRoom
<1>5. request'[r].step = step BY <1>2 DEF Stepped
<1>6. Creation(r)' BY <1>5 DEF Creation, Between
<1>7. Joining(r)' BY <1>1, <1>5 DEF Joining
<1>8. Leaving(r)' BY <1>1, <1>2, <1>5 DEF Leaving, Between
<1> QED BY <1>1, <1>2, <1>4, <1>6, <1>7, <1>8, AloneAfter

\* A request that is not between two writes ends, or goes on to a step of its start,
\* and leaves the room as it was, or started.
LEMMA SameRoomKeepsAlone ==
    ASSUME MembersInv, AloneInv, NEW r \in Request,
           request[r].step \in Steps \ Between,
           NEW s \in {"done", "start:create", "start:pay", "start:save"}, Stepped(r, s),
           status' \in {status, "IN_PROGRESS"}, hostId' = hostId, members' = members,
           ~overlapped' => ~overlapped, ~interrupted' => ~interrupted
    PROVE  AloneInv'
<1> SUFFICES ASSUME ~overlapped', ~interrupted' PROVE Alone'
  BY DEF AloneInv
<1>1. Alone BY DEF AloneInv
<1>2. request[r] # Done BY StepOfDone DEF Steps
<1>3. /\ \A o \in Request : o # r => request[o] = Done
      /\ WholeRoom
  BY <1>1, <1>2, OnlyOne
<1>4. Len(members') <= MaxPlayers /\ WholeRoom' BY <1>1, <1>3 DEF Alone, WholeRoom
<1>5. request'[r].step = s BY DEF Stepped
<1>6. Creation(r)' /\ Joining(r)' /\ Leaving(r)' BY <1>5 DEF Creation, Joining, Leaving
<1> QED BY <1>3, <1>4, <1>6, AloneAfter

\* A member who joins is the last of the list.
LEMMA JoinedMember ==
    ASSUME RoomInv, NEW u \in User, NEW ready \in BOOLEAN, u \notin Users(members),
           AddMember(u, ready)
    PROVE  /\ Len(members') = Len(members) + 1 /\ members' # <<>>
           /\ u \in Users(members') /\ Users(members) \subseteq Users(members')
<1> DEFINE m == Member(u, ready)
<1>1. members \in Seq(MemberType) /\ Len(members) \in Nat /\ DOMAIN members = 1..Len(members)
  BY LenProperties DEF RoomInv
<1>2. m \in MemberType /\ m.userId = u BY DEF Member, MemberType
<1>3. members' = Append(members, m) BY DEF AddMember
<1> HIDE DEF m
<1>4. /\ members' \in Seq(MemberType) /\ Len(members') = Len(members) + 1
      /\ DOMAIN members' = 1..(Len(members) + 1)
      /\ \A i \in 1..Len(members) : members'[i] = members[i]
      /\ members'[Len(members) + 1] = m
  BY <1>1, <1>2, <1>3, AppendProperties, LenProperties
<1>5. Len(members) + 1 \in DOMAIN members' BY <1>1, <1>4
<1>6. u \in Users(members') BY <1>2, <1>4, <1>5 DEF Users
<1>7. ASSUME NEW i \in DOMAIN members PROVE members[i].userId \in Users(members')
  <2>1. i \in DOMAIN members' /\ members'[i] = members[i] BY <1>1, <1>4, <1>7
  <2> QED BY <2>1 DEF Users
<1>8. members' # <<>> BY <1>1, <1>4
<1> QED BY <1>4, <1>6, <1>7, <1>8 DEF Users

\* Who stays is still in the list when one of the others has left it.
LEMMA RemainingMembers ==
    ASSUME RoomInv, NEW i \in DOMAIN members, members' = RemoveAt(members, i)
    PROVE  /\ Len(members') <= Len(members) /\ members # <<>>
           /\ \A u \in Users(members) : u # members[i].userId => u \in Users(members')
<1> DEFINE n == Len(members)
<1>1. members \in Seq(MemberType) /\ n \in Nat /\ i \in 1..n /\ DOMAIN members = 1..n
  BY LenProperties DEF RoomInv
<1>2. /\ members' \in Seq(MemberType) /\ Len(members') = n - 1
      /\ \A j \in 1..(n - 1) : members'[j] = IF j < i THEN members[j] ELSE members[j + 1]
  BY <1>1, Removal
<1>3. DOMAIN members' = 1..(n - 1) BY <1>2, LenProperties
<1>4. members # <<>> BY <1>1, EmptySeq
<1> HIDE DEF n
<1>5. ASSUME NEW k \in 1..n, members[k].userId # members[i].userId
      PROVE  members[k].userId \in Users(members')
  <2>1. k # i BY <1>5
  <2>2. CASE k < i
    <3>1. k \in 1..(n - 1) BY <1>1, <2>2
    <3>2. members'[k] = members[k] BY <1>2, <2>2, <3>1
    <3> QED BY <1>3, <3>1, <3>2 DEF Users
  <2>3. CASE ~(k < i)
    <3>1. k - 1 \in 1..(n - 1) /\ ~(k - 1 < i) /\ (k - 1) + 1 = k BY <1>1, <2>1, <2>3
    <3>2. members'[k - 1] = members[k] BY <1>2, <3>1
    <3> QED BY <1>3, <3>1, <3>2 DEF Users
  <2> QED BY <2>2, <2>3
<1>6. Len(members') <= Len(members) BY <1>1, <1>2 DEF n
<1> QED BY <1>1, <1>4, <1>5, <1>6 DEF Users

\* Getting ready changes neither who is a member nor how many they are.
LEMMA ReadyMembers ==
    ASSUME RoomInv, NEW u \in User, NEW on \in BOOLEAN,
           members' = [i \in DOMAIN members |->
                          IF members[i].userId = u THEN Member(u, on) ELSE members[i]]
    PROVE  /\ Len(members') = Len(members) /\ Users(members') = Users(members)
           /\ members' = <<>> <=> members = <<>>
<1>1. members \in Seq(MemberType) /\ Len(members) \in Nat /\ DOMAIN members = 1..Len(members)
  BY LenProperties DEF RoomInv
<1>2. Member(u, on) \in MemberType /\ Member(u, on).userId = u
  BY DEF Member, MemberType
<1>3. \A i \in DOMAIN members : members'[i] \in MemberType /\ members'[i].userId = members[i].userId
  BY <1>1, <1>2
<1>4. DOMAIN members' = DOMAIN members /\ members' \in Seq(MemberType) /\ Len(members') = Len(members)
  BY <1>1, <1>3
<1>5. Users(members') = Users(members) BY <1>3, <1>4 DEF Users
<1>6. members' = <<>> <=> members = <<>> BY <1>1, <1>4, EmptySeq
<1> QED BY <1>4, <1>5, <1>6

\* Every step keeps a room whole that was always alone with its requests.
LEMMA AloneStep == MembersInv /\ StartInv /\ AloneInv /\ [Next]_vars => AloneInv'
<1> SUFFICES ASSUME MembersInv, StartInv, AloneInv, [Next]_vars PROVE AloneInv'
  OBVIOUS
<1> USE DEF Steps, Between
<1>1. ASSUME NEW r \in Request, NEW u \in User, JoinBegin(r, u) PROVE AloneInv'
  BY <1>1, BeginKeepsAlone DEF JoinBegin
<1>2. ASSUME NEW r \in Request, NEW u \in User, LeaveBegin(r, u) PROVE AloneInv'
  BY <1>2, BeginKeepsAlone DEF LeaveBegin
<1>3. ASSUME NEW r \in Request, NEW u \in User, StartBegin(r, u) PROVE AloneInv'
  BY <1>3, BeginKeepsAlone DEF StartBegin
<1>4. ASSUME NEW r \in Request, NEW u \in User, NEW ready \in BOOLEAN, SetReadyBegin(r, u, ready) PROVE AloneInv'
  BY <1>4, BeginKeepsAlone DEF SetReadyBegin
<1>5. ASSUME NEW r \in Request, CreateBegin(r) PROVE AloneInv'
  BY <1>5, BeginKeepsAlone, RoomAssumption DEF CreateBegin
<1>6. ASSUME NEW r \in Request, JoinEnds(r) PROVE AloneInv'
  <2>1. request[r].step \in {"join:list", "join:add"} /\ request[r] # Done BY <1>6, StepOfDone DEF JoinEnds
  <2>2. Stepped(r, "done")
    BY <1>6, <2>1, EndMoves DEF JoinEnds, Ends
  <2>3. /\ status' \in {status, "IN_PROGRESS"} /\ hostId' = hostId /\ members' = members
        /\ ~overlapped' => ~overlapped
        /\ ~interrupted' => ~interrupted
    BY <1>6 DEF JoinEnds, GoesOn, Proceeds, Ends, history, room
  <2> QED BY <2>1, <2>2, <2>3, SameRoomKeepsAlone
<1>7. ASSUME NEW r \in Request, StartList(r) PROVE AloneInv'
  <2>1. request[r].step = "start:list" /\ request[r] # Done BY <1>7, StepOfDone DEF StartList
  <2>2. Stepped(r, "start:create") \/ Stepped(r, "done")
    BY <1>7, <2>1, EndMoves, GoesOnMoves DEF StartList, Ends
  <2>3. /\ status' \in {status, "IN_PROGRESS"} /\ hostId' = hostId /\ members' = members
        /\ ~overlapped' => ~overlapped
        /\ ~interrupted' => ~interrupted
    BY <1>7 DEF StartList, GoesOn, Proceeds, Ends, history, room
  <2> QED BY <2>1, <2>2, <2>3, SameRoomKeepsAlone
<1>8. ASSUME NEW r \in Request, StartCreate(r) PROVE AloneInv'
  <2>1. request[r].step = "start:create" /\ request[r] # Done BY <1>8, StepOfDone DEF StartCreate
  <2>2. Stepped(r, "start:pay")
    BY <1>8, <2>1, ProceedsMoves DEF StartCreate
  <2>3. /\ status' \in {status, "IN_PROGRESS"} /\ hostId' = hostId /\ members' = members
        /\ ~overlapped' => ~overlapped
        /\ ~interrupted' => ~interrupted
    BY <1>8 DEF StartCreate, GoesOn, Proceeds, Ends, history, room
  <2> QED BY <2>1, <2>2, <2>3, SameRoomKeepsAlone
<1>9. ASSUME NEW r \in Request, StartCreateRefused(r) PROVE AloneInv'
  <2>1. request[r].step = "start:create" /\ request[r] # Done BY <1>9, StepOfDone DEF StartCreateRefused
  <2>2. Stepped(r, "done")
    BY <1>9, <2>1, EndMoves DEF StartCreateRefused, Ends
  <2>3. /\ status' \in {status, "IN_PROGRESS"} /\ hostId' = hostId /\ members' = members
        /\ ~overlapped' => ~overlapped
        /\ ~interrupted' => ~interrupted
    BY <1>9 DEF StartCreateRefused, GoesOn, Proceeds, Ends, history, room
  <2> QED BY <2>1, <2>2, <2>3, SameRoomKeepsAlone
<1>10. ASSUME NEW r \in Request, StartPay(r) PROVE AloneInv'
  <2>1. request[r].step = "start:pay" /\ request[r] # Done BY <1>10, StepOfDone DEF StartPay
  <2>2. Stepped(r, "start:save")
    BY <1>10, <2>1, ProceedsMoves DEF StartPay
  <2>3. /\ status' \in {status, "IN_PROGRESS"} /\ hostId' = hostId /\ members' = members
        /\ ~overlapped' => ~overlapped
        /\ ~interrupted' => ~interrupted
    BY <1>10 DEF StartPay, GoesOn, Proceeds, Ends, history, room
  <2> QED BY <2>1, <2>2, <2>3, SameRoomKeepsAlone
<1>11. ASSUME NEW r \in Request, StartRefused(r) PROVE AloneInv'
  <2>1. request[r].step = "start:pay" /\ request[r] # Done BY <1>11, StepOfDone DEF StartRefused
  <2>2. Stepped(r, "done")
    BY <1>11, <2>1, EndMoves DEF StartRefused, Ends
  <2>3. /\ status' \in {status, "IN_PROGRESS"} /\ hostId' = hostId /\ members' = members
        /\ ~overlapped' => ~overlapped
        /\ ~interrupted' => ~interrupted
    BY <1>11 DEF StartRefused, GoesOn, Proceeds, Ends, history, room
  <2> QED BY <2>1, <2>2, <2>3, SameRoomKeepsAlone
<1>12. ASSUME NEW r \in Request, StartSave(r) PROVE AloneInv'
  <2>1. request[r].step = "start:save" /\ request[r] # Done BY <1>12, StepOfDone DEF StartSave
  <2>2. Stepped(r, "done")
    BY <1>12, <2>1, EndMoves DEF StartSave, Ends
  <2>3. /\ status' \in {status, "IN_PROGRESS"} /\ hostId' = hostId /\ members' = members
        /\ ~overlapped' => ~overlapped
        /\ ~interrupted' => ~interrupted
    BY <1>12 DEF StartSave, GoesOn, Proceeds, Ends, history, room
  <2> QED BY <2>1, <2>2, <2>3, SameRoomKeepsAlone
<1>13. ASSUME NEW r \in Request, CreateRoom(r) PROVE AloneInv'
  <2> SUFFICES ASSUME ~overlapped', ~interrupted' PROVE Alone'
    BY DEF AloneInv
  <2>1. request[r].step = "create:room" /\ request[r] # Done /\ request[r] \in RequestType
        /\ request[r].user \in User
    BY <1>13, StepOfDone DEF CreateRoom, RequestType
  <2>2. Alone BY <1>13 DEF AloneInv, CreateRoom, Proceeds, history
  <2>3. \A o \in Request : o # r => request[o] = Done BY <2>1, <2>2, OnlyOne
  <2>4. WholeRoom \/ request[r].step \in Between BY <2>1, <2>2, OnlyOne
  <2>5. Creation(r) /\ Joining(r) /\ Leaving(r) /\ Len(members) <= MaxPlayers BY <2>2 DEF Alone
  <2>6. /\ Stepped(r, "create:add") /\ request'[r].step = "create:add"
        /\ request'[r].user = request[r].user /\ request'[r].hostId = request[r].hostId
    BY <1>13, <2>1, ProceedsMoves DEF CreateRoom, Proceeds, Stepped
  <2>7. Len(members') <= MaxPlayers /\ Creation(r)' /\ Joining(r)' /\ Leaving(r)'
    <3>1. members = <<>> BY <2>1 DEF StartInv, UncreatedInv
    <3>2. members' = <<>> /\ Len(<<>>) = 0 /\ status' = "LOBBY" /\ hostId' = request[r].user
      BY <1>13, <3>1 DEF CreateRoom
    <3> QED BY <2>6, <3>2, RoomAssumption DEF Creation, Joining, Leaving
  <2> QED BY <2>3, <2>6, <2>7, AloneAfter
<1>14. ASSUME NEW r \in Request, CreateAdd(r) PROVE AloneInv'
  <2> SUFFICES ASSUME ~overlapped', ~interrupted' PROVE Alone'
    BY DEF AloneInv
  <2>1. request[r].step = "create:add" /\ request[r] # Done /\ request[r] \in RequestType
        /\ request[r].user \in User
    BY <1>14, StepOfDone DEF CreateAdd, RequestType
  <2>2. Alone BY <1>14 DEF AloneInv, CreateAdd, Ends, history
  <2>3. \A o \in Request : o # r => request[o] = Done BY <2>1, <2>2, OnlyOne
  <2>4. WholeRoom \/ request[r].step \in Between BY <2>1, <2>2, OnlyOne
  <2>5. Creation(r) /\ Joining(r) /\ Leaving(r) /\ Len(members) <= MaxPlayers BY <2>2 DEF Alone
  <2>6. /\ Stepped(r, "done") /\ request'[r].step = "done"
    BY <1>14, <2>1, EndMoves DEF CreateAdd, Ends, Stepped
  <2>7. Len(members') <= MaxPlayers /\ WholeRoom' /\ Creation(r)' /\ Joining(r)' /\ Leaving(r)'
    <3>1. status = "LOBBY" /\ members = <<>> /\ request[r].user = hostId BY <2>1, <2>5 DEF Creation
    <3>2. Len(members) = 0 /\ request[r].user \notin Users(members) BY <3>1 DEF Users
    <3>3. Len(members') = Len(members) + 1 /\ members' # <<>> /\ request[r].user \in Users(members')
      BY <1>14, <2>1, <3>2, JoinedMember DEF CreateAdd, MembersInv
    <3>4. status' = "LOBBY" /\ hostId' = request[r].user BY <1>14, <3>1 DEF CreateAdd
    <3> QED BY <2>6, <3>2, <3>3, <3>4, RoomAssumption DEF WholeRoom, Creation, Joining, Leaving
  <2> QED BY <2>3, <2>6, <2>7, AloneAfter
<1>15. ASSUME NEW r \in Request, JoinList(r) PROVE AloneInv'
  <2> SUFFICES ASSUME ~overlapped', ~interrupted' PROVE Alone'
    BY DEF AloneInv
  <2>1. request[r].step = "join:list" /\ request[r] # Done /\ request[r] \in RequestType
        /\ request[r].user \in User
    BY <1>15, StepOfDone DEF JoinList, RequestType
  <2>2. Alone BY <1>15 DEF AloneInv, JoinList, GoesOn, history
  <2>3. \A o \in Request : o # r => request[o] = Done BY <2>1, <2>2, OnlyOne
  <2>4. WholeRoom \/ request[r].step \in Between BY <2>1, <2>2, OnlyOne
  <2>5. Creation(r) /\ Joining(r) /\ Leaving(r) /\ Len(members) <= MaxPlayers BY <2>2 DEF Alone
  <2>6. /\ Stepped(r, "join:add") /\ request'[r].step = "join:add"
        /\ request'[r].user = request[r].user /\ request'[r].hostId = request[r].hostId
        /\ request'[r].players = members
    BY <1>15, <2>1, GoesOnMoves DEF JoinList, GoesOn, Stepped
  <2>7. Len(members') <= MaxPlayers /\ WholeRoom' /\ Creation(r)' /\ Joining(r)' /\ Leaving(r)'
    <3>1. status' = status /\ hostId' = hostId /\ members' = members BY <1>15 DEF JoinList, room
    <3>2. Joining(r)' BY <1>15, <2>1, <2>5, <2>6, <3>1 DEF Joining, JoinList, MayJoin
    <3> QED BY <2>1, <2>4, <2>5, <2>6, <3>1, <3>2 DEF WholeRoom, Creation, Leaving
  <2> QED BY <2>3, <2>6, <2>7, AloneAfter
<1>16. ASSUME NEW r \in Request, JoinAdd(r) PROVE AloneInv'
  <2> SUFFICES ASSUME ~overlapped', ~interrupted' PROVE Alone'
    BY DEF AloneInv
  <2>1. request[r].step = "join:add" /\ request[r] # Done /\ request[r] \in RequestType
        /\ request[r].user \in User
    BY <1>16, StepOfDone DEF JoinAdd, RequestType
  <2>2. Alone BY <1>16 DEF AloneInv, JoinAdd, Ends, history
  <2>3. \A o \in Request : o # r => request[o] = Done BY <2>1, <2>2, OnlyOne
  <2>4. WholeRoom \/ request[r].step \in Between BY <2>1, <2>2, OnlyOne
  <2>5. Creation(r) /\ Joining(r) /\ Leaving(r) /\ Len(members) <= MaxPlayers BY <2>2 DEF Alone
  <2>6. /\ Stepped(r, "done") /\ request'[r].step = "done"
    BY <1>16, <2>1, EndMoves DEF JoinAdd, Ends, Stepped
  <2>7. Len(members') <= MaxPlayers /\ WholeRoom' /\ Creation(r)' /\ Joining(r)' /\ Leaving(r)'
    <3>1. status # "CANCELLED" /\ request[r].user \notin Users(members) /\ Len(members) < MaxPlayers
      BY <2>1, <2>5 DEF Joining
    <3>2. /\ Len(members') = Len(members) + 1 /\ members' # <<>>
          /\ Users(members) \subseteq Users(members')
      BY <1>16, <2>1, <3>1, JoinedMember DEF JoinAdd, MembersInv
    <3>3. status' = status /\ hostId' = hostId BY <1>16 DEF JoinAdd
    <3>4. Len(members') <= MaxPlayers
      <4>1. Len(members) \in Nat BY LenProperties DEF MembersInv, RoomInv
      <4> QED BY <3>1, <3>2, <4>1, RoomAssumption
    <3> QED BY <2>1, <2>4, <2>6, <3>1, <3>2, <3>3, <3>4 DEF WholeRoom, Creation, Joining, Leaving
  <2> QED BY <2>3, <2>6, <2>7, AloneAfter
<1>17. ASSUME NEW r \in Request, SetReady(r) PROVE AloneInv'
  <2> SUFFICES ASSUME ~overlapped', ~interrupted' PROVE Alone'
    BY DEF AloneInv
  <2>1. request[r].step \in {"ready:on", "ready:off"} /\ request[r] # Done
        /\ request[r].user \in User
    BY <1>17, StepOfDone DEF SetReady, RequestType
  <2>2. Alone BY <1>17 DEF AloneInv, SetReady, Ends, history
  <2>3. \A o \in Request : o # r => request[o] = Done BY <2>1, <2>2, OnlyOne
  <2>4. WholeRoom /\ Len(members) <= MaxPlayers BY <2>1, <2>2, OnlyOne DEF Alone
  <2>5. Stepped(r, "done") /\ request'[r].step = "done" BY <1>17, EndMoves DEF SetReady, Ends, Stepped
  <2>6. /\ Len(members') = Len(members) /\ Users(members') = Users(members)
        /\ members' = <<>> <=> members = <<>>
    <3>1. PICK on \in BOOLEAN : on = At(r, "ready:on") BY DEF At
    <3> QED BY <1>17, <2>1, <3>1, ReadyMembers DEF SetReady, MembersInv
  <2>7. status' = status /\ hostId' = hostId BY <1>17 DEF SetReady
  <2>8. WholeRoom' BY <2>4, <2>6, <2>7 DEF WholeRoom
  <2>9. Creation(r)' /\ Joining(r)' /\ Leaving(r)' BY <2>5 DEF Creation, Joining, Leaving
  <2> QED BY <2>3, <2>4, <2>5, <2>6, <2>8, <2>9, AloneAfter
<1>18. ASSUME NEW r \in Request, LeaveRemove(r) PROVE AloneInv'
  <2> SUFFICES ASSUME ~overlapped', ~interrupted' PROVE Alone'
    BY DEF AloneInv
  <2>1. request[r].step = "leave:remove" /\ request[r] # Done BY <1>18, StepOfDone DEF LeaveRemove
  <2>2. Alone BY <1>18 DEF AloneInv, LeaveRemove, Proceeds, Ends, history
  <2>3. \A o \in Request : o # r => request[o] = Done BY <2>1, <2>2, OnlyOne
  <2>4. WholeRoom /\ Len(members) <= MaxPlayers /\ request[r].hostId = hostId
    BY <2>1, <2>2, OnlyOne DEF Alone, Leaving
  <2>5. status' = status /\ hostId' = hostId BY <1>18 DEF LeaveRemove
  <2>6. CASE UNCHANGED members /\ Ends(r)
    <3>1. Stepped(r, "done") /\ request'[r].step = "done" BY <2>6, EndMoves DEF Ends, Stepped
    <3>2. WholeRoom' /\ Len(members') <= MaxPlayers BY <2>4, <2>5, <2>6 DEF WholeRoom
    <3>3. Creation(r)' /\ Joining(r)' /\ Leaving(r)' BY <3>1 DEF Creation, Joining, Leaving
    <3> QED BY <2>3, <3>1, <3>2, <3>3, AloneAfter
  <2>7. ASSUME NEW i \in DOMAIN members, members[i].userId = request[r].user,
               members' = RemoveAt(members, i), Proceeds(r, "leave:list")
        PROVE  Alone'
    <3>1. /\ Len(members') <= Len(members) /\ members # <<>>
          /\ \A u \in Users(members) : u # members[i].userId => u \in Users(members')
      BY <2>7, RemainingMembers DEF MembersInv
    <3>2. /\ Stepped(r, "leave:list") /\ request'[r].step = "leave:list"
          /\ request'[r].user = request[r].user /\ request'[r].hostId = request[r].hostId
      BY <2>1, <2>7, ProceedsMoves DEF Stepped
    <3>3. status # "CANCELLED" BY <2>4, <3>1 DEF WholeRoom
    <3>4. status = "LOBBY" => hostId = request[r].user \/ hostId \in Users(members')
      BY <2>4, <2>7, <3>1 DEF WholeRoom
    <3>5. Creation(r)' /\ Joining(r)' /\ Leaving(r)'
      BY <2>4, <2>5, <3>2, <3>3, <3>4 DEF Creation, Joining, Leaving
    <3>6. Len(members') <= MaxPlayers
      <4>1. members \in Seq(MemberType) /\ RemoveAt(members, i) \in Seq(MemberType)
        BY RemoveKeepsRoom DEF MembersInv, RoomInv
      <4>2. Len(members) \in Nat /\ Len(members') \in Nat BY <2>7, <4>1, LenProperties
      <4> QED BY <2>4, <3>1, <4>2, RoomAssumption
    <3> QED BY <2>3, <3>2, <3>5, <3>6, AloneAfter
  <2> QED BY <1>18, <2>6, <2>7 DEF LeaveRemove
<1>19. ASSUME NEW r \in Request, LeaveList(r) PROVE AloneInv'
  <2> SUFFICES ASSUME ~overlapped', ~interrupted' PROVE Alone'
    BY DEF AloneInv
  <2>1. request[r].step = "leave:list" /\ request[r] # Done /\ request[r] \in RequestType
        /\ request[r].user \in User
    BY <1>19, StepOfDone DEF LeaveList, RequestType
  <2>2. Alone BY <1>19 DEF AloneInv, LeaveList, GoesOn, history
  <2>3. \A o \in Request : o # r => request[o] = Done BY <2>1, <2>2, OnlyOne
  <2>4. WholeRoom \/ request[r].step \in Between BY <2>1, <2>2, OnlyOne
  <2>5. Creation(r) /\ Joining(r) /\ Leaving(r) /\ Len(members) <= MaxPlayers BY <2>2 DEF Alone
  <2>6. /\ Stepped(r, "leave:update") /\ request'[r].step = "leave:update"
        /\ request'[r].user = request[r].user /\ request'[r].hostId = request[r].hostId
        /\ request'[r].players = members
    BY <1>19, <2>1, GoesOnMoves DEF LeaveList, GoesOn, Stepped
  <2>7. Len(members') <= MaxPlayers /\ Creation(r)' /\ Joining(r)' /\ Leaving(r)'
    <3>1. status' = status /\ hostId' = hostId /\ members' = members BY <1>19 DEF LeaveList, room
    <3> QED BY <2>1, <2>5, <2>6, <3>1 DEF Creation, Joining, Leaving
  <2> QED BY <2>3, <2>6, <2>7, AloneAfter
<1>20. ASSUME NEW r \in Request, LeaveUpdate(r) PROVE AloneInv'
  <2> SUFFICES ASSUME ~overlapped', ~interrupted' PROVE Alone'
    BY DEF AloneInv
  <2>1. request[r].step = "leave:update" /\ request[r] # Done /\ request[r] \in RequestType
        /\ request[r].user \in User
    BY <1>20, StepOfDone DEF LeaveUpdate, RequestType
  <2>2. Alone BY <1>20 DEF AloneInv, LeaveUpdate, Ends, history
  <2>3. \A o \in Request : o # r => request[o] = Done BY <2>1, <2>2, OnlyOne
  <2>4. WholeRoom \/ request[r].step \in Between BY <2>1, <2>2, OnlyOne
  <2>5. Creation(r) /\ Joining(r) /\ Leaving(r) /\ Len(members) <= MaxPlayers BY <2>2 DEF Alone
  <2>6. /\ Stepped(r, "done") /\ request'[r].step = "done"
    BY <1>20, <2>1, EndMoves DEF LeaveUpdate, Ends, Stepped
  <2>7. Len(members') <= MaxPlayers /\ WholeRoom' /\ Creation(r)' /\ Joining(r)' /\ Leaving(r)'
    <3>1. /\ request[r].players = members /\ request[r].hostId = hostId /\ status # "CANCELLED"
          /\ status = "LOBBY" => hostId = request[r].user \/ hostId \in Users(members)
      BY <2>1, <2>5 DEF Leaving
    <3>2. /\ status' = IF members = <<>> THEN "CANCELLED" ELSE status
          /\ hostId' = IF members # <<>> /\ hostId = request[r].user THEN members[1].userId ELSE hostId
          /\ members' = members
      BY <1>20, <3>1 DEF LeaveUpdate
    <3>3. members # <<>> => members[1].userId \in Users(members)
      <4>1. members \in Seq(MemberType) BY DEF MembersInv, RoomInv
      <4>2. members # <<>> => 1 \in DOMAIN members BY <4>1, EmptySeq, LenProperties
      <4> QED BY <4>2 DEF Users
    <3>4. WholeRoom' BY <3>1, <3>2, <3>3 DEF WholeRoom
    <3> QED BY <2>5, <2>6, <3>2, <3>4 DEF Creation, Joining, Leaving
  <2> QED BY <2>3, <2>6, <2>7, AloneAfter
<1>21. ASSUME NEW r \in Request, StartSaveFails(r) PROVE AloneInv'
  BY <1>21 DEF StartSaveFails, AloneInv
<1>22. CASE FinishGame
  <2> SUFFICES ASSUME ~overlapped', ~interrupted' PROVE Alone'
    BY DEF AloneInv
  <2>1. Alone /\ request' = request /\ members' = members /\ hostId' = hostId /\ status' = "FINISHED"
    BY <1>22 DEF FinishGame, history, AloneInv
  <2>2. status # "LOBBY" BY <1>22 DEF FinishGame, StartInv, GameInv
  <2>3. WholeRoom' BY <2>1 DEF WholeRoom
  <2>4. ASSUME NEW r \in Request PROVE Creation(r)' /\ Joining(r)' /\ Leaving(r)'
    <3>1. Creation(r) /\ Joining(r) /\ Leaving(r) BY <2>1 DEF Alone
    <3> QED BY <2>1, <2>2, <3>1 DEF Creation, Joining, Leaving
  <2> QED BY <2>1, <2>3, <2>4 DEF Alone
<1>23. CASE Crash
  BY <1>23 DEF Crash, AloneInv
<1>24. CASE UNCHANGED vars
  <2>1. Alone' <=> Alone
    BY <1>24 DEF vars, Alone, WholeRoom, Creation, Joining, Leaving
  <2> QED BY <1>24, <2>1 DEF vars, AloneInv
<1> QED BY <1>1, <1>2, <1>3, <1>4, <1>5, <1>6, <1>7, <1>8, <1>9, <1>10, <1>11, <1>12,
           <1>13, <1>14, <1>15, <1>16, <1>17, <1>18, <1>19, <1>20, <1>21, <1>22, <1>23,
           <1>24 DEF Next

\* RoomsService and LobbyService: a room whose requests neither overlapped nor were cut
\* short has its host in it, is not overfull, and is cancelled when nobody is left.
THEOREM AloneKeepsRoomWholeHolds == Spec => []AloneKeepsRoomWhole
<1>1. Init => AloneInv
  <2> SUFFICES ASSUME Init PROVE AloneInv
    OBVIOUS
  <2>1. \A r \in Request : request[r] = Done /\ request[r].step = "done" BY DEF Init, Done
  <2>2. members = <<>> /\ Len(<<>>) = 0 /\ status = "NONE" BY DEF Init
  <2>3. Alone
    BY <2>1, <2>2, RoomAssumption DEF Alone, WholeRoom, Creation, Joining, Leaving
  <2> QED BY <2>3 DEF AloneInv
<1>2. AloneInv /\ (MembersInv /\ StartInv) /\ [Next]_vars => AloneInv' BY AloneStep
<1>3. MembersInv /\ AloneInv => AloneKeepsRoomWhole
  <2> SUFFICES ASSUME MembersInv, AloneInv, Quiet, ~overlapped, ~interrupted
               PROVE  Len(members) <= MaxPlayers /\ WholeRoom
    BY DEF AloneKeepsRoomWhole, WholeRoom
  <2>1. Alone /\ \A r \in Request : request[r].step \notin Between
    BY DEF AloneInv, Quiet, Done, Between
  <2> QED BY <2>1 DEF Alone
<1> QED BY <1>1, <1>2, <1>3, RoomInductive, PTL DEF Spec
=============================================================================
