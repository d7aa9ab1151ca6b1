-------------------------- MODULE Household_proofs --------------------------
(***************************************************************************)
(* Proofs about parts that share no state, each with theorems about its    *)
(* own specification.                                                      *)
(*                                                                         *)
(* Portal (first part), for any people, meters, places, requests and       *)
(* browsers: the location and the address of a meter are of one request,   *)
(* and the answers to registrations are true, however requests interleave. *)
(*                                                                         *)
(* Signature (second part), for any messages, flows and hours and any      *)
(* number of power losses: between saves the record holds the fingerprint  *)
(* in use, and a verdict is one of a fingerprint that was sent.  The crc   *)
(* is not looked into: what it tells apart is part of the statement.       *)
(*                                                                         *)
(* Billing (third part), for any pulses per litre, readings, buckets and   *)
(* power losses, as long as the pulses stay below the wrap of unsigned     *)
(* long: how much water a household is shown.  The invariant is a ledger   *)
(* of what each bucket may show; before it, sums over finite sets.         *)
(*                                                                         *)
(* Commands (fourth part), for payloads of every length: what onMessage,   *)
(* parseCommand and jsonFloat find by searching is what Means says without *)
(* a search, so the valve obeys.                                           *)
(***************************************************************************)
EXTENDS Portal, Signature, Billing, SequenceTheorems, FiniteSetTheorems, WellFoundedInduction,
        TLAPS

\* The steps that carry the registration of a meter.
Registering == {"ensureMeter", "insertUser", "insertHome"}

\* A request at any of its steps.
Requests ==
  [step : Steps, who : People \cup {None}, imei : Imeis \cup {None},
   address : Addresses, given : Locations, at : People \cup Locations]

\* A row of portal_meters.
Homes == [who : People, imei : Imeis, address : Addresses, given : Locations, at : Locations]

\* A location is the one that was given, or what geocoding the address may leave.
PlaceOf(r) == IF r.given \in Places THEN r.at = r.given ELSE r.at \in {r.given, r.address}

\* Requests are what the routes make of them.
ReqOK ==
  /\ req \in [Browsers -> Requests]
  /\ \A b \in Browsers : req[b].step \in Registering =>
       req[b].who \in People /\ req[b].imei \in Imeis

\* Tables, cookies and answers speak of known people.
TablesOK ==
  /\ users \subseteq People
  /\ homes \subseteq Homes
  /\ cookie \in [Browsers -> People \cup {None}]
  /\ answer \in [Browsers -> [to : People \cup {None}, said : Answers]]

\* An address request carries the location it was given, unless it goes to the geocoder:
\* then the answer to its own address may replace it.
RequestPlace ==
  \A b \in Browsers :
    /\ req[b].step = "owns" => req[b].at = req[b].given
    /\ req[b].step = "geocode" => req[b].given \notin Places
    /\ req[b].step = "update" => PlaceOf(req[b])

\* What the map needs.
PlaceInv == ReqOK /\ TablesOK /\ RequestPlace /\ PlaceOfOneRequest

\* A person who can log in and sees a meter.
AccountUsable(p) ==
  \/ \E i \in Imeis : HasHome(p, i)
  \/ \E c \in Browsers : At(c, "insertHome") /\ req[c].who = p

\* Every account has a meter or is being given one, unless a query failed.
AccountsUsable == ~faults => \A p \in users : AccountUsable(p)

\* Who was told that an email is taken was told of an account.
TakenIsAccount == \A b \in Browsers : answer[b].said = "taken" => answer[b].to \in users

\* What the answers need.
AnswerInv == PlaceInv /\ AccountsUsable /\ TakenIsAccount /\ RegisteredOwns

-----------------------------------------------------------------------------
\* The empty portal.
LEMMA InitAnswerInv == Init => AnswerInv
<1> SUFFICES ASSUME Init PROVE AnswerInv
  OBVIOUS
<1>1. ReqOK
  BY DEF Init, ReqOK, Idle, Steps, Registering, Requests, Addresses, Locations
<1>2. TablesOK
  BY DEF Init, TablesOK, Answers
<1>3. RequestPlace
  BY DEF Init, RequestPlace, Idle
<1>4. PlaceOfOneRequest /\ AccountsUsable
  BY DEF Init, PlaceOfOneRequest, AccountsUsable
<1>5. TakenIsAccount /\ RegisteredOwns
  BY DEF Init, TakenIsAccount, RegisteredOwns, None
<1>. QED
  BY <1>1, <1>2, <1>3, <1>4, <1>5 DEF AnswerInv, PlaceInv

\* A request that goes on, and one that is over.
LEMMA RequestMoves ==
  ASSUME PlaceInv, NEW b \in Browsers,
         NEW r \in Requests,
         r.step \in Registering => r.who \in People /\ r.imei \in Imeis,
         r.step = "owns" => r.at = r.given,
         r.step = "geocode" => r.given \notin Places,
         r.step = "update" => PlaceOf(r),
         req' = [req EXCEPT ![b] = r]
  PROVE  ReqOK' /\ RequestPlace'
  BY DEF PlaceInv, ReqOK, RequestPlace

\* Idle is a request.
LEMMA IdleIsRequest == Idle \in Requests /\ Idle.step = "idle"
  BY DEF Idle, Steps, Requests, Addresses, Locations

\* What a request that is over leaves behind.
LEMMA RequestEnds ==
  ASSUME PlaceInv, NEW b \in Browsers, req' = [req EXCEPT ![b] = Idle]
  PROVE  ReqOK' /\ RequestPlace'
  BY RequestMoves, IdleIsRequest DEF Registering

-----------------------------------------------------------------------------
(* PlaceInv                                                                *)

\* Asking: a request starts, or a browser logs out.
LEMMA AskKeepsPlaces ==
  ASSUME PlaceInv, NEW b \in Browsers, Ask(b)
  PROVE  PlaceInv'
<1>1. CASE \E p \in People, i \in Imeis, a \in Addresses :
              <<a, None>> \in Forms /\ Register(b, p, i, a)
  <2>1. PICK p \in People, i \in Imeis, a \in Addresses : Register(b, p, i, a)
    BY <1>1
  <2> DEFINE r == [Idle EXCEPT !.step = "ensureMeter", !.who = p, !.imei = i, !.address = a]
  <2>2. req' = [req EXCEPT ![b] = r] /\ UNCHANGED <<users, homes, cookie, answer>>
    BY <2>1 DEF Register, GoOn
  <2>3. r \in Requests /\ r.step = "ensureMeter" /\ r.who \in People /\ r.imei \in Imeis
    BY IdleIsRequest DEF Steps, Requests
  <2>4. ReqOK' /\ RequestPlace'
    <3> HIDE DEF r
    <3>. QED
      BY <2>2, <2>3, RequestMoves
  <2>5. TablesOK' /\ PlaceOfOneRequest'
    BY <2>2 DEF PlaceInv, TablesOK, PlaceOfOneRequest
  <2>. QED
    BY <2>4, <2>5 DEF PlaceInv
<1>2. CASE \E p \in People, i \in Imeis \cup {None} : Login(b, p, i)
  <2>1. PICK p \in People, i \in Imeis \cup {None} : Login(b, p, i)
    BY <1>2
  <2> DEFINE r == [Idle EXCEPT !.step = "lookup", !.who = p, !.imei = i]
  <2>2. req' = [req EXCEPT ![b] = r] /\ UNCHANGED <<users, homes, cookie, answer>>
    BY <2>1 DEF Login, GoOn
  <2>3. r \in Requests /\ r.step = "lookup"
    BY IdleIsRequest DEF Steps, Requests
  <2>4. ReqOK' /\ RequestPlace'
    <3> HIDE DEF r
    <3>. QED
      BY <2>2, <2>3, RequestMoves DEF Registering
  <2>5. TablesOK' /\ PlaceOfOneRequest'
    BY <2>2 DEF PlaceInv, TablesOK, PlaceOfOneRequest
  <2>. QED
    BY <2>4, <2>5 DEF PlaceInv
<1>3. CASE \E i \in Imeis, f \in Forms : SaveAddress(b, i, f[1], f[2])
  <2>1. PICK i \in Imeis, f \in Forms : SaveAddress(b, i, f[1], f[2])
    BY <1>3
  <2> DEFINE r == [step |-> "owns", who |-> cookie[b], imei |-> i, address |-> f[1],
                   given |-> f[2], at |-> f[2]]
  <2>2. req' = [req EXCEPT ![b] = r] /\ UNCHANGED <<users, homes, cookie, answer>>
    BY <2>1 DEF SaveAddress, GoOn
  <2>3. cookie[b] \in People \cup {None} /\ f[1] \in Addresses /\ f[2] \in Locations
    BY PortalForms DEF PlaceInv, TablesOK
  <2>4. r \in Requests /\ r.step = "owns" /\ r.at = r.given
    BY <2>3 DEF Steps, Requests
  <2>5. ReqOK' /\ RequestPlace'
    <3> HIDE DEF r
    <3>. QED
      BY <2>2, <2>4, RequestMoves DEF Registering
  <2>6. TablesOK' /\ PlaceOfOneRequest'
    BY <2>2 DEF PlaceInv, TablesOK, PlaceOfOneRequest
  <2>. QED
    BY <2>5, <2>6 DEF PlaceInv
<1>4. CASE Logout(b)
  <2>1. ReqOK' /\ RequestPlace' /\ PlaceOfOneRequest'
    BY <1>4 DEF Logout, PlaceInv, ReqOK, RequestPlace, PlaceOfOneRequest
  <2>2. TablesOK'
    BY <1>4 DEF Logout, PlaceInv, TablesOK
  <2>. QED
    BY <2>1, <2>2 DEF PlaceInv
<1>. QED
  BY <1>1, <1>2, <1>3, <1>4 DEF Ask

\* A route's next query or answer.
LEMMA HandleKeepsPlaces ==
  ASSUME PlaceInv, NEW b \in Browsers, Handle(b)
  PROVE  PlaceInv'
<1>0. /\ req[b] \in Requests
      /\ req[b].step \in Registering => req[b].who \in People /\ req[b].imei \in Imeis
      /\ req \in [Browsers -> Requests]
  BY DEF PlaceInv, ReqOK
<1>1. CASE EnsureMeter(b)
  <2>1. ReqOK' /\ RequestPlace'
    BY <1>0, <1>1, RequestMoves DEF EnsureMeter, GoOn, At, Steps, Registering, Requests
  <2>2. TablesOK' /\ PlaceOfOneRequest'
    BY <1>1 DEF EnsureMeter, GoOn, PlaceInv, TablesOK, PlaceOfOneRequest
  <2>. QED
    BY <2>1, <2>2 DEF PlaceInv
<1>2. CASE InsertUser(b)
  <2>1. ReqOK' /\ RequestPlace'
    BY <1>0, <1>2, RequestMoves DEF InsertUser, GoOn, At, Steps, Registering, Requests
  <2>2. TablesOK' /\ PlaceOfOneRequest'
    BY <1>0, <1>2 DEF InsertUser, GoOn, At, PlaceInv, TablesOK, PlaceOfOneRequest, Registering
  <2>. QED
    BY <2>1, <2>2 DEF PlaceInv
<1>3. CASE EmailTaken(b)
  <2>1. ReqOK' /\ RequestPlace'
    BY <1>3, RequestEnds DEF EmailTaken, Reply
  <2>2. TablesOK' /\ PlaceOfOneRequest'
    BY <1>0, <1>3
       DEF EmailTaken, Reply, PlaceInv, TablesOK, PlaceOfOneRequest, Answers, Requests
  <2>. QED
    BY <2>1, <2>2 DEF PlaceInv
<1>4. CASE InsertHome(b)
  <2>1. ReqOK' /\ RequestPlace'
    BY <1>4, RequestEnds DEF InsertHome, Reply
  <2>2. NewHome(b) \in Homes /\ NewHome(b).at = NewHome(b).given /\ NewHome(b).given = None
    BY <1>0, <1>4 DEF InsertHome, At, NewHome, Registering, Requests, Homes, Locations
  <2>3. TablesOK'
    BY <1>0, <1>4, <2>2
    DEF InsertHome, At, Reply, PlaceInv, TablesOK, Answers, Requests, Registering
  <2>4. PlaceOfOneRequest'
    BY <1>4, <2>2, PortalNone DEF InsertHome, PlaceInv, PlaceOfOneRequest
  <2>. QED
    BY <2>1, <2>3, <2>4 DEF PlaceInv
<1>5. CASE Lookup(b)
  <2>1. UNCHANGED <<users, homes, cookie, answer>>
    BY <1>5 DEF Lookup, Done, GoOn
  <2>2. Found(req[b].who, req[b].imei) \subseteq People
    BY <1>0 DEF Found, PlaceInv, TablesOK, Homes, Requests
  <2>3. ReqOK' /\ RequestPlace'
    <3>1. CASE Done(b)
      BY <3>1, RequestEnds DEF Done, GoOn
    <3>2. CASE \E p \in Found(req[b].who, req[b].imei) :
                 GoOn(b, [req[b] EXCEPT !.step = "verify", !.at = p])
      <4>1. PICK p \in Found(req[b].who, req[b].imei) :
                   GoOn(b, [req[b] EXCEPT !.step = "verify", !.at = p])
        BY <3>2
      <4> DEFINE r == [req[b] EXCEPT !.step = "verify", !.at = p]
      <4>2. r \in Requests /\ r.step = "verify"
        BY <1>0, <2>2 DEF Steps, Requests
      <4>3. req' = [req EXCEPT ![b] = r]
        BY <4>1 DEF GoOn
      <4> HIDE DEF r
      <4>. QED
        BY <4>2, <4>3, RequestMoves DEF Registering
    <3>. QED
      BY <1>5, <3>1, <3>2 DEF Lookup
  <2>4. TablesOK' /\ PlaceOfOneRequest'
    BY <2>1 DEF PlaceInv, TablesOK, PlaceOfOneRequest
  <2>. QED
    BY <2>3, <2>4 DEF PlaceInv
<1>6. CASE Verify(b)
  <2>1. ReqOK' /\ RequestPlace'
    BY <1>6, RequestEnds DEF Verify, Done, GoOn
  <2>2. TablesOK' /\ PlaceOfOneRequest'
    BY <1>0, <1>6 DEF Verify, Done, GoOn, PlaceInv, TablesOK, PlaceOfOneRequest, Requests
  <2>. QED
    BY <2>1, <2>2 DEF PlaceInv
<1>7. CASE OwnsMeter(b)
  <2>1. UNCHANGED <<users, homes, cookie, answer>>
    BY <1>7 DEF OwnsMeter, Done, GoOn
  <2>2. ReqOK' /\ RequestPlace'
    <3>1. CASE Done(b)
      BY <3>1, RequestEnds DEF Done, GoOn
    <3>2. CASE GoOn(b, [req[b] EXCEPT !.step = IF ToGeocode(req[b]) THEN "geocode"
                                                                   ELSE "update"])
      <4> DEFINE r == [req[b] EXCEPT !.step = IF ToGeocode(req[b]) THEN "geocode" ELSE "update"]
      <4>1. req[b].at = req[b].given
        BY <1>7 DEF OwnsMeter, At, PlaceInv, RequestPlace
      <4>2. /\ r \in Requests /\ r.step = IF ToGeocode(req[b]) THEN "geocode" ELSE "update"
            /\ r.at = r.given /\ r.given = req[b].given
        BY <1>0, <4>1 DEF Steps, Requests
      <4>3. req' = [req EXCEPT ![b] = r]
        BY <3>2 DEF GoOn
      <4> HIDE DEF r
      <4>4. r.step = "geocode" => r.given \notin Places
        BY <4>2 DEF ToGeocode
      <4>5. PlaceOf(r) /\ r.step \in {"update", "geocode"}
        BY <4>2 DEF PlaceOf
      <4>. QED
        BY <4>2, <4>3, <4>4, <4>5, RequestMoves DEF Registering
    <3>. QED
      BY <1>7, <3>1, <3>2 DEF OwnsMeter
  <2>3. TablesOK' /\ PlaceOfOneRequest'
    BY <2>1 DEF PlaceInv, TablesOK, PlaceOfOneRequest
  <2>. QED
    BY <2>2, <2>3 DEF PlaceInv
<1>8. CASE Geocode(b)
  <2>1. UNCHANGED <<users, homes, cookie, answer>>
    BY <1>8 DEF Geocode, GoOn
  <2>2. PICK found \in {req[b].address, req[b].given} :
               GoOn(b, [req[b] EXCEPT !.step = "update", !.at = found])
    BY <1>8 DEF Geocode
  <2>3. ReqOK' /\ RequestPlace'
    <3> DEFINE r == [req[b] EXCEPT !.step = "update", !.at = found]
    <3>1. req[b].given \notin Places
      BY <1>8 DEF Geocode, At, PlaceInv, RequestPlace
    <3>2. /\ r \in Requests /\ r.step = "update" /\ r.at = found
          /\ r.given = req[b].given /\ r.address = req[b].address
      BY <1>0 DEF Steps, Requests, Addresses, Locations
    <3>3. req' = [req EXCEPT ![b] = r]
      BY <2>2 DEF GoOn
    <3> HIDE DEF r
    <3>4. PlaceOf(r)
      BY <3>1, <3>2 DEF PlaceOf
    <3>. QED
      BY <3>2, <3>3, <3>4, RequestMoves DEF Registering
  <2>4. TablesOK' /\ PlaceOfOneRequest'
    BY <2>1 DEF PlaceInv, TablesOK, PlaceOfOneRequest
  <2>. QED
    BY <2>3, <2>4 DEF PlaceInv
<1>9. CASE UpdateHome(b)
  <2>1. ReqOK' /\ RequestPlace'
    BY <1>9, RequestEnds DEF UpdateHome, Done, GoOn
  <2>2. /\ PlaceOf(req[b]) /\ req[b].address \in Addresses /\ req[b].given \in Locations
        /\ req[b].at \in Locations
    <3>1. PlaceOf(req[b]) /\ req[b].address \in Addresses /\ req[b].given \in Locations
      BY <1>0, <1>9 DEF UpdateHome, At, PlaceInv, RequestPlace, Requests
    <3>. QED
      BY <3>1 DEF PlaceOf, Addresses, Locations
  <2>3. ASSUME NEW h \in homes PROVE Moved(h, req[b]) \in Homes /\ PlaceOf(Moved(h, req[b]))
    <3>1. h \in Homes
      BY DEF PlaceInv, TablesOK
    <3>2. /\ Moved(h, req[b]) \in Homes
          /\ Moved(h, req[b]).address = req[b].address
          /\ Moved(h, req[b]).given = req[b].given /\ Moved(h, req[b]).at = req[b].at
      BY <2>2, <3>1 DEF Moved, Homes
    <3>. QED
      BY <2>2, <3>2 DEF PlaceOf
  <2>4. TablesOK'
    BY <1>9, <2>3 DEF UpdateHome, Done, GoOn, PlaceInv, TablesOK
  <2>5. PlaceOfOneRequest'
    BY <1>9, <2>3 DEF UpdateHome, PlaceInv, PlaceOfOneRequest, PlaceOf
  <2>. QED
    BY <2>1, <2>4, <2>5 DEF PlaceInv
<1>10. CASE QueryFails(b)
  <2>1. req' = [req EXCEPT ![b] = Idle] /\ UNCHANGED <<users, homes, cookie>>
    BY <1>10 DEF QueryFails, Reply, Done, GoOn
  <2>2. ReqOK' /\ RequestPlace'
    BY <2>1, RequestEnds
  <2>3. answer' \in [Browsers -> [to : People \cup {None}, said : Answers]]
    BY <1>0, <1>10 DEF QueryFails, Reply, Done, GoOn, PlaceInv, TablesOK, Answers, Requests
  <2>4. TablesOK' /\ PlaceOfOneRequest'
    BY <2>1, <2>3 DEF PlaceInv, TablesOK, PlaceOfOneRequest
  <2>. QED
    BY <2>2, <2>4 DEF PlaceInv
<1>. QED
  BY <1>1, <1>2, <1>3, <1>4, <1>5, <1>6, <1>7, <1>8, <1>9, <1>10 DEF Handle

\* Every step keeps the invariant of places.
LEMMA StepKeepsPlaces == PlaceInv /\ [Next]_vars => PlaceInv'
<1> SUFFICES ASSUME PlaceInv, [Next]_vars PROVE PlaceInv'
  OBVIOUS
<1>1. CASE Next
  BY <1>1, AskKeepsPlaces, HandleKeepsPlaces DEF Next
<1>2. CASE UNCHANGED vars
  <2>1. ReqOK' /\ RequestPlace'
    BY <1>2 DEF vars, PlaceInv, ReqOK, RequestPlace
  <2>2. TablesOK' /\ PlaceOfOneRequest'
    BY <1>2 DEF vars, PlaceInv, TablesOK, PlaceOfOneRequest
  <2>. QED
    BY <2>1, <2>2 DEF PlaceInv
<1>. QED
  BY <1>1, <1>2

\* The location and the address of a meter are of one request, however requests and the
\* answers of the geocoder interleave, and whatever locations requests bring along
\* (address route).
THEOREM PlacesMatch == Spec => []PlaceOfOneRequest
<1>1. Init => PlaceInv
  BY InitAnswerInv DEF AnswerInv
<1>2. PlaceInv => PlaceOfOneRequest
  BY DEF PlaceInv
<1>. QED
  BY <1>1, <1>2, StepKeepsPlaces, PTL DEF Spec

-----------------------------------------------------------------------------
(* AnswerInv                                                               *)

\* A meter stays its owner's: no request takes a row away or moves it to another.
LEMMA HomesStay ==
  ASSUME PlaceInv, [Next]_vars, NEW p, NEW i, HasHome(p, i)
  PROVE  HasHome(p, i)'
<1>1. PICK h \in homes : h.who = p /\ h.imei = i
  BY DEF HasHome
<1>2. CASE homes \subseteq homes'
  BY <1>1, <1>2 DEF HasHome
<1>3. ASSUME NEW b \in Browsers, UpdateHome(b)
      PROVE  HasHome(p, i)'
  <2>1. Moved(h, req[b]).who = p /\ Moved(h, req[b]).imei = i
    BY <1>1 DEF Moved, PlaceInv, TablesOK
  <2>2. h \in homes' \/ Moved(h, req[b]) \in homes'
    BY <1>1, <1>3 DEF UpdateHome
  <2>. QED
    BY <1>1, <2>1, <2>2 DEF HasHome
<1>4. homes \subseteq homes' \/ \E b \in Browsers : UpdateHome(b)
  BY DEF Next, vars, Ask, Handle, Register, Login, SaveAddress, Logout, EnsureMeter, InsertUser,
         EmailTaken, InsertHome, Lookup, Verify, OwnsMeter, Geocode, QueryFails
<1>. QED
  BY <1>2, <1>3, <1>4

\* Accounts are never taken back.
LEMMA AccountsStay == [Next]_vars => users \subseteq users' /\ UNCHANGED faults
  BY DEF Next, vars, Ask, Handle, Register, Login, SaveAddress, Logout, EnsureMeter, InsertUser,
         EmailTaken, InsertHome, Lookup, Verify, OwnsMeter, Geocode, UpdateHome, QueryFails

\* When no query fails, an account has its meter, or its request is about to make it.
LEMMA AccountsStayUsable ==
  ASSUME PlaceInv, AccountsUsable, [Next]_vars
  PROVE  AccountsUsable'
<1> SUFFICES ASSUME ~faults', NEW p \in users'
             PROVE  AccountUsable(p)'
  BY DEF AccountsUsable
<1>0. ~faults /\ req \in [Browsers -> Requests]
  BY AccountsStay DEF PlaceInv, ReqOK
<1>1. CASE p \notin users
  <2>1. PICK b \in Browsers : InsertUser(b)
    BY <1>1 DEF Next, vars, Ask, Handle, Register, Login, SaveAddress, Logout, EnsureMeter,
                EmailTaken, InsertHome, Lookup, Verify, OwnsMeter, Geocode, UpdateHome, QueryFails
  <2>2. p = req[b].who
    BY <1>1, <2>1 DEF InsertUser
  <2>3. req'[b] = [req[b] EXCEPT !.step = "insertHome"]
    BY <1>0, <2>1 DEF InsertUser, GoOn
  <2>4. req'[b].step = "insertHome" /\ req'[b].who = p
    BY <1>0, <2>2, <2>3 DEF Requests
  <2>. QED
    BY <2>4 DEF AccountUsable, At
<1>2. CASE \E i \in Imeis : HasHome(p, i)
  BY <1>2, HomesStay DEF AccountUsable
<1>3. ASSUME NEW c \in Browsers, At(c, "insertHome"), req[c].who = p
      PROVE  AccountUsable(p)'
  <2>1. CASE InsertHome(c)
    <3>1. NewHome(c) \in homes' /\ NewHome(c).who = p /\ NewHome(c).imei = req[c].imei
      BY <1>3, <2>1 DEF InsertHome, NewHome
    <3>2. req[c].imei \in Imeis
      BY <1>3 DEF At, PlaceInv, ReqOK, Registering
    <3>. QED
      BY <3>1, <3>2 DEF AccountUsable, HasHome
  <2>2. CASE req'[c] = req[c]
    BY <1>3, <2>2 DEF AccountUsable, At
  <2>3. ASSUME NEW b \in Browsers, b # c, Ask(b) \/ Handle(b)
        PROVE  req'[c] = req[c]
    BY <1>0, <2>3 DEF Ask, Handle, Register, Login, SaveAddress, Logout, EnsureMeter, InsertUser,
           EmailTaken, InsertHome, Lookup, Verify, OwnsMeter, Geocode, UpdateHome, QueryFails,
           GoOn, Done, Reply
  <2>4. ASSUME Ask(c) \/ Handle(c)
        PROVE  InsertHome(c)
    BY <1>0, <1>3, <2>4 DEF Ask, Handle, Register, Login, SaveAddress, Logout, EnsureMeter,
           InsertUser, EmailTaken, Lookup, Verify, OwnsMeter, Geocode, UpdateHome, QueryFails, At
  <2>. QED
    BY <2>1, <2>2, <2>3, <2>4 DEF Next, vars
<1>. QED
  BY <1>0, <1>1, <1>2, <1>3 DEF AccountsUsable, AccountUsable

\* An answer changes only in the browser whose registration ended.
LEMMA WhoAnswers ==
  ASSUME PlaceInv, [Next]_vars, NEW b \in Browsers, answer'[b] # answer[b]
  PROVE  \/ EmailTaken(b) \/ InsertHome(b)
         \/ answer'[b] = [to |-> req[b].who, said |-> "error"]
<1>0. answer \in [Browsers -> [to : People \cup {None}, said : Answers]]
  BY DEF PlaceInv, TablesOK
<1>1. PICK c \in Browsers : Ask(c) \/ Handle(c)
  BY DEF Next, vars
<1>2. c = b
  BY <1>0, <1>1 DEF Ask, Handle, Register, Login, SaveAddress, Logout, EnsureMeter, InsertUser,
         EmailTaken, InsertHome, Lookup, Verify, OwnsMeter, Geocode, UpdateHome, QueryFails,
         GoOn, Done, Reply
<1>3. EmailTaken(b) \/ InsertHome(b) \/ QueryFails(b)
  BY <1>1, <1>2 DEF Ask, Handle, Register, Login, SaveAddress, Logout, EnsureMeter, InsertUser,
         Lookup, Verify, OwnsMeter, Geocode, UpdateHome, GoOn, Done
<1>4. QueryFails(b) => answer'[b] = [to |-> req[b].who, said |-> "error"]
  BY <1>0 DEF QueryFails, Reply, Done, GoOn
<1>. QED
  BY <1>3, <1>4

\* What a registration was told stays true.
LEMMA AnswersStayTrue ==
  ASSUME PlaceInv, TakenIsAccount, RegisteredOwns, [Next]_vars
  PROVE  TakenIsAccount' /\ RegisteredOwns'
<1>0. answer \in [Browsers -> [to : People \cup {None}, said : Answers]]
  BY DEF PlaceInv, TablesOK
<1>1. ASSUME NEW b \in Browsers, answer'[b].said = "taken"
      PROVE  answer'[b].to \in users'
  <2>1. CASE answer'[b] = answer[b]
    BY <1>1, <2>1, AccountsStay DEF TakenIsAccount
  <2>2. CASE EmailTaken(b)
    BY <1>0, <2>2 DEF EmailTaken, Reply
  <2>3. ~InsertHome(b)
    <3>1. InsertHome(b) => answer'[b].said = "registered"
      BY <1>0 DEF InsertHome, Reply
    <3>. QED
      BY <1>1, <3>1
  <2>4. answer'[b] # [to |-> req[b].who, said |-> "error"]
    BY <1>1
  <2>. QED
    BY <2>1, <2>2, <2>3, <2>4, WhoAnswers
<1>2. ASSUME NEW b \in Browsers, answer'[b].said = "registered"
      PROVE  \E i \in Imeis : HasHome(answer[b].to, i)'
  <2>1. CASE answer'[b] = answer[b]
    <3>1. PICK i \in Imeis : HasHome(answer[b].to, i)
      BY <1>2, <2>1 DEF RegisteredOwns
    <3>2. \E h \in homes' : h.who = answer[b].to /\ h.imei = i
      BY <3>1, HomesStay DEF HasHome
    <3>. QED
      BY <2>1, <3>2 DEF HasHome
  <2>2. CASE InsertHome(b)
    <3>1. answer'[b].to = req[b].who
      BY <1>0, <2>2 DEF InsertHome, Reply
    <3>2. NewHome(b) \in homes' /\ NewHome(b).who = req[b].who /\ NewHome(b).imei = req[b].imei
      BY <2>2 DEF InsertHome, NewHome
    <3>3. req[b].imei \in Imeis
      BY <2>2 DEF InsertHome, At, PlaceInv, ReqOK, Registering
    <3>. QED
      BY <3>1, <3>2, <3>3 DEF HasHome
  <2>3. ~EmailTaken(b)
    <3>1. EmailTaken(b) => answer'[b].said = "taken"
      BY <1>0 DEF EmailTaken, Reply
    <3>. QED
      BY <1>2, <3>1
  <2>4. answer'[b] # [to |-> req[b].who, said |-> "error"]
    BY <1>2
  <2>. QED
    BY <2>1, <2>2, <2>3, <2>4, WhoAnswers
<1>. QED
  BY <1>1, <1>2 DEF TakenIsAccount, RegisteredOwns

\* Who is told "registered" owns a meter for good, and, unless a query failed, who is told
\* "taken" has a usable account, however registrations interleave (register route).
THEOREM AnswersHold == Spec => []AnswersAreTrue
<1>1. AnswerInv /\ [Next]_vars => AnswerInv'
  BY StepKeepsPlaces, AccountsStayUsable, AnswersStayTrue DEF AnswerInv
<1>2. AnswerInv => AnswersAreTrue
  BY DEF AnswerInv, AnswersAreTrue, AccountsUsable, TakenIsAccount, TakenMeansUsable,
         AccountUsable
<1>. QED
  BY <1>1, <1>2, InitAnswerInv, PTL DEF Spec

-----------------------------------------------------------------------------
(* Signature                                                               *)

\* Fingerprints as they are sent, and what a cell of the record may hold.
Prints == {<<w, a, t>> : w \in Byte, a \in Byte, t \in Byte}
Cell == Byte \cup {CrcOf(p) : p \in Prints}

\* What is retained was sent; the crc of the record was never written or is the crc of a
\* fingerprint that was sent.
CloudInv ==
  /\ retained \subseteq Messages /\ sent \subseteq Prints
  /\ \A m \in retained : Meant(m) => Parsed(m) \in sent

\* The crc of the record is of a fingerprint that was sent, if it was ever written.
CrcInv ==
  /\ ee \in [1..6 -> Cell]
  /\ ee[6] = 255 \/ \E q \in sent : ee[6] = CrcOf(q)

\* A save writes the fingerprint in use, and the cells before "at" are written; between
\* saves the record is the one in use.
SaveInv ==
  /\ pc = "off" => ~valid
  /\ pc = "put" => \E p \in sent : /\ valid /\ params = Usable(p) /\ img = Image(p)
                                   /\ at \in 1..6 /\ \A i \in 1..(at - 1) : ee[i] = img[i]
  /\ RestartChangesNothing

SignatureInv == CloudInv /\ CrcInv /\ SaveInv

-----------------------------------------------------------------------------
\* The cells of an image, and the fingerprint they hold.
LEMMA ImageCells ==
  ASSUME NEW p \in Prints
  PROVE  /\ Image(p) \in [1..6 -> Cell]
         /\ Image(p)[1] = EEPROM_FP_MAGIC /\ Image(p)[2] = EEPROM_FP_VERSION
         /\ <<Image(p)[3], Image(p)[4], Image(p)[5]>> = p
         /\ Image(p)[6] = CrcOf(p)
<1>1. PICK w \in Byte, a \in Byte, t \in Byte : p = <<w, a, t>>
  BY DEF Prints
<1>2. CrcOf(p) \in Cell /\ Byte \subseteq Cell
  BY DEF Cell
<1>3. EEPROM_FP_MAGIC \in Byte /\ EEPROM_FP_VERSION \in Byte
  BY DEF EEPROM_FP_MAGIC, EEPROM_FP_VERSION, Byte
<1> DEFINE c == CrcOf(p)
<1>4. /\ <<EEPROM_FP_MAGIC, EEPROM_FP_VERSION>> \in Seq(Cell) /\ <<w, a, t>> \in Seq(Cell)
      /\ <<c>> \in Seq(Cell)
  BY <1>2, <1>3
<1> HIDE DEF c
<1>5. c \in Cell /\ c = CrcOf(p)
  BY <1>2 DEF c
<1>6. \A x, y, z \in Seq(Cell) : Len(x) = 2 /\ Len(y) = 3 /\ Len(z) = 1
        => /\ x \o y \o z \in [1..6 -> Cell]
           /\ (x \o y \o z)[1] = x[1] /\ (x \o y \o z)[2] = x[2]
           /\ (x \o y \o z)[3] = y[1] /\ (x \o y \o z)[4] = y[2]
           /\ (x \o y \o z)[5] = y[3] /\ (x \o y \o z)[6] = z[1]
  <2> SUFFICES ASSUME NEW x \in Seq(Cell), NEW y \in Seq(Cell), NEW z \in Seq(Cell),
                      Len(x) = 2, Len(y) = 3, Len(z) = 1
               PROVE  /\ x \o y \o z \in [1..6 -> Cell]
                      /\ (x \o y \o z)[1] = x[1] /\ (x \o y \o z)[2] = x[2]
                      /\ (x \o y \o z)[3] = y[1] /\ (x \o y \o z)[4] = y[2]
                      /\ (x \o y \o z)[5] = y[3] /\ (x \o y \o z)[6] = z[1]
    OBVIOUS
  <2> DEFINE xy == x \o y
             xyz == xy \o z
  <2>1. xy \in Seq(Cell) /\ Len(xy) = 5 /\ xy[1] = x[1] /\ xy[2] = x[2]
        /\ xy[3] = y[1] /\ xy[4] = y[2] /\ xy[5] = y[3]
    <3>1. xy \in Seq(Cell) /\ Len(xy) = Len(x) + Len(y)
          /\ \A i \in 1..(Len(x) + Len(y)) :
               xy[i] = IF i <= Len(x) THEN x[i] ELSE y[i - Len(x)]
      BY ConcatProperties
    <3> HIDE DEF xy
    <3>2. xy[1] = x[1] /\ xy[2] = x[2]
      BY <3>1
    <3>3. xy[3] = y[3 - 2] /\ xy[4] = y[4 - 2] /\ xy[5] = y[5 - 2]
      BY <3>1
    <3> QED BY <3>1, <3>2, <3>3
  <2> HIDE DEF xy
  <2>2. xyz \in Seq(Cell) /\ Len(xyz) = 6 /\ xyz[1] = xy[1] /\ xyz[2] = xy[2]
        /\ xyz[3] = xy[3] /\ xyz[4] = xy[4] /\ xyz[5] = xy[5] /\ xyz[6] = z[1]
    <3>1. xyz \in Seq(Cell) /\ Len(xyz) = Len(xy) + Len(z)
          /\ \A i \in 1..(Len(xy) + Len(z)) :
               xyz[i] = IF i <= Len(xy) THEN xy[i] ELSE z[i - Len(xy)]
      BY <2>1, ConcatProperties
    <3> HIDE DEF xyz
    <3>2. xyz[1] = xy[1] /\ xyz[2] = xy[2] /\ xyz[3] = xy[3] /\ xyz[4] = xy[4]
          /\ xyz[5] = xy[5]
      BY <3>1, <2>1
    <3>3. xyz[6] = z[6 - 5]
      BY <3>1, <2>1
    <3> QED BY <3>1, <3>2, <3>3, <2>1
  <2>3. xyz \in [1..6 -> Cell]
    <3> HIDE DEF xyz
    <3> QED BY <2>2, LenProperties
  <2> QED BY <2>1, <2>2, <2>3 DEF xy
<1>7. Image(p) = <<EEPROM_FP_MAGIC, EEPROM_FP_VERSION>> \o <<w, a, t>> \o <<c>>
  BY <1>1, <1>5 DEF Image
<1>8. /\ Image(p) \in [1..6 -> Cell]
      /\ Image(p)[1] = EEPROM_FP_MAGIC /\ Image(p)[2] = EEPROM_FP_VERSION
      /\ Image(p)[3] = w /\ Image(p)[4] = a /\ Image(p)[5] = t /\ Image(p)[6] = c
  <2> DEFINE x == <<EEPROM_FP_MAGIC, EEPROM_FP_VERSION>>
             y == <<w, a, t>>
             z == <<c>>
  <2>1. x \in Seq(Cell) /\ y \in Seq(Cell) /\ z \in Seq(Cell)
        /\ Len(x) = 2 /\ Len(y) = 3 /\ Len(z) = 1
    BY <1>4
  <2>2. x[1] = EEPROM_FP_MAGIC /\ x[2] = EEPROM_FP_VERSION /\ y[1] = w /\ y[2] = a
        /\ y[3] = t /\ z[1] = c
    OBVIOUS
  <2>3. Image(p) = x \o y \o z
    BY <1>7
  <2> HIDE DEF x, y, z
  <2>4. /\ x \o y \o z \in [1..6 -> Cell]
        /\ (x \o y \o z)[1] = x[1] /\ (x \o y \o z)[2] = x[2]
        /\ (x \o y \o z)[3] = y[1] /\ (x \o y \o z)[4] = y[2]
        /\ (x \o y \o z)[5] = y[3] /\ (x \o y \o z)[6] = z[1]
    BY <2>1, <1>6, Zenon
  <2> DEFINE xyz == x \o y \o z
  <2> HIDE DEF xyz
  <2> QED BY <2>2, <2>3, <2>4 DEF xyz
<1> QED BY <1>1, <1>5, <1>8

\* The fingerprint of a record is its third to fifth cell.
LEMMA StoredCells ==
  ASSUME NEW r \in [1..6 -> Cell]
  PROVE  SubSeq(r, 3, 5) = <<r[3], r[4], r[5]>>
<1>1. r \in Seq(Cell) /\ Len(r) = 6
  <2>1. r \in Seq(Cell)
    BY SeqDef
  <2>2. DOMAIN r = 1..6 /\ DOMAIN r = 1..Len(r) /\ Len(r) \in Nat
    BY <2>1, LenProperties
  <2> QED BY <2>1, <2>2
<1> DEFINE s == SubSeq(r, 3, 5)
<1>2. s \in Seq(Cell) /\ Len(s) = 3 /\ s[1] = r[3] /\ s[2] = r[4] /\ s[3] = r[5]
  BY <1>1
<1> HIDE DEF s
<1>3. s = <<s[1], s[2], s[3]>>
  BY <1>2
<1> QED BY <1>2, <1>3 DEF s

\* A message is parsed to a fingerprint.
LEMMA ParsedPrint == \A m \in Messages : Parsed(m) \in Prints
<1> SUFFICES ASSUME NEW m \in Messages PROVE Parsed(m) \in Prints
  OBVIOUS
<1>1. m.w \in Byte /\ m.a \in Byte /\ m.t \in Byte
  BY SignatureAssumption
<1>2. 0 \in Byte /\ SIG_T1_H \in Byte
  BY DEF Byte, SIG_T1_H
<1>3. \A w, a, t \in Byte : <<w, a, t>> \in Prints
  BY DEF Prints
<1> QED BY <1>1, <1>2, <1>3 DEF Parsed

\* The inductive invariant of the fingerprint and its record.
LEMMA SignatureInvHolds == SignatureSpec => []SignatureInv
<1>1. SignatureInit => SignatureInv
  <2> SUFFICES ASSUME SignatureInit PROVE SignatureInv
    OBVIOUS
  <2>1. ee = [i \in 1..6 |-> 255] /\ 255 \in Cell
    BY DEF SignatureInit, Cell, Byte
  <2>2. CrcInv
    BY <2>1 DEF CrcInv
  <2> QED BY <2>2 DEF SignatureInit, SignatureInv, CloudInv, SaveInv, RestartChangesNothing
<1>2. SignatureInv /\ [SignatureNext]_signatureVars => SignatureInv'
  <2> SUFFICES ASSUME SignatureInv, [SignatureNext]_signatureVars PROVE SignatureInv'
    OBVIOUS
  <2>1. ee' = ee /\ sent' = sent => CrcInv' /\ Stored' = Stored /\ Loadable' = Loadable
    BY DEF SignatureInv, CrcInv, Stored, Loadable
  <2>2. retained' = retained /\ sent' = sent => CloudInv'
    BY DEF SignatureInv, CloudInv
  <2>3. CASE Boot
    <3>1. CrcInv' /\ CloudInv' /\ Stored' = Stored /\ Loadable' = Loadable
      BY <2>1, <2>2, <2>3 DEF Boot, rom, cloud
    <3>2. pc' = "idle" /\ valid' = Loadable /\ (Loadable => params' = Usable(Stored))
      BY <2>3 DEF Boot
    <3>3. SaveInv'
      BY <3>1, <3>2 DEF SaveInv, RestartChangesNothing
    <3> QED BY <3>1, <3>3 DEF SignatureInv
  <2>4. CASE OnFingerprint
    <3>1. CrcInv' /\ CloudInv'
      BY <2>1, <2>2, <2>4 DEF OnFingerprint, cloud
    <3>2. PICK m \in retained : Meant(m) /\ Accept(Parsed(m))
      BY <2>4 DEF OnFingerprint
    <3>3. Parsed(m) \in sent'
      BY <3>2, <2>4 DEF OnFingerprint, cloud, SignatureInv, CloudInv
    <3>4. SaveInv'
      BY <3>2, <3>3 DEF Accept, SaveInv, RestartChangesNothing
    <3> QED BY <3>1, <3>4 DEF SignatureInv
  <2>5. CASE OnCommand
    <3>1. CrcInv' /\ CloudInv' /\ Stored' = Stored /\ Loadable' = Loadable
      BY <2>1, <2>2, <2>5 DEF OnCommand, rom, cloud
    <3>2. SaveInv'
      BY <3>1, <2>5 DEF OnCommand, SignatureInv, SaveInv, RestartChangesNothing, ram, rom,
                        cloud
    <3> QED BY <3>1, <3>2 DEF SignatureInv
  <2>6. CASE PutCell
    <3>1. pc = "put" /\ CloudInv' /\ sent' = sent /\ img' = img /\ valid' = valid
          /\ params' = params
      BY <2>2, <2>6 DEF PutCell, cloud, ram
    <3>2. PICK p \in sent : /\ valid /\ params = Usable(p) /\ img = Image(p)
                            /\ at \in 1..6 /\ \A i \in 1..(at - 1) : ee[i] = img[i]
      BY <3>1 DEF SignatureInv, SaveInv
    <3>3. p \in Prints /\ img \in [1..6 -> Cell] /\ img[6] = CrcOf(p)
      BY <3>2, ImageCells DEF SignatureInv, CloudInv
    <3>4. ee \in [1..6 -> Cell] /\ ee' = [ee EXCEPT ![at] = img[at]]
      BY <2>6 DEF PutCell, SignatureInv, CrcInv
    <3>5. ee' \in [1..6 -> Cell] /\ \A i \in 1..at : ee'[i] = img[i]
      BY <3>2, <3>3, <3>4
    <3>6. ee'[6] = ee[6] \/ ee'[6] = CrcOf(p)
      BY <3>2, <3>3, <3>4
    <3>7. CrcInv'
      BY <3>1, <3>2, <3>5, <3>6 DEF SignatureInv, CrcInv
    <3>8. CASE at = 6
      <4>1. pc' = "idle" /\ \A i \in 1..6 : ee'[i] = Image(p)[i]
        BY <2>6, <3>2, <3>5, <3>8 DEF PutCell
      <4>2. Stored' = p
        BY <4>1, <3>3, <3>5, ImageCells, StoredCells DEF Stored
      <4>3. Loadable'
        BY <4>1, <4>2, <3>3, ImageCells DEF Loadable
      <4>4. SaveInv'
        BY <4>1, <4>2, <4>3, <3>1, <3>2 DEF SaveInv, RestartChangesNothing
      <4> QED BY <3>1, <3>7, <4>4 DEF SignatureInv
    <3>9. CASE at # 6
      <4>1. pc' = "put" /\ at' = at + 1 /\ at' \in 1..6
        BY <2>6, <3>1, <3>2, <3>9 DEF PutCell
      <4>2. \A i \in 1..(at' - 1) : ee'[i] = img'[i]
        BY <4>1, <3>1, <3>2, <3>5
      <4>3. SaveInv'
        BY <4>1, <4>2, <3>1, <3>2 DEF SaveInv, RestartChangesNothing
      <4> QED BY <3>1, <3>7, <4>3 DEF SignatureInv
    <3> QED BY <3>8, <3>9
  <2>7. CASE Evaluate
    <3>1. CrcInv' /\ CloudInv' /\ Stored' = Stored /\ Loadable' = Loadable
      BY <2>1, <2>2, <2>7 DEF Evaluate, rom, cloud
    <3>2. SaveInv'
      BY <3>1, <2>7 DEF Evaluate, SignatureInv, SaveInv, RestartChangesNothing, rom, cloud
    <3> QED BY <3>1, <3>2 DEF SignatureInv
  <2>8. CASE CloudSends
    <3>1. PICK m \in Messages : /\ retained' = {m}
                                /\ sent' = IF Meant(m) THEN sent \cup {Parsed(m)} ELSE sent
      BY <2>8 DEF CloudSends
    <3>2. CloudInv' /\ sent \subseteq sent'
      BY <3>1, ParsedPrint DEF SignatureInv, CloudInv
    <3>3. UNCHANGED <<pc, valid, params, ee, img, at>>
      BY <2>8 DEF CloudSends, ram, rom
    <3>4. CrcInv'
      BY <3>2, <3>3 DEF SignatureInv, CrcInv
    <3>5. SaveInv'
      BY <3>2, <3>3 DEF SignatureInv, SaveInv, RestartChangesNothing, Loadable, Stored
    <3> QED BY <3>2, <3>4, <3>5 DEF SignatureInv
  <2>9. CASE Crash
    <3>1. CrcInv' /\ CloudInv'
      BY <2>1, <2>2, <2>9 DEF Crash, cloud
    <3>2. SaveInv'
      BY <2>9 DEF Crash, SaveInv, RestartChangesNothing
    <3> QED BY <3>1, <3>2 DEF SignatureInv
  <2>10. CASE UNCHANGED signatureVars
    <3>1. CrcInv' /\ CloudInv' /\ Stored' = Stored /\ Loadable' = Loadable
      BY <2>1, <2>2, <2>10 DEF signatureVars, rom, cloud
    <3>2. SaveInv'
      BY <3>1, <2>10 DEF signatureVars, SignatureInv, SaveInv, RestartChangesNothing, ram,
                         rom, cloud
    <3> QED BY <3>1, <3>2 DEF SignatureInv
  <2> QED BY <2>3, <2>4, <2>5, <2>6, <2>7, <2>8, <2>9, <2>10 DEF SignatureNext
<1> QED BY <1>1, <1>2, PTL DEF SignatureSpec

\* Between saves, the record holds what is in use and would be loaded again: for all
\* messages, and whenever power goes.
THEOREM RestartsKeepThePrint == SignatureSpec => []RestartChangesNothing
<1>1. SignatureInv => RestartChangesNothing
  BY DEF SignatureInv, SaveInv
<1> QED BY <1>1, SignatureInvHolds, PTL

\* Every verdict is that of a fingerprint which was sent, or the crc cannot tell what a
\* power loss left of two from one.
THEOREM VerdictsAreMeant == SignatureSpec => VerdictIsOfASentPrint
<1>1. ASSUME SignatureInv, Evaluate, leakFlag' \/ overFlag'
      PROVE  \/ \E p \in sent :
                  Classify(Usable(p), seen'.flow, seen'.hour) = IF leakFlag' THEN "NightLeak"
                                                                            ELSE "Overuse"
             \/ Stored \notin sent /\ Collides(Stored)
  <2>1. PICK flow \in Flows, hour \in Hours :
          /\ seen' = [flow |-> flow, hour |-> hour]
          /\ leakFlag' = (Classify(params, flow, hour) = "NightLeak")
          /\ overFlag' = (Classify(params, flow, hour) = "Overuse")
    BY <1>1 DEF Evaluate
  <2>2. pc = "idle" /\ valid
    BY <1>1 DEF Evaluate
  <2>3. Loadable /\ Usable(Stored) = params
    BY <1>1, <2>2 DEF SignatureInv, SaveInv, RestartChangesNothing
  <2>4. Classify(Usable(Stored), seen'.flow, seen'.hour) = IF leakFlag' THEN "NightLeak"
                                                                        ELSE "Overuse"
    BY <1>1, <2>1, <2>3
  <2>5. Collides(Stored)
    BY <1>1, <2>3 DEF Collides, Loadable, SignatureInv, CrcInv
  <2> QED BY <2>4, <2>5
<1>2. SignatureInv /\ [SignatureNext]_signatureVars
        => [(leakFlag' \/ overFlag')
              /\ <<leakFlag, overFlag, seen>>' # <<leakFlag, overFlag, seen>>
            => \/ \E p \in sent :
                    Classify(Usable(p), seen'.flow, seen'.hour) = IF leakFlag' THEN "NightLeak"
                                                                              ELSE "Overuse"
               \/ Stored \notin sent /\ Collides(Stored)]_signatureVars
  <2>1. SignatureNext /\ (leakFlag' \/ overFlag')
          /\ <<leakFlag, overFlag, seen>>' # <<leakFlag, overFlag, seen>> => Evaluate
    BY DEF SignatureNext, Boot, OnFingerprint, OnCommand, PutCell, CloudSends, Crash, ram
  <2> QED BY <1>1, <2>1
<1> QED BY <1>2, SignatureInvHolds, PTL DEF SignatureSpec, VerdictIsOfASentPrint

-----------------------------------------------------------------------------
(* Billing.  First, sums over finite sets.                                  *)

\* An element of a set, as a fold over it picks one.
Some(s) == CHOOSE x \in s : TRUE

\* What is added for a set, if g is the sum of the smaller ones.
Summed(f, g, s) == IF s = {} THEN 0 ELSE f[Some(s)] + g[s \ {Some(s)}]

\* The sums of all subsets of S.
Iter(f, S) == CHOOSE g : g = [s \in SUBSET S |-> Summed(f, g, s)]

\* A sum over a set is what a fold computes, the way Summed says.
LEMMA SumDef ==
  ASSUME NEW f, NEW S
  PROVE  SumFunctionOnSet(f, S) = Iter(f, S)[S]
  BY DEF SumFunctionOnSet, FoldFunctionOnSet, MapThenFoldSet, Iter, Summed, Some

\* Of the sets of a family some one has no smaller one in it.
LEMMA Smallest ==
  ASSUME NEW S, IsFiniteSet(S), NEW Bad, Bad \subseteq SUBSET S, Bad # {}
  PROVE  \E b \in Bad : \A s \in Bad : s \subseteq b => s = b
<1> DEFINE R == StrictSubsetOrdering(S)
<1>0. Bad \subseteq FiniteSubsetsOf(S)
  BY FS_Subset DEF FiniteSubsetsOf
<1>1. IsWellFoundedOn(R, FiniteSubsetsOf(S))
  BY FS_StrictSubsetOrderingWellFounded
<1>. HIDE DEF R
<1>2. PICK b \in Bad : \A s \in Bad : ~(<<s, b>> \in R)
  BY <1>0, <1>1, WFMin
<1>. QED
  BY <1>2 DEF R, StrictSubsetOrdering

\* So has any set of numbers.
LEMMA LeastNumber ==
  ASSUME NEW T, T \subseteq Nat, T # {}
  PROVE  \E x \in T : \A y \in T : x <= y
<1>1. PICK x \in T : \A y \in T : ~(<<y, x>> \in OpToRel(<, Nat))
  BY WFMin, NatLessThanWellFounded
<1>2. \A y \in T : ~(y < x)
  BY <1>1 DEF OpToRel
<1>. QED
  BY <1>2

\* h has the sums of the subsets of S with up to n elements.
SumsOf(f, h, S, n) == \A s \in SUBSET S : Cardinality(s) <= n => h[s] = Summed(f, h, s)

\* Taking an element away.
LEMMA TakeAway ==
  ASSUME NEW S, IsFiniteSet(S), NEW s \in SUBSET S, s # {}
  PROVE  /\ Some(s) \in s /\ s \ {Some(s)} \in SUBSET S
         /\ Cardinality(s) \in Nat /\ Cardinality(s \ {Some(s)}) = Cardinality(s) - 1
<1>1. Some(s) \in s
  BY DEF Some
<1>2. IsFiniteSet(s)
  BY FS_Subset
<1>. QED
  BY <1>1, <1>2, FS_RemoveElement, FS_CardinalityType

\* The sums of the sets of n + 1 elements, from those of the smaller ones.
LEMMA MoreSums ==
  ASSUME NEW S, IsFiniteSet(S), NEW f, NEW h, NEW n \in Nat, SumsOf(f, h, S, n)
  PROVE  \E g : SumsOf(f, g, S, n + 1)
<1> DEFINE g == [s \in SUBSET S |-> IF Cardinality(s) <= n THEN h[s] ELSE Summed(f, h, s)]
<1>1. ASSUME NEW s \in SUBSET S, Cardinality(s) <= n + 1
      PROVE  g[s] = Summed(f, g, s)
  <2>1. CASE s = {}
    <3>1. Cardinality(s) <= n
      BY <2>1, FS_EmptySet
    <3>. QED
      BY <2>1, <3>1 DEF SumsOf, Summed
  <2>2. CASE s # {}
    <3> DEFINE r == s \ {Some(s)}
    <3>1. r \in SUBSET S /\ Cardinality(r) <= n /\ Cardinality(s) \in Nat
      BY <1>1, <2>2, TakeAway
    <3>2. g[r] = h[r]
      BY <3>1
    <3>3. Summed(f, g, s) = Summed(f, h, s)
      BY <3>2 DEF Summed
    <3>4. Cardinality(s) <= n => h[s] = Summed(f, h, s)
      BY DEF SumsOf
    <3>. QED
      BY <3>3, <3>4
  <2>. QED
    BY <2>1, <2>2
<1>. HIDE DEF g
<1>2. SumsOf(f, g, S, n + 1)
  BY <1>1 DEF SumsOf
<1>. QED
  BY <1>2

\* There are sums of every size,
LEMMA SumsOfSize ==
  ASSUME NEW S, IsFiniteSet(S), NEW f, NEW m \in Nat
  PROVE  \E h : SumsOf(f, h, S, m)
<1> DEFINE Bad == {n \in Nat : ~\E h : SumsOf(f, h, S, n)}
<1>1. SUFFICES ASSUME Bad # {} PROVE FALSE
  OBVIOUS
<1>2. PICK n \in Bad : \A k \in Bad : n <= k
  <2>1. Bad \subseteq Nat
    OBVIOUS
  <2>. HIDE DEF Bad
  <2>. QED
    BY <1>1, <2>1, LeastNumber
<1>3. n # 0
  <2>1. ASSUME NEW s \in SUBSET S, Cardinality(s) <= 0
        PROVE  s = {}
    <3>1. IsFiniteSet(s) /\ Cardinality(s) \in Nat
      BY FS_Subset, FS_CardinalityType
    <3>. QED
      BY <2>1, <3>1, FS_EmptySet
  <2>2. SumsOf(f, [s \in SUBSET S |-> 0], S, 0)
    BY <2>1 DEF SumsOf, Summed
  <2>3. ~(0 \in Bad)
    BY <2>2
  <2>. QED
    BY <2>3
<1>4. n - 1 \in Nat /\ ~(n - 1 \in Bad)
  BY <1>2, <1>3
<1>5. PICK h : SumsOf(f, h, S, n - 1)
  BY <1>4
<1>6. \E g : SumsOf(f, g, S, (n - 1) + 1)
  BY <1>4, <1>5, MoreSums
<1>7. (n - 1) + 1 = n
  BY <1>4
<1>. QED
  BY <1>2, <1>6, <1>7

\* and so the fold is what its definition says.
LEMMA IterIs ==
  ASSUME NEW S, IsFiniteSet(S), NEW f
  PROVE  /\ Iter(f, S)[{}] = 0
         /\ \A s \in SUBSET S : s # {} =>
              Iter(f, S)[s] = f[Some(s)] + Iter(f, S)[s \ {Some(s)}]
<1>1. PICK h : SumsOf(f, h, S, Cardinality(S))
  BY SumsOfSize, FS_CardinalityType
<1> DEFINE g == [s \in SUBSET S |-> h[s]]
<1>2. ASSUME NEW s \in SUBSET S
      PROVE  g[s] = Summed(f, g, s)
  <2>1. h[s] = Summed(f, h, s)
    BY <1>1, FS_Subset DEF SumsOf
  <2>2. s \ {Some(s)} \in SUBSET S
    OBVIOUS
  <2>3. g[s \ {Some(s)}] = h[s \ {Some(s)}]
    BY <2>2
  <2>. QED
    BY <2>1, <2>3 DEF Summed
<1>3. g = [s \in SUBSET S |-> Summed(f, g, s)]
  <2>1. DOMAIN g = SUBSET S /\ g = [s \in SUBSET S |-> g[s]]
    OBVIOUS
  <2>. HIDE DEF g
  <2>. QED
    BY <1>2, <2>1
<1>. HIDE DEF g
<1>4. Iter(f, S) = [s \in SUBSET S |-> Summed(f, Iter(f, S), s)]
  BY <1>3 DEF Iter
<1>5. \A s \in SUBSET S : Iter(f, S)[s] = Summed(f, Iter(f, S), s)
  BY <1>4
<1>. QED
  BY <1>5 DEF Summed

\* The sum of a set does not depend on the larger set it is a part of.
LEMMA IterAgrees ==
  ASSUME NEW S, IsFiniteSet(S), NEW T \in SUBSET S, NEW f
  PROVE  Iter(f, S)[T] = Iter(f, T)[T]
<1> DEFINE Bad == {s \in SUBSET T : Iter(f, S)[s] # Iter(f, T)[s]}
<1>1. SUFFICES ASSUME Bad # {} PROVE FALSE
  OBVIOUS
<1>2. IsFiniteSet(T)
  BY FS_Subset
<1>3. PICK b \in Bad : \A s \in Bad : s \subseteq b => s = b
  <2>1. Bad \subseteq SUBSET T
    OBVIOUS
  <2>. HIDE DEF Bad
  <2>. QED
    BY <1>1, <1>2, <2>1, Smallest
<1>4. b # {}
  BY <1>2, <1>3, IterIs
<1>5. Some(b) \in b
  BY <1>4 DEF Some
<1>6. Iter(f, S)[b \ {Some(b)}] = Iter(f, T)[b \ {Some(b)}]
  BY <1>3, <1>5
<1>. QED
  BY <1>2, <1>3, <1>4, <1>6, IterIs

\* It is a number, and any element may be added last.
LEMMA AnyLast ==
  ASSUME NEW S, IsFiniteSet(S), NEW f, \A x \in S : f[x] \in Int
  PROVE  \A s \in SUBSET S : /\ Iter(f, S)[s] \in Int
                             /\ \A x \in s : Iter(f, S)[s] = f[x] + Iter(f, S)[s \ {x}]
<1> DEFINE g == Iter(f, S)
           Good(s) == g[s] \in Int /\ \A x \in s : g[s] = f[x] + g[s \ {x}]
           Bad == {s \in SUBSET S : ~Good(s)}
<1>1. SUFFICES ASSUME Bad # {} PROVE FALSE
  OBVIOUS
<1>2. PICK b \in Bad : \A s \in Bad : s \subseteq b => s = b
  <2>1. Bad \subseteq SUBSET S
    OBVIOUS
  <2>. HIDE DEF Bad
  <2>. QED
    BY <1>1, <2>1, Smallest
<1>3. \A s \in SUBSET b : s # b => Good(s)
  BY <1>2
<1>4. /\ g[{}] = 0
      /\ \A s \in SUBSET S : s # {} => g[s] = f[Some(s)] + g[s \ {Some(s)}]
  BY IterIs
<1>. HIDE DEF g
<1>5. b # {}
  <2>1. g[{}] \in Int /\ Good({})
    BY <1>4
  <2>. QED
    BY <1>2, <2>1
<1> DEFINE c == Some(b)
<1>6. c \in b /\ c \in S
  BY <1>2, <1>5 DEF Some
<1>7. g[b] = f[c] + g[b \ {c}]
  BY <1>2, <1>4, <1>5
<1>. HIDE DEF c
<1>8. g[b] \in Int
  BY <1>3, <1>6, <1>7
<1>9. ASSUME NEW x \in b
      PROVE  g[b] = f[x] + g[b \ {x}]
  <2>1. CASE x = c
    BY <1>7, <2>1
  <2>2. CASE x # c
    <3> DEFINE r == (b \ {c}) \ {x}
    <3>1. g[b \ {c}] = f[x] + g[r]
      BY <1>3, <1>6, <2>2
    <3>2. g[b \ {x}] = f[c] + g[(b \ {x}) \ {c}]
      BY <1>3, <1>6, <2>2
    <3>3. (b \ {x}) \ {c} = r
      OBVIOUS
    <3>4. g[r] \in Int
      BY <1>3, <1>6
    <3>5. f[x] \in Int /\ f[c] \in Int
      BY <1>2, <1>6
    <3>. HIDE DEF r
    <3>6. g[b] = f[c] + (f[x] + g[r]) /\ g[b \ {x}] = f[c] + g[r]
      BY <1>7, <3>1, <3>2, <3>3
    <3>. QED
      BY <3>4, <3>5, <3>6
  <2>. QED
    BY <2>1, <2>2
<1>. QED
  BY <1>2, <1>8, <1>9

\* A sum over a set: it is none over the empty set, and any element may be added last.
LEMMA SumIs ==
  ASSUME NEW S, IsFiniteSet(S), NEW f, \A x \in S : f[x] \in Int
  PROVE  /\ SumFunctionOnSet(f, {}) = 0
         /\ SumFunctionOnSet(f, S) \in Int
         /\ \A x \in S : SumFunctionOnSet(f, S) = f[x] + SumFunctionOnSet(f, S \ {x})
<1>1. SumFunctionOnSet(f, {}) = 0
  BY SumDef, IterIs, FS_EmptySet
<1>2. SumFunctionOnSet(f, S) \in Int
  BY SumDef, AnyLast
<1>3. ASSUME NEW x \in S
      PROVE  SumFunctionOnSet(f, S) = f[x] + SumFunctionOnSet(f, S \ {x})
  <2>1. Iter(f, S)[S] = f[x] + Iter(f, S)[S \ {x}]
    BY AnyLast
  <2>2. Iter(f, S)[S \ {x}] = Iter(f, S \ {x})[S \ {x}]
    BY IterAgrees
  <2>. QED
    BY <2>1, <2>2, SumDef
<1>. QED
  BY <1>1, <1>2, <1>3

\* Larger numbers have a larger sum.
LEMMA SumGrows ==
  ASSUME NEW S, IsFiniteSet(S), NEW f, NEW g,
         \A x \in S : f[x] \in Int /\ g[x] \in Int /\ f[x] <= g[x]
  PROVE  SumFunctionOnSet(f, S) <= SumFunctionOnSet(g, S)
<1> DEFINE F(s) == SumFunctionOnSet(f, s)
           G(s) == SumFunctionOnSet(g, s)
           Bad == {s \in SUBSET S : ~(F(s) <= G(s))}
<1>1. SUFFICES ASSUME Bad # {} PROVE FALSE
  OBVIOUS
<1>2. PICK b \in Bad : \A s \in Bad : s \subseteq b => s = b
  <2>1. Bad \subseteq SUBSET S
    OBVIOUS
  <2>. HIDE DEF Bad
  <2>. QED
    BY <1>1, <2>1, Smallest
<1>3. \A s \in SUBSET S : IsFiniteSet(s)
  BY FS_Subset
<1>4. ASSUME NEW s \in SUBSET S
      PROVE  /\ F(s) \in Int /\ \A x \in s : F(s) = f[x] + F(s \ {x})
             /\ G(s) \in Int /\ \A x \in s : G(s) = g[x] + G(s \ {x})
             /\ F({}) = 0 /\ G({}) = 0
  BY <1>3, SumIs
<1>. HIDE DEF F, G
<1>5. b # {}
  <2>1. F({}) <= G({})
    BY <1>4
  <2>. QED
    BY <1>2, <2>1
<1>6. PICK x \in b : TRUE
  BY <1>5
<1>7. F(b \ {x}) <= G(b \ {x})
  BY <1>2, <1>6
<1>8. /\ F(b) = f[x] + F(b \ {x}) /\ G(b) = g[x] + G(b \ {x})
      /\ F(b \ {x}) \in Int /\ G(b \ {x}) \in Int
  BY <1>2, <1>4, <1>6
<1>9. f[x] \in Int /\ g[x] \in Int /\ f[x] <= g[x]
  BY <1>2, <1>6
<1>10. F(b) <= G(b)
  BY <1>7, <1>8, <1>9
<1>. QED
  BY <1>2, <1>10

\* What a division leaves.
LEMMA Divides ==
  ASSUME NEW t \in Nat, NEW d \in Nat, d > 0
  PROVE  t \div d \in Nat /\ t % d \in 0..(d - 1) /\ t = d * (t \div d) + (t % d)
<1>1. t \div d \in Int /\ t % d \in 0..(d - 1) /\ t = d * (t \div d) + (t % d)
  BY Z3
<1> DEFINE q == t \div d
<1>2. ASSUME q < 0 PROVE FALSE
  <2>1. q \in Int /\ q <= 0 - 1
    BY <1>1, <1>2
  <2>. HIDE DEF q
  <2>2. d * q <= d * (0 - 1)
    BY <2>1
  <2>3. d * (0 - 1) = 0 - d
    OBVIOUS
  <2>4. d * q \in Int
    BY <2>1
  <2>5. t < 0
    BY <1>1, <2>2, <2>3, <2>4 DEF q
  <2>. QED
    BY <2>5
<1>. QED
  BY <1>1, <1>2

\* Quotients compare as what they leave over says.
LEMMA QuotientLess ==
  ASSUME NEW d \in Nat, d > 0, NEW a \in Int, NEW b \in Int, NEW r \in 0..(d - 1),
         NEW s \in Int, s < d, d * a + r <= d * b + s
  PROVE  a <= b
<1>1. SUFFICES ASSUME a >= b + 1 PROVE FALSE
  OBVIOUS
<1>2. d * a >= d * (b + 1)
  BY <1>1
<1>3. d * (b + 1) = d * b + d
  OBVIOUS
<1>4. d * a \in Int /\ d * b \in Int
  OBVIOUS
<1>. QED
  BY <1>2, <1>3, <1>4

\* The volume of n pulses.
L(n) == TrueMilliLitres(n)

\* Volumes grow with the pulses, and rounding loses less than a millilitre in a sum.
LEMMA Litres ==
  ASSUME NEW a \in Nat, NEW b \in Nat
  PROVE  /\ L(a) \in Nat /\ L(0) = 0
         /\ a <= b => L(a) <= L(b)
         /\ L(a) + L(b) <= L(a + b) /\ L(a + b) <= (L(a) + L(b)) + 1
<1> DEFINE d == PulsesPerLiter
           A == a * 1000
           B == b * 1000
           C == (a + b) * 1000
<1>1. d \in Nat /\ d > 0
  BY BillingAssumption
<1>2. A \in Nat /\ B \in Nat /\ C \in Nat /\ C = A + B /\ 0 * 1000 = 0
  OBVIOUS
<1>3. /\ A \div d \in Nat /\ A % d \in 0..(d - 1) /\ A = d * (A \div d) + (A % d)
      /\ B \div d \in Nat /\ B % d \in 0..(d - 1) /\ B = d * (B \div d) + (B % d)
      /\ C \div d \in Nat /\ C % d \in 0..(d - 1) /\ C = d * (C \div d) + (C % d)
      /\ 0 \div d \in Nat /\ 0 % d \in 0..(d - 1) /\ 0 = d * (0 \div d) + (0 % d)
  BY <1>1, <1>2, Divides
<1>4. L(a) = A \div d /\ L(b) = B \div d /\ L(a + b) = C \div d /\ L(0) = 0 \div d
  BY <1>2 DEF L, TrueMilliLitres
<1> DEFINE p == A \div d
           q == B \div d
           u == C \div d
           z == 0 \div d
           e == A % d
           f == B % d
           g == C % d
           y == 0 % d
<1>5. a <= b => A <= B
  OBVIOUS
<1>. HIDE DEF d, A, B, C, p, q, u, z, e, f, g, y
<1>6. /\ p \in Nat /\ q \in Nat /\ u \in Nat /\ z \in Nat
      /\ e \in 0..(d - 1) /\ f \in 0..(d - 1) /\ g \in 0..(d - 1) /\ y \in 0..(d - 1)
      /\ A = d * p + e /\ B = d * q + f /\ C = d * u + g /\ 0 = d * z + y
  BY <1>3 DEF p, q, u, z, e, f, g, y
<1>7. a <= b => p <= q
  BY <1>1, <1>5, <1>6, QuotientLess
<1>8. z = 0
  <2>1. d * 0 = 0
    BY <1>1
  <2>2. d * z + y <= d * 0 + 0 /\ 0 < d
    BY <1>1, <1>6, <2>1
  <2>3. z <= 0
    BY <1>1, <1>6, <2>2, QuotientLess
  <2>. QED
    BY <1>6, <2>3
<1>9. d * (p + q) = d * p + d * q /\ d * ((p + q) + 1) = d * p + d * q + d
  BY <1>1, <1>6
<1>10. d * p \in Int /\ d * q \in Int /\ d * u \in Int
  BY <1>1, <1>6
<1>11. p + q <= u
  <2>1. d * (p + q) + 0 <= d * u + g
    BY <1>2, <1>6, <1>9, <1>10
  <2>. QED
    BY <1>1, <1>6, <2>1, QuotientLess
<1>12. u <= (p + q) + 1
  <2>1. d * u + g <= d * ((p + q) + 1) + ((e + f) - d)
    BY <1>1, <1>2, <1>6, <1>9, <1>10
  <2>2. (e + f) - d \in Int /\ (e + f) - d < d
    BY <1>1, <1>6
  <2>. QED
    BY <1>1, <1>6, <2>1, <2>2, QuotientLess
<1>. QED
  BY <1>4, <1>6, <1>7, <1>8, <1>11, <1>12 DEF p, q, u, z

\* Sums of what is not negative, and of what is the same.
LEMMA SumNat ==
  ASSUME NEW S, IsFiniteSet(S), NEW f, \A x \in S : f[x] \in Nat
  PROVE  SumFunctionOnSet(f, S) \in Nat
<1> DEFINE F(s) == SumFunctionOnSet(f, s)
           Bad == {s \in SUBSET S : F(s) \notin Nat}
<1>1. SUFFICES ASSUME Bad # {} PROVE FALSE
  OBVIOUS
<1>2. PICK b \in Bad : \A s \in Bad : s \subseteq b => s = b
  <2>1. Bad \subseteq SUBSET S
    OBVIOUS
  <2>. HIDE DEF Bad
  <2>. QED
    BY <1>1, <2>1, Smallest
<1>3. \A x \in S : f[x] \in Int
  OBVIOUS
<1>4. ASSUME NEW s \in SUBSET S
      PROVE  F({}) = 0 /\ \A x \in s : F(s) = f[x] + F(s \ {x})
  BY <1>3, SumIs, FS_Subset
<1>. HIDE DEF F
<1>5. b # {}
  <2>1. F({}) \in Nat
    BY <1>4
  <2>. QED
    BY <1>2, <2>1
<1>6. PICK x \in b : TRUE
  BY <1>5
<1>7. F(b \ {x}) \in Nat /\ f[x] \in Nat /\ F(b) = f[x] + F(b \ {x})
  BY <1>2, <1>4, <1>6
<1>. QED
  BY <1>2, <1>7

\* Functions that agree on a set have the same sum over it.
LEMMA SumSame ==
  ASSUME NEW S, IsFiniteSet(S), NEW f, NEW g, \A x \in S : f[x] \in Int /\ f[x] = g[x]
  PROVE  SumFunctionOnSet(f, S) = SumFunctionOnSet(g, S)
<1>1. SumFunctionOnSet(f, S) <= SumFunctionOnSet(g, S)
  BY SumGrows
<1>2. SumFunctionOnSet(g, S) <= SumFunctionOnSet(f, S)
  BY SumGrows
<1>3. SumFunctionOnSet(f, S) \in Int /\ SumFunctionOnSet(g, S) \in Int
  BY SumIs
<1>. QED
  BY <1>1, <1>2, <1>3

\* Rows of any size, and the sum of their samples.
RowSet == [id : Nat, bucket : Nat, was : Nat, tl : Nat, mls : Nat]
SumOfRows(rows) == SumFunction([r \in rows |-> r.mls])

\* The sum of the samples of a set of rows, and of one more row.
LEMMA RowSums ==
  ASSUME NEW rows, IsFiniteSet(rows), rows \subseteq RowSet
  PROVE  /\ SumOfRows(rows) \in Nat /\ SumOfRows({}) = 0
         /\ \A r \in RowSet : SumOfRows(rows \cup {r}) <= SumOfRows(rows) + r.mls
<1>1. ASSUME NEW s, IsFiniteSet(s), s \subseteq RowSet
      PROVE  SumOfRows(s) \in Nat /\ SumOfRows(s) = SumFunctionOnSet([r \in s |-> r.mls], s)
  <2>1. SumOfRows(s) = SumFunctionOnSet([r \in s |-> r.mls], s)
    BY DEF SumOfRows, SumFunction
  <2>2. \A x \in s : [r \in s |-> r.mls][x] \in Nat
    BY <1>1 DEF RowSet
  <2>. QED
    BY <1>1, <2>1, <2>2, SumNat
<1>2. SumOfRows({}) = 0
  <2>1. SumOfRows({}) = SumFunctionOnSet([r \in {} |-> r.mls], {})
    BY DEF SumOfRows, SumFunction
  <2>. QED
    BY <2>1, SumIs, FS_EmptySet
<1>3. ASSUME NEW r \in RowSet
      PROVE  SumOfRows(rows \cup {r}) <= SumOfRows(rows) + r.mls
  <2>1. CASE r \in rows
    <3>1. rows \cup {r} = rows
      BY <2>1
    <3>2. r.mls \in Nat
      BY DEF RowSet
    <3>3. SumOfRows(rows) \in Nat
      BY <1>1
    <3>4. SumOfRows(rows \cup {r}) = SumOfRows(rows)
      BY <3>1
    <3>. QED
      BY <3>2, <3>3, <3>4
  <2>2. CASE r \notin rows
    <3> DEFINE all == rows \cup {r}
               f == [x \in all |-> x.mls]
               g == [x \in rows |-> x.mls]
    <3>1. IsFiniteSet(all) /\ all \subseteq RowSet
      BY FS_AddElement
    <3>2. \A x \in all : f[x] \in Int
      BY <3>1 DEF RowSet
    <3>3. SumFunctionOnSet(f, all) = f[r] + SumFunctionOnSet(f, all \ {r})
      BY <3>1, <3>2, SumIs
    <3>4. all \ {r} = rows /\ f[r] = r.mls
      BY <2>2
    <3>5. \A x \in rows : g[x] \in Int /\ g[x] = f[x]
      BY DEF RowSet
    <3>6. SumFunctionOnSet(g, rows) = SumFunctionOnSet(f, rows)
      <4>. HIDE DEF f, g
      <4>. QED
        BY <3>5, SumSame
    <3>7. SumOfRows(all) = SumFunctionOnSet(f, all) /\ SumOfRows(rows) = SumFunctionOnSet(g, rows)
      BY <1>1, <3>1
    <3>8. SumOfRows(rows) \in Nat /\ r.mls \in Nat
      BY <1>1 DEF RowSet
    <3>. HIDE DEF f, g, all
    <3>9. SumOfRows(all) = r.mls + SumOfRows(rows)
      BY <3>3, <3>4, <3>6, <3>7
    <3>10. SumOfRows(all) <= SumOfRows(rows) + r.mls
      BY <3>8, <3>9
    <3>. QED
      BY <3>10 DEF all
  <2>. QED
    BY <2>1, <2>2
<1>. QED
  BY <1>1, <1>2, <1>3

\* The largest and the smallest total of some rows are those of two of them.
LEMMA SpreadIs ==
  ASSUME NEW rows, IsFiniteSet(rows), rows \subseteq RowSet, rows # {}
  PROVE  \E r, s \in rows : /\ Spread(rows) = r.tl - s.tl
                            /\ \A p \in rows : s.tl <= p.tl /\ p.tl <= r.tl
<1> DEFINE T == {r.tl : r \in rows}
<1>1. T \subseteq Nat /\ T # {}
  BY DEF RowSet
<1>2. \E y \in T : \A x \in T : y <= x
  <2>. HIDE DEF T
  <2>. QED
    BY <1>1, LeastNumber
<1>3. \E y \in T : \A x \in T : y >= x
  <2> DEFINE Bad == {s \in SUBSET rows : s # {} /\ ~\E r \in s : \A x \in s : r.tl >= x.tl}
  <2>1. SUFFICES ASSUME Bad # {} PROVE FALSE
    OBVIOUS
  <2>2. PICK b \in Bad : \A s \in Bad : s \subseteq b => s = b
    <3>1. Bad \subseteq SUBSET rows
      OBVIOUS
    <3>. HIDE DEF Bad
    <3>. QED
      BY <2>1, <3>1, Smallest
  <2>3. PICK r \in b : TRUE
    BY <2>2
  <2>4. \A x \in b : x.tl \in Nat
    BY <2>2 DEF RowSet
  <2>5. CASE b \ {r} = {}
    <3>1. \A x \in b : r.tl >= x.tl
      BY <2>3, <2>4, <2>5
    <3>. QED
      BY <2>2, <3>1
  <2>6. CASE b \ {r} # {}
    <3>0. b \ {r} \in SUBSET rows /\ b \ {r} \subseteq b /\ b \ {r} # b
      BY <2>2, <2>3
    <3>7. ~(b \ {r} \in Bad)
      BY <2>2, <3>0
    <3>1. PICK m \in b \ {r} : \A x \in b \ {r} : m.tl >= x.tl
      BY <2>6, <3>0, <3>7
    <3>2. CASE m.tl >= r.tl
      BY <2>2, <3>1, <3>2
    <3>3. CASE r.tl >= m.tl
      <4>1. \A x \in b : r.tl >= x.tl
        BY <2>4, <3>1, <3>3
      <4>. QED
        BY <2>2, <4>1
    <3>4. m.tl \in Nat /\ r.tl \in Nat
      BY <2>3, <2>4
    <3>. QED
      BY <3>2, <3>3, <3>4
  <2>. QED
    BY <2>5, <2>6
<1>4. Max(T) \in T /\ \A x \in T : Max(T) >= x
  <2>. HIDE DEF T
  <2>. QED
    BY <1>3 DEF Max
<1>5. Min(T) \in T /\ \A x \in T : Min(T) <= x
  <2>. HIDE DEF T
  <2>. QED
    BY <1>2 DEF Min
<1>6. PICK r \in rows : Max(T) = r.tl
  BY <1>4
<1>7. PICK s \in rows : Min(T) = s.tl
  BY <1>5
<1>8. Spread(rows) = r.tl - s.tl
  BY <1>6, <1>7 DEF Spread
<1>9. \A p \in rows : s.tl <= p.tl /\ p.tl <= r.tl
  BY <1>4, <1>5, <1>6, <1>7 DEF RowSet
<1>. QED
  BY <1>8, <1>9

\* What a bucket shows: the spread of its totals, or the sum of its samples.
LEMMA VolumeIs ==
  ASSUME NEW rows, IsFiniteSet(rows), rows \subseteq RowSet
  PROVE  /\ Volume(rows) \in Nat
         /\ \A r, s \in rows : r.tl - s.tl <= Volume(rows)
         /\ \/ Volume(rows) = SumOfRows(rows)
            \/ \E r, s \in rows : Volume(rows) = r.tl - s.tl
<1>1. CASE rows = {}
  BY <1>1, RowSums DEF Volume
<1>2. CASE rows # {}
  <2>1. PICK r, s \in rows : /\ Spread(rows) = r.tl - s.tl
                             /\ \A p \in rows : s.tl <= p.tl /\ p.tl <= r.tl
    BY <1>2, SpreadIs
  <2>2. \A p \in rows : p.tl \in Nat
    BY DEF RowSet
  <2>3. SumOfRows(rows) \in Nat
    BY RowSums
  <2>4. Volume(rows) = IF Spread(rows) # 0 THEN Spread(rows) ELSE SumOfRows(rows)
    BY <1>2 DEF Volume, SumOfRows
  <2>5. CASE Spread(rows) # 0
    <3>1. Volume(rows) = r.tl - s.tl
      BY <2>1, <2>4, <2>5
    <3>. QED
      BY <2>1, <2>2, <3>1
  <2>6. CASE Spread(rows) = 0
    <3>1. Volume(rows) = SumOfRows(rows)
      BY <2>4, <2>6
    <3>. QED
      BY <2>1, <2>2, <2>3, <2>6, <3>1
  <2>. QED
    BY <2>5, <2>6
<1>. QED
  BY <1>1, <1>2

\* The volumes of the buckets, and what was shown when the last of them began.
Volumes == [b \in 0..bucket |-> Volume(InBucket(b))]
ShownBefore == SumFunctionOnSet(Volumes, 0..(bucket - 1))

\* The state of the meter: what it counted went through it.
MeterTypes ==
  /\ flowed \in 0..MaxPulses /\ total \in Nat /\ interval \in Nat /\ saved \in Nat
  /\ sampled \in BOOLEAN /\ saving \in BOOLEAN
  /\ bucket \in Nat /\ restarts \in Nat /\ tears \in Nat
  /\ saved <= total /\ total <= flowed /\ interval <= flowed

\* Readings are finitely many, and of this bucket or an earlier one.
RowTypes ==
  /\ readings \subseteq RowSet /\ IsFiniteSet(readings)
  /\ \A r \in readings : r.bucket <= bucket

BillingTypes == MeterTypes /\ RowTypes

\* How the buckets so far account for the water.  When the open one began, c pulses had
\* flowed and the total was q; at the last publish or restart m had, and it was x.  A
\* bucket in which the meter restarts may round one millilitre up: there were k of them.
Ledger(c, q, k, m, x) ==
  /\ q <= c /\ c <= m /\ m <= flowed /\ k <= restarts
  /\ ShownBefore <= ((tears * L(flowed)) + L(c - q)) + (L(q) + k)
  /\ SumOfRows(InBucket(bucket)) <= L(m - c)
  /\ \A r \in InBucket(bucket) : L(q) <= r.tl /\ r.tl <= L(q + (m - c))
  /\ total = x + (flowed - m) /\ q <= x /\ x <= q + (m - c)
  /\ sampled => interval <= flowed - m
  /\ x <= saved \/ saving
  /\ q <= saved \/ (saving /\ InBucket(bucket) = {})
  /\ k = restarts => x = q + (m - c)

LedgerInv == \E c, q, k, m, x \in Nat : Ledger(c, q, k, m, x)

\* A meter that never restarted published its total.
CoverInv ==
  restarts = 0 => total = flowed /\ \A r \in readings : r.tl = L(r.was)

BillingInv == BillingTypes /\ LedgerInv /\ CoverInv

\* The rows of a bucket.
LEMMA BucketRows ==
  ASSUME readings \subseteq RowSet, IsFiniteSet(readings), NEW b
  PROVE  /\ InBucket(b) \subseteq RowSet /\ IsFiniteSet(InBucket(b))
         /\ InBucket(b) \subseteq readings
  BY FS_Subset DEF InBucket

\* What is shown: what was shown before, and the volume of the open bucket.
LEMMA ShownIs ==
  ASSUME BillingTypes
  PROVE  /\ \A b \in 0..bucket : Volumes[b] \in Nat
         /\ ShownBefore \in Nat /\ Volume(InBucket(bucket)) \in Nat
         /\ Shown = ShownBefore + Volume(InBucket(bucket))
<1>1. readings \subseteq RowSet /\ IsFiniteSet(readings) /\ bucket \in Nat
  BY DEF BillingTypes, MeterTypes, RowTypes
<1>2. \A b : Volume(InBucket(b)) \in Nat
  BY <1>1, BucketRows, VolumeIs
<1>3. \A b \in 0..bucket : Volumes[b] \in Nat /\ Volumes[b] = Volume(InBucket(b))
  BY <1>2 DEF Volumes
<1>4. bucket \in 0..bucket /\ (0..bucket) \ {bucket} = 0..(bucket - 1)
  BY <1>1
<1>5. IsFiniteSet(0..bucket) /\ IsFiniteSet(0..(bucket - 1))
  BY <1>1, FS_Interval
<1>6. ShownBefore \in Nat
  <2>1. \A b \in 0..(bucket - 1) : Volumes[b] \in Nat
    BY <1>1, <1>3
  <2>. HIDE DEF Volumes
  <2>. QED
    BY <1>5, <2>1, SumNat DEF ShownBefore
<1>7. SumFunctionOnSet(Volumes, 0..bucket)
        = Volumes[bucket] + SumFunctionOnSet(Volumes, (0..bucket) \ {bucket})
  <2>1. \A b \in 0..bucket : Volumes[b] \in Int
    BY <1>3
  <2>. QED
    BY <1>4, <1>5, <2>1, SumIs
<1>8. Shown = SumFunctionOnSet(Volumes, 0..bucket)
  BY DEF Shown, SumFunction, Volumes
<1>9. Volumes[bucket] = Volume(InBucket(bucket)) /\ Volume(InBucket(bucket)) \in Nat
  BY <1>2, <1>3, <1>4
<1>10. Shown = Volume(InBucket(bucket)) + ShownBefore
  BY <1>4, <1>7, <1>8, <1>9 DEF ShownBefore
<1>. QED
  BY <1>3, <1>6, <1>9, <1>10

\* The open bucket adds at most what flowed since it began, exactly so while the meter
\* does not restart.
LEMMA BucketAdds ==
  ASSUME BillingTypes, NEW c \in Nat, NEW q \in Nat, NEW k \in Nat, NEW m \in Nat, NEW x \in Nat,
         Ledger(c, q, k, m, x)
  PROVE  /\ Volume(InBucket(bucket)) <= L(q + (m - c)) - L(q)
         /\ Shown <= ((tears * L(flowed)) + L(c - q)) + (L(q + (m - c)) + k)
         /\ Shown <= (tears * L(flowed)) + (L(m) + k)
         /\ m <= flowed /\ m \in Nat
<1> DEFINE rows == InBucket(bucket)
           V == Volume(rows)
           u == c - q
           d == m - c
<1>1. /\ q <= c /\ c <= m /\ m <= flowed
      /\ ShownBefore <= ((tears * L(flowed)) + L(u)) + (L(q) + k)
      /\ SumOfRows(rows) <= L(d)
      /\ \A r \in rows : L(q) <= r.tl /\ r.tl <= L(q + d)
  BY DEF Ledger
<1>2. u \in Nat /\ d \in Nat /\ q + d \in Nat /\ u + (q + d) = m /\ flowed \in Nat
  BY <1>1 DEF BillingTypes, MeterTypes, RowTypes
<1>3. rows \subseteq RowSet /\ IsFiniteSet(rows)
  BY BucketRows DEF BillingTypes, MeterTypes, RowTypes
<1>4. /\ V \in Nat
      /\ \/ V = SumOfRows(rows)
         \/ \E r, s \in rows : V = r.tl - s.tl
  BY <1>3, VolumeIs
<1>5. /\ L(q) \in Nat /\ L(d) \in Nat /\ L(u) \in Nat /\ L(q + d) \in Nat /\ L(m) \in Nat
      /\ L(flowed) \in Nat
      /\ L(q) + L(d) <= L(q + d) /\ L(u) + L(q + d) <= L(u + (q + d))
  BY <1>1, <1>2, Litres
<1>6. \A r \in rows : r.tl \in Nat
  BY <1>3 DEF RowSet
<1>7. SumOfRows(rows) \in Nat
  BY <1>3, RowSums
<1>8. Shown = ShownBefore + V /\ ShownBefore \in Nat
  BY ShownIs
<1>9. tears * L(flowed) \in Nat
  BY <1>5 DEF BillingTypes, MeterTypes, RowTypes
<1>. HIDE DEF rows, V, u, d
<1>10. V <= L(q + d) - L(q)
  <2>1. CASE V = SumOfRows(rows)
    BY <1>1, <1>5, <1>7, <2>1
  <2>2. CASE \E r, s \in rows : V = r.tl - s.tl
    BY <1>1, <1>5, <1>6, <2>2
  <2>. QED
    BY <1>4, <2>1, <2>2
<1>11. Shown <= ((tears * L(flowed)) + L(u)) + (L(q + d) + k)
  BY <1>1, <1>4, <1>5, <1>8, <1>9, <1>10
<1>12. L(u) + L(q + d) <= L(m)
  BY <1>2, <1>5
<1>13. Shown <= (tears * L(flowed)) + (L(m) + k)
  BY <1>4, <1>5, <1>8, <1>9, <1>11, <1>12
<1>. QED
  BY <1>1, <1>10, <1>11, <1>13 DEF rows, V, u, d

\* and so what is shown is accounted for.
LEMMA LedgerShows == BillingTypes /\ LedgerInv => ShownAgainAtMostOnce
<1>1. SUFFICES ASSUME BillingTypes, LedgerInv PROVE ShownAgainAtMostOnce
  OBVIOUS
<1>2. PICK c \in Nat, q \in Nat, k \in Nat, m \in Nat, x \in Nat : Ledger(c, q, k, m, x)
  BY <1>1 DEF LedgerInv
<1>3. Shown <= (tears * L(flowed)) + (L(m) + k) /\ m <= flowed
  BY <1>1, <1>2, BucketAdds
<1>4. /\ L(m) \in Nat /\ L(flowed) \in Nat /\ L(m) <= L(flowed) /\ k <= restarts
      /\ tears \in Nat /\ restarts \in Nat
  BY <1>1, <1>2, <1>3, Litres DEF BillingTypes, MeterTypes, RowTypes, Ledger
<1>5. Shown \in Int
  BY <1>1, ShownIs
<1>6. (tears + 1) * L(flowed) = (tears * L(flowed)) + L(flowed)
  BY <1>4
<1>7. tears * L(flowed) \in Nat
  BY <1>4
<1>8. Shown <= ((tears * L(flowed)) + L(flowed)) + restarts
  BY <1>3, <1>4, <1>5, <1>7
<1>. QED
  BY <1>6, <1>8 DEF ShownAgainAtMostOnce, L

\* Below the wrap of unsigned long, the meter's volume is the true one.
LEMMA NoWrap ==
  ASSUME MaxPulses * 1000 < ULong, NEW n \in 0..MaxPulses
  PROVE  MilliLitres(n) = L(n)
<1> DEFINE w == n * 1000
           u == ULong
<1>1. w \in Nat /\ u \in Nat /\ w < u
  <2>1. MaxPulses \in Nat /\ u \in Nat
    BY BillingAssumption
  <2>2. n \in Nat /\ n * 1000 <= MaxPulses * 1000
    BY <2>1
  <2>. QED
    BY <2>1, <2>2
<1>2. w % u = w
  <2>. HIDE DEF w, u
  <2>. QED
    BY <1>1
<1>. QED
  BY <1>2 DEF MilliLitres, L, TrueMilliLitres

\* The row of a telemetry message.
LEMMA RowIs ==
  ASSUME BillingTypes, MaxPulses * 1000 < ULong
  PROVE  /\ Row \in RowSet /\ Row.bucket = bucket /\ Row.was = flowed
         /\ Row.tl = L(total) /\ Row.mls = L(interval)
<1>1. /\ flowed \in Nat /\ total \in 0..MaxPulses /\ interval \in 0..MaxPulses /\ bucket \in Nat
      /\ IsFiniteSet(readings)
  BY BillingAssumption DEF BillingTypes, MeterTypes, RowTypes
<1>2. MilliLitres(total) = L(total) /\ MilliLitres(interval) = L(interval)
  BY <1>1, NoWrap
<1>3. L(total) \in Nat /\ L(interval) \in Nat
  BY <1>1, Litres
<1>4. Cardinality(readings) \in Nat
  BY <1>1, FS_CardinalityType
<1>. QED
  BY <1>1, <1>2, <1>3, <1>4 DEF Row, RowSet

\* A step that leaves the readings and the hour alone.
LEMMA SameRows ==
  ASSUME UNCHANGED <<readings, bucket>>
  PROVE  ShownBefore' = ShownBefore /\ InBucket(bucket)' = InBucket(bucket)
<1>1. Volumes' = Volumes
  BY DEF Volumes, InBucket
<1>. QED
  BY <1>1 DEF ShownBefore, InBucket

\* Every step.
LEMMA BillingTypesStep ==
  ASSUME BillingTypes, [BillingNext]_billingVars, MaxPulses * 1000 < ULong
  PROVE  BillingTypes'
<1>1. MeterTypes'
  <2>1. MaxPulses \in Nat /\ MeterTypes
    BY BillingAssumption DEF BillingTypes
  <2>2. ASSUME NEW n \in 0..MaxPulses, Sample(n) PROVE MeterTypes'
    BY <2>1, <2>2 DEF Sample, Counted, MeterTypes
  <2>3. ASSUME NEW arrives \in BOOLEAN, Publish(arrives) PROVE MeterTypes'
    BY <2>1, <2>3 DEF Publish, MeterTypes
  <2>4. CASE Save
    <3>1. saved' = total /\ saving' \in BOOLEAN
      BY <2>4 DEF Save
    <3>2. UNCHANGED <<flowed, total, interval, sampled, bucket, restarts, tears>>
      BY <2>4 DEF Save
    <3>. QED
      BY <2>1, <3>1, <3>2 DEF MeterTypes
  <2>5. CASE Restart \/ TornSave
    <3>1. sampled' \in BOOLEAN /\ saving' \in BOOLEAN /\ interval' = 0
      BY <2>5 DEF Restart, TornSave
    <3>2. \/ total' = saved /\ UNCHANGED <<saved, tears>>
          \/ total' = 0 /\ saved' = 0 /\ tears' = tears + 1
      BY <2>5 DEF Restart, TornSave
    <3>3. restarts' = restarts + 1 /\ UNCHANGED <<flowed, bucket>>
      BY <2>5 DEF Restart, TornSave
    <3>. QED
      BY <2>1, <3>1, <3>2, <3>3 DEF MeterTypes
  <2>6. CASE NextBucket \/ UNCHANGED billingVars
    BY <2>1, <2>6 DEF NextBucket, billingVars, MeterTypes
  <2>. QED
    BY <2>2, <2>3, <2>4, <2>5, <2>6 DEF BillingNext
<1>2. RowTypes'
  <2>1. Row \in RowSet /\ Row.bucket = bucket
    BY RowIs
  <2>2. /\ readings \subseteq RowSet /\ IsFiniteSet(readings)
        /\ \A r \in readings : r.bucket <= bucket
        /\ bucket \in Nat
    BY DEF BillingTypes, RowTypes, MeterTypes
  <2>3. \/ UNCHANGED bucket /\ (readings' = readings \/ readings' = readings \cup {Row})
        \/ bucket' = bucket + 1 /\ readings' = readings
    BY DEF BillingNext, billingVars, Sample, Publish, Save, Restart, TornSave, NextBucket
  <2>4. IsFiniteSet(readings \cup {Row})
    BY <2>2, FS_AddElement
  <2>. HIDE DEF Row
  <2>5. CASE UNCHANGED bucket /\ (readings' = readings \/ readings' = readings \cup {Row})
    <3>1. bucket <= bucket
      BY <2>2
    <3>2. \A r \in readings \cup {Row} : r.bucket <= bucket
      BY <2>1, <2>2, <3>1
    <3>. QED
      BY <2>1, <2>2, <2>4, <2>5, <3>2 DEF RowTypes
  <2>6. CASE bucket' = bucket + 1 /\ readings' = readings
    <3>1. \A r \in readings : r.bucket <= bucket + 1
      BY <2>2 DEF RowSet
    <3>. QED
      BY <2>2, <2>6, <3>1 DEF RowTypes
  <2>. QED
    BY <2>3, <2>5, <2>6
<1>. QED
  BY <1>1, <1>2 DEF BillingTypes

\* A meter that never restarted goes on publishing its total.
LEMMA CoverStep ==
  ASSUME BillingTypes, CoverInv, [BillingNext]_billingVars, MaxPulses * 1000 < ULong
  PROVE  CoverInv'
<1>1. ASSUME NEW n \in 0..MaxPulses, Sample(n) PROVE CoverInv'
  BY <1>1 DEF Sample, Counted, BillingTypes, MeterTypes, CoverInv
<1>2. ASSUME NEW arrives \in BOOLEAN, Publish(arrives) PROVE CoverInv'
  <2>1. Row.was = flowed /\ Row.tl = L(total)
    BY RowIs
  <2>2. readings' = readings \/ readings' = readings \cup {Row}
    BY <1>2 DEF Publish
  <2>3. UNCHANGED <<restarts, total, flowed>>
    BY <1>2 DEF Publish
  <2>. HIDE DEF Row
  <2>. QED
    BY <2>1, <2>2, <2>3 DEF CoverInv
<1>3. CASE Save
  BY <1>3 DEF Save, CoverInv
<1>4. CASE Restart \/ TornSave
  <2>1. restarts' # 0
    BY <1>4 DEF Restart, TornSave, BillingTypes, MeterTypes
  <2>. QED
    BY <2>1 DEF CoverInv
<1>5. CASE NextBucket \/ UNCHANGED billingVars
  BY <1>5 DEF NextBucket, billingVars, CoverInv
<1>. QED
  BY <1>1, <1>2, <1>3, <1>4, <1>5 DEF BillingNext

\* The water between two readings is shown.
LEMMA Covered == BillingTypes /\ CoverInv => BucketIsCovered
<1>1. SUFFICES ASSUME BillingTypes, CoverInv, restarts = 0, NEW b \in 0..bucket,
                      NEW r \in InBucket(b), NEW s \in InBucket(b)
               PROVE  TrueMilliLitres(s.was) - TrueMilliLitres(r.was) <= Volume(InBucket(b))
  BY DEF BucketIsCovered
<1>2. InBucket(b) \subseteq RowSet /\ IsFiniteSet(InBucket(b)) /\ r \in readings /\ s \in readings
  BY <1>1, BucketRows DEF BillingTypes, RowTypes
<1>3. s.tl - r.tl <= Volume(InBucket(b))
  BY <1>2, VolumeIs
<1>4. s.tl = L(s.was) /\ r.tl = L(r.was)
  BY <1>1, <1>2 DEF CoverInv
<1>. QED
  BY <1>3, <1>4 DEF L

\* A sample: water flows, and the interval that will be published is part of it.
LEMMA SampleBooks ==
  ASSUME BillingTypes, LedgerInv, NEW n \in 0..MaxPulses, Sample(n)
  PROVE  LedgerInv'
<1>1. PICK c \in Nat, q \in Nat, k \in Nat, m \in Nat, x \in Nat : Ledger(c, q, k, m, x)
  BY DEF LedgerInv
<1>2. /\ ~saving /\ flowed' = flowed + n /\ total' = total + n /\ interval' = n
      /\ UNCHANGED <<saved, saving, bucket, readings, restarts, tears>>
  BY DEF Sample, Counted
<1>3. ShownBefore' = ShownBefore /\ InBucket(bucket)' = InBucket(bucket)
  BY <1>2, SameRows
<1>4. n \in Nat /\ flowed \in Nat /\ tears \in Nat /\ total \in Nat /\ restarts \in Nat
  BY BillingAssumption DEF BillingTypes, MeterTypes
<1>5. /\ L(flowed) \in Nat /\ L(flowed + n) \in Nat /\ L(flowed) <= L(flowed + n)
      /\ L(c - q) \in Nat /\ L(q) \in Nat
  <2>1. flowed + n \in Nat /\ flowed <= flowed + n /\ c - q \in Nat
    BY <1>1, <1>4 DEF Ledger
  <2>. QED
    BY <1>4, <2>1, Litres
<1>6. tears * L(flowed) <= tears * L(flowed + n)
  BY <1>4, <1>5
<1>7. ShownBefore \in Nat /\ tears * L(flowed) \in Nat /\ tears * L(flowed + n) \in Nat
  BY <1>4, <1>5, ShownIs
<1>8. ShownBefore <= ((tears * L(flowed + n)) + L(c - q)) + (L(q) + k)
  BY <1>1, <1>5, <1>6, <1>7 DEF Ledger
<1>9. /\ q <= c /\ c <= m /\ m <= flowed + n /\ k <= restarts
      /\ total + n = x + ((flowed + n) - m)
      /\ n <= (flowed + n) - m
  BY <1>1, <1>4 DEF Ledger
<1>10. Ledger(c, q, k, m, x)'
  BY <1>1, <1>2, <1>3, <1>8, <1>9 DEF Ledger
<1>. QED
  BY <1>10 DEF LedgerInv

\* A publish: the row's total lies where the bucket's water puts it, and its sample is
\* water since the last one.
LEMMA PublishBooks ==
  ASSUME BillingTypes, LedgerInv, MaxPulses * 1000 < ULong,
         NEW arrives \in BOOLEAN, Publish(arrives)
  PROVE  LedgerInv'
<1>1. PICK c \in Nat, q \in Nat, k \in Nat, m \in Nat, x \in Nat : Ledger(c, q, k, m, x)
  BY DEF LedgerInv
<1> DEFINE F == flowed
           t == total
           i == interval
           rows == InBucket(bucket)
           z == F - c
<1>2. /\ ~saving /\ sampled /\ ~sampled' /\ saving'
      /\ readings' = readings \/ readings' = readings \cup {Row}
      /\ UNCHANGED <<flowed, total, saved, bucket, restarts, tears>>
  BY DEF Publish
<1>3. /\ F \in Nat /\ t \in Nat /\ i \in Nat /\ saved \in Nat /\ tears \in Nat /\ restarts \in Nat
      /\ bucket \in Nat /\ readings \subseteq RowSet /\ IsFiniteSet(readings)
  BY DEF BillingTypes, MeterTypes, RowTypes
<1>4. /\ q <= c /\ c <= m /\ m <= F /\ k <= restarts
      /\ t = x + (F - m) /\ q <= x /\ x <= q + (m - c) /\ i <= F - m
      /\ q <= saved
      /\ k = restarts => x = q + (m - c)
  BY <1>1, <1>2 DEF Ledger
<1>5. /\ q <= t /\ t <= q + z /\ z \in Nat /\ c <= F
      /\ k = restarts => t = q + z
  BY <1>3, <1>4
<1>6. /\ Row \in RowSet /\ Row.bucket = bucket /\ Row.tl = L(t) /\ Row.mls = L(i)
  BY RowIs
<1>7. /\ L(q) <= L(t) /\ L(t) <= L(q + z) /\ L(q) \in Nat /\ L(t) \in Nat
      /\ L(q + (m - c)) <= L(q + z) /\ L(q + z) \in Nat /\ L(q + (m - c)) \in Nat
  <2>1. /\ q + z \in Nat /\ q + (m - c) \in Nat /\ q + (m - c) <= q + z
    BY <1>3, <1>4, <1>5
  <2>. HIDE DEF z, t
  <2>2. L(q) <= L(t) /\ L(t) <= L(q + z) /\ L(q + (m - c)) <= L(q + z)
    BY <1>3, <1>5, <2>1, Litres
  <2>3. L(q) \in Nat /\ L(t) \in Nat /\ L(q + z) \in Nat /\ L(q + (m - c)) \in Nat
    BY <1>3, <2>1, Litres
  <2>. QED
    BY <2>2, <2>3
<1>8. /\ L(m - c) \in Nat /\ L(i) \in Nat /\ L(z) \in Nat
      /\ L(m - c) + L(i) <= L(z)
  <2>1. m - c \in Nat /\ (m - c) + i <= z /\ (m - c) + i \in Nat
    BY <1>3, <1>4
  <2>2. L(m - c) + L(i) <= L((m - c) + i) /\ L((m - c) + i) <= L(z)
    BY <1>3, <1>5, <2>1, Litres
  <2>3. L(m - c) \in Nat /\ L(i) \in Nat /\ L(z) \in Nat /\ L((m - c) + i) \in Nat
    BY <1>3, <1>5, <2>1, Litres
  <2>. QED
    BY <2>2, <2>3
<1>9. rows \subseteq RowSet /\ IsFiniteSet(rows)
  BY <1>3, BucketRows
<1>10. InBucket(bucket)' = rows \/ InBucket(bucket)' = rows \cup {Row}
  <2>. HIDE DEF Row
  <2>. QED
    BY <1>2, <1>6 DEF InBucket
<1>11. ShownBefore' = ShownBefore
  <2>1. \A b \in 0..(bucket - 1) : InBucket(b)' = InBucket(b)
    <3>1. \A b \in 0..(bucket - 1) : b # bucket
      BY <1>3
    <3>. HIDE DEF Row
    <3>. QED
      BY <1>2, <1>6, <3>1 DEF InBucket
  <2>2. \A b \in 0..(bucket - 1) : b \in 0..bucket
    BY <1>3
  <2>3. \A b \in 0..(bucket - 1) : Volumes[b] \in Int /\ Volumes[b] = Volumes'[b]
    <3>1. \A b \in 0..(bucket - 1) : Volumes[b] = Volume(InBucket(b))
      BY <2>2 DEF Volumes
    <3>2. \A b \in 0..(bucket - 1) : Volumes'[b] = Volume(InBucket(b)')
      BY <1>2, <2>2 DEF Volumes
    <3>3. \A b \in 0..(bucket - 1) : Volumes[b] \in Nat
      BY <2>2, ShownIs
    <3>. QED
      BY <2>1, <3>1, <3>2, <3>3
  <2>4. IsFiniteSet(0..(bucket - 1))
    BY <1>3, FS_Interval
  <2>. HIDE DEF Volumes
  <2>5. SumFunctionOnSet(Volumes, 0..(bucket - 1)) = SumFunctionOnSet(Volumes', 0..(bucket - 1))
    BY <2>3, <2>4, SumSame
  <2>. QED
    BY <1>2, <2>5 DEF ShownBefore
<1>12. SumOfRows(InBucket(bucket)') <= L(z)
  <2>1. /\ SumOfRows(rows) \in Nat /\ SumOfRows(rows \cup {Row}) <= SumOfRows(rows) + L(i)
        /\ SumOfRows(rows \cup {Row}) \in Nat
    <3>1. IsFiniteSet(rows \cup {Row}) /\ rows \cup {Row} \subseteq RowSet
      BY <1>6, <1>9, FS_AddElement
    <3>. HIDE DEF Row, rows
    <3>. QED
      BY <1>6, <1>9, <3>1, RowSums
  <2>2. SumOfRows(rows) <= L(m - c)
    BY <1>1 DEF Ledger
  <2>3. SumOfRows(rows) <= L(z) /\ SumOfRows(rows \cup {Row}) <= L(z)
    BY <1>8, <2>1, <2>2
  <2>. QED
    BY <1>10, <2>3
<1>13. \A r \in InBucket(bucket)' : L(q) <= r.tl /\ r.tl <= L(q + z)
  <2>1. \A r \in rows : L(q) <= r.tl /\ r.tl <= L(q + (m - c)) /\ r.tl \in Nat
    BY <1>1, <1>9 DEF Ledger, RowSet
  <2>2. \A r \in rows : L(q) <= r.tl /\ r.tl <= L(q + z)
    BY <1>7, <2>1
  <2>3. L(q) <= Row.tl /\ Row.tl <= L(q + z)
    BY <1>6, <1>7
  <2>. HIDE DEF Row, rows, z
  <2>. QED
    BY <1>10, <2>2, <2>3
<1>14. PICK m1 \in Nat, x1 \in Nat : m1 = F /\ x1 = t
  BY <1>3
<1>15. Ledger(c, q, k, m1, x1)'
  <2>1. m1 <= F /\ x1 + (F - m1) = t
    BY <1>3, <1>14
  <2>2. ShownBefore <= ((tears * L(flowed)) + L(c - q)) + (L(q) + k)
    BY <1>1 DEF Ledger
  <2>3. m1 = flowed' /\ x1 = total' /\ m1 - c = z
    BY <1>2, <1>14
  <2>. QED
    BY <1>2, <1>4, <1>5, <1>11, <1>12, <1>13, <1>14, <2>1, <2>2, <2>3 DEF Ledger
<1>. QED
  BY <1>15 DEF LedgerInv

\* A save: a restart will find the total.
LEMMA SaveBooks ==
  ASSUME BillingTypes, LedgerInv, Save
  PROVE  LedgerInv'
<1>1. PICK c \in Nat, q \in Nat, k \in Nat, m \in Nat, x \in Nat : Ledger(c, q, k, m, x)
  BY DEF LedgerInv
<1>2. /\ saved' = total /\ ~saving'
      /\ UNCHANGED <<flowed, total, interval, sampled, bucket, readings, restarts, tears>>
  BY DEF Save
<1>3. ShownBefore' = ShownBefore /\ InBucket(bucket)' = InBucket(bucket)
  BY <1>2, SameRows
<1>4. flowed \in Nat /\ total \in Nat
  BY DEF BillingTypes, MeterTypes
<1>5. q <= total /\ x <= total
  BY <1>1, <1>4 DEF Ledger
<1>6. Ledger(c, q, k, m, x)'
  BY <1>1, <1>2, <1>3, <1>5 DEF Ledger
<1>. QED
  BY <1>6 DEF LedgerInv

\* Nothing can be shown for a bucket without rows.
LEMMA EmptyBucket ==
  ASSUME NEW a \in Nat
  PROVE  SumOfRows({}) <= L(a)
<1>1. SumOfRows({}) = 0
  BY RowSums, FS_EmptySet
<1>. QED
  BY <1>1, Litres

\* A restart from an older total: in an open bucket with rows its totals stay above where
\* the bucket began; otherwise the books of the next bucket begin here.
LEMMA RestartBooks ==
  ASSUME BillingTypes, LedgerInv, Restart
  PROVE  LedgerInv'
<1>1. PICK c \in Nat, q \in Nat, k \in Nat, m \in Nat, x \in Nat : Ledger(c, q, k, m, x)
  BY DEF LedgerInv
<1> DEFINE F == flowed
           s == saved
           rows == InBucket(bucket)
<1>2. /\ restarts' = restarts + 1 /\ total' = saved /\ ~sampled' /\ ~saving'
      /\ UNCHANGED <<flowed, saved, bucket, readings, tears>>
  BY DEF Restart
<1>3. ShownBefore' = ShownBefore /\ InBucket(bucket)' = rows
  BY <1>2, SameRows
<1>4. /\ F \in Nat /\ s \in Nat /\ total \in Nat /\ restarts \in Nat /\ tears \in Nat
      /\ s <= total /\ total <= F
  BY DEF BillingTypes, MeterTypes
<1>5. /\ q <= c /\ c <= m /\ m <= F /\ k <= restarts
      /\ total = x + (F - m) /\ q <= x /\ x <= q + (m - c)
      /\ ShownBefore <= ((tears * L(F)) + L(c - q)) + (L(q) + k)
  BY <1>1 DEF Ledger
<1>6. PICK m1 \in Nat, x1 \in Nat : m1 = F /\ x1 = s
  BY <1>4
<1>7. CASE q <= s
  <2> DEFINE z == F - c
  <2>1. /\ z \in Nat /\ m - c \in Nat /\ m - c <= z /\ q + z \in Nat /\ q + (m - c) \in Nat
        /\ q + (m - c) <= q + z /\ s <= q + z /\ c <= F /\ k <= restarts + 1
        /\ k # restarts + 1
    BY <1>4, <1>5
  <2>2. L(m - c) <= L(z) /\ L(q + (m - c)) <= L(q + z)
    <3>. HIDE DEF z
    <3>. QED
      BY <2>1, Litres
  <2>3. /\ L(m - c) \in Nat /\ L(z) \in Nat
        /\ L(q + (m - c)) \in Nat /\ L(q + z) \in Nat /\ L(q) \in Nat
    <3>. HIDE DEF z
    <3>. QED
      BY <2>1, Litres
  <2>4. rows \subseteq RowSet /\ IsFiniteSet(rows)
    BY BucketRows DEF BillingTypes, RowTypes
  <2>5. SumOfRows(rows) <= L(z)
    <3>1. SumOfRows(rows) \in Nat /\ SumOfRows(rows) <= L(m - c)
      BY <1>1, <2>4, RowSums DEF Ledger
    <3>. QED
      BY <2>2, <2>3, <3>1
  <2>6. \A r \in rows : L(q) <= r.tl /\ r.tl <= L(q + z)
    <3>1. \A r \in rows : r.tl \in Nat /\ L(q) <= r.tl /\ r.tl <= L(q + (m - c))
      BY <1>1, <2>4 DEF RowSet, Ledger
    <3>. QED
      BY <2>2, <2>3, <3>1
  <2>7. s = x1 + (F - m1) /\ m1 - c = z
    BY <1>4, <1>6
  <2>8. Ledger(c, q, k, m1, x1)'
    <3>. HIDE DEF rows
    <3>. QED
      BY <1>2, <1>3, <1>5, <1>6, <1>7, <2>1, <2>5, <2>6, <2>7 DEF Ledger
  <2>. QED
    BY <2>8 DEF LedgerInv
<1>8. CASE ~(q <= s)
  <2>1. rows = {}
    BY <1>1, <1>8 DEF Ledger
  <2> DEFINE u == F - s
  <2>2. /\ c - q \in Nat /\ (c - q) + q = c /\ u \in Nat /\ u + s = F /\ c <= F
    BY <1>4, <1>5
  <2>3. L(c - q) + L(q) <= L(c) /\ L(c) <= L(F) /\ L(F) <= (L(u) + L(s)) + 1
    <3>. HIDE DEF u, F, s
    <3>1. L(c - q) + L(q) <= L((c - q) + q)
      BY <2>2, Litres
    <3>2. L(c) <= L(F)
      BY <1>4, <2>2, Litres
    <3>3. L(u + s) <= (L(u) + L(s)) + 1
      BY <1>4, <2>2, Litres
    <3>. QED
      BY <2>2, <3>1, <3>2, <3>3
  <2>4. /\ L(c - q) \in Nat /\ L(q) \in Nat /\ L(c) \in Nat /\ L(F) \in Nat /\ L(u) \in Nat
        /\ L(s) \in Nat /\ ShownBefore \in Nat
    <3>. HIDE DEF u, F, s
    <3>. QED
      BY <1>4, <2>2, Litres, ShownIs
  <2>5. tears * L(F) \in Nat
    BY <1>4, <2>4
  <2>6. ShownBefore <= ((tears * L(F)) + L(u)) + (L(s) + (k + 1))
    <3>. HIDE DEF u, F, s
    <3>. QED
      BY <1>5, <2>3, <2>4, <2>5
  <2>7. PICK k1 \in Nat : k1 = k + 1
    OBVIOUS
  <2>8. /\ x1 <= m1 /\ k1 <= restarts + 1 /\ m1 - x1 = u
        /\ s = x1 + (F - m1) /\ x1 <= x1 + (m1 - m1) /\ x1 = x1 + (m1 - m1)
        /\ m1 <= m1 /\ x1 <= x1 /\ m1 <= F /\ x1 <= s
    BY <1>4, <1>5, <1>6, <2>7
  <2>9. SumOfRows({}) <= L(m1 - m1)
    <3>1. m1 - m1 \in Nat
      OBVIOUS
    <3>. QED
      BY <3>1, EmptyBucket
  <2>10. ShownBefore <= ((tears * L(F)) + L(m1 - x1)) + (L(x1) + k1)
    BY <1>6, <2>6, <2>7, <2>8
  <2>11. Ledger(m1, x1, k1, m1, x1)'
    <3>. HIDE DEF rows, u
    <3>. QED
      BY <1>2, <1>3, <2>1, <2>8, <2>9, <2>10 DEF Ledger
  <2>. QED
    BY <2>11 DEF LedgerInv
<1>. QED
  BY <1>7, <1>8

\* A torn save: the meter counts from none, and all that was shown may be shown again.
LEMMA TornBooks ==
  ASSUME BillingTypes, LedgerInv, TornSave
  PROVE  LedgerInv'
<1>1. PICK c \in Nat, q \in Nat, k \in Nat, m \in Nat, x \in Nat : Ledger(c, q, k, m, x)
  BY DEF LedgerInv
<1> DEFINE F == flowed
           rows == InBucket(bucket)
<1>2. /\ restarts' = restarts + 1 /\ tears' = tears + 1 /\ total' = 0 /\ saved' = 0
      /\ ~sampled' /\ ~saving'
      /\ UNCHANGED <<flowed, bucket, readings>>
  BY DEF TornSave
<1>3. ShownBefore' = ShownBefore /\ InBucket(bucket)' = rows
  BY <1>2, SameRows
<1>4. F \in Nat /\ restarts \in Nat /\ tears \in Nat
  BY DEF BillingTypes, MeterTypes
<1>5. /\ q <= c /\ c <= m /\ m <= F /\ k <= restarts
      /\ ShownBefore <= ((tears * L(F)) + L(c - q)) + (L(q) + k)
  BY <1>1 DEF Ledger
<1>6. PICK m1 \in Nat : m1 = F
  BY <1>4
<1>7. /\ c - q \in Nat /\ (c - q) + q = c /\ m - c \in Nat /\ m - c <= F /\ c <= F
      /\ q + (m - c) \in Nat /\ q + (m - c) <= F
  BY <1>4, <1>5
<1>8. /\ L(c - q) + L(q) <= L(F) /\ L(m - c) <= L(F) /\ L(q + (m - c)) <= L(F)
  <2>. HIDE DEF F
  <2>1. L(c - q) + L(q) <= L((c - q) + q)
    BY <1>7, Litres
  <2>2. L(c) <= L(F) /\ L(m - c) <= L(F) /\ L(q + (m - c)) <= L(F)
    BY <1>4, <1>7, Litres
  <2>3. L(c) \in Nat /\ L(F) \in Nat /\ L(c - q) \in Nat /\ L(q) \in Nat
    BY <1>4, <1>7, Litres
  <2>. QED
    BY <1>7, <2>1, <2>2, <2>3
<1>9. /\ L(c - q) \in Nat /\ L(q) \in Nat /\ L(F) \in Nat /\ L(m - c) \in Nat
      /\ L(q + (m - c)) \in Nat /\ ShownBefore \in Nat /\ L(0) = 0 /\ 0 - 0 = 0
  <2>1. ShownBefore \in Nat
    BY ShownIs
  <2>2. /\ L(c - q) \in Nat /\ L(q) \in Nat /\ L(F) \in Nat /\ L(m - c) \in Nat
        /\ L(q + (m - c)) \in Nat
    <3>. HIDE DEF F
    <3>. QED
      BY <1>4, <1>7, Litres
  <2>3. L(0) = 0 /\ 0 - 0 = 0
    BY Litres
  <2>. QED
    BY <2>1, <2>2, <2>3
<1>10. rows \subseteq RowSet /\ IsFiniteSet(rows)
  BY BucketRows DEF BillingTypes, RowTypes
<1>11. SumOfRows(rows) <= L(F)
  <2>1. SumOfRows(rows) \in Nat /\ SumOfRows(rows) <= L(m - c)
    BY <1>1, <1>10, RowSums DEF Ledger
  <2>. QED
    BY <1>8, <1>9, <2>1
<1>12. \A r \in rows : L(0) <= r.tl /\ r.tl <= L(F)
  <2>1. \A r \in rows : r.tl \in Nat /\ r.tl <= L(q + (m - c))
    BY <1>1, <1>10 DEF RowSet, Ledger
  <2>. QED
    BY <1>8, <1>9, <2>1
<1>13. ShownBefore <= (((tears + 1) * L(F)) + L(0 - 0)) + (L(0) + k)
  <2>1. (tears + 1) * L(F) = (tears * L(F)) + L(F)
    BY <1>4, <1>9
  <2>2. tears * L(F) \in Nat
    BY <1>4, <1>9
  <2>. HIDE DEF F
  <2>. QED
    BY <1>5, <1>8, <1>9, <2>1, <2>2
<1>14. /\ 0 <= m1 /\ m1 <= F /\ k <= restarts + 1 /\ k # restarts + 1
       /\ 0 = 0 + (F - m1) /\ 0 <= 0 + (m1 - 0) /\ m1 - 0 = F /\ 0 + (m1 - 0) = F
  BY <1>4, <1>5, <1>6
<1>15. Ledger(0, 0, k, m1, 0)'
  <2>. HIDE DEF rows
  <2>. QED
    BY <1>2, <1>3, <1>11, <1>12, <1>13, <1>14 DEF Ledger
<1>. QED
  BY <1>15 DEF LedgerInv

\* An hour passes: what the open bucket shows joins what was shown before, and the books of
\* the next one begin where the meter last published or restarted.
LEMMA BucketBooks ==
  ASSUME BillingTypes, LedgerInv, NextBucket
  PROVE  LedgerInv'
<1>1. PICK c \in Nat, q \in Nat, k \in Nat, m \in Nat, x \in Nat : Ledger(c, q, k, m, x)
  BY DEF LedgerInv
<1>2. /\ bucket' = bucket + 1
      /\ UNCHANGED <<flowed, total, interval, sampled, saved, saving, readings, restarts, tears>>
  BY DEF NextBucket
<1>3. /\ flowed \in Nat /\ total \in Nat /\ restarts \in Nat /\ tears \in Nat /\ bucket \in Nat
      /\ readings \subseteq RowSet /\ \A r \in readings : r.bucket <= bucket
  BY DEF BillingTypes, MeterTypes, RowTypes
<1>4. InBucket(bucket)' = {}
  <2>1. \A r \in readings : r.bucket \in Nat /\ r.bucket # bucket + 1
    BY <1>3 DEF RowSet
  <2>. QED
    BY <1>2, <2>1 DEF InBucket
<1>5. ShownBefore' = Shown
  <2>1. bucket' - 1 = bucket
    BY <1>2, <1>3
  <2>2. \A b \in 0..bucket : InBucket(b)' = InBucket(b)
    BY <1>2 DEF InBucket
  <2>3. \A b \in 0..bucket : b \in 0..bucket'
    BY <1>2, <1>3
  <2>4. \A b \in 0..bucket : Volumes'[b] = Volume(InBucket(b)')
    BY <2>3 DEF Volumes
  <2>5. \A b \in 0..bucket : Volumes[b] \in Int /\ Volumes[b] = Volumes'[b]
    <3>1. \A b \in 0..bucket : Volumes[b] \in Nat
      BY ShownIs
    <3>2. \A b \in 0..bucket : Volumes[b] = Volume(InBucket(b))
      BY DEF Volumes
    <3>. QED
      BY <2>2, <2>4, <3>1, <3>2
  <2>6. IsFiniteSet(0..bucket)
    BY <1>3, FS_Interval
  <2>7. Shown = SumFunctionOnSet(Volumes, 0..bucket)
    BY DEF Shown, SumFunction, Volumes
  <2>8. ShownBefore' = SumFunctionOnSet(Volumes', 0..bucket)
    BY <2>1 DEF ShownBefore
  <2>. HIDE DEF Volumes
  <2>. QED
    BY <2>5, <2>6, <2>7, <2>8, SumSame
<1>6. /\ q <= c /\ c <= m /\ m <= flowed /\ k <= restarts
      /\ total = x + (flowed - m) /\ q <= x /\ x <= q + (m - c)
      /\ sampled => interval <= flowed - m
      /\ x <= saved \/ saving
      /\ k = restarts => x = q + (m - c)
  BY <1>1 DEF Ledger
<1>7. /\ x <= m /\ m - x \in Nat /\ (m - x) + x = m /\ m - m = 0 /\ x + 0 = x
      /\ q + (m - c) \in Nat /\ c - q \in Nat
      /\ k = restarts => c - q = m - x
  BY <1>3, <1>6
<1>8. Shown <= ((tears * L(flowed)) + L(c - q)) + (L(q + (m - c)) + k)
  BY <1>1, BucketAdds
<1>9. Shown <= (tears * L(flowed)) + (L(m) + k)
  BY <1>1, BucketAdds
<1>10. L(m) <= (L(m - x) + L(x)) + 1
  <2>1. L((m - x) + x) <= (L(m - x) + L(x)) + 1
    BY <1>7, Litres
  <2>. QED
    BY <1>7, <2>1
<1>11. L(m) \in Nat /\ L(m - x) \in Nat /\ L(x) \in Nat /\ L(flowed) \in Nat
  BY <1>3, <1>7, Litres
<1>12. tears * L(flowed) \in Nat
  BY <1>3, <1>11
<1>13. Shown \in Nat
  <2>1. ShownBefore \in Nat /\ Volume(InBucket(bucket)) \in Nat
        /\ Shown = ShownBefore + Volume(InBucket(bucket))
    BY ShownIs
  <2>. HIDE DEF ShownBefore, Volume, Shown
  <2>. QED
    BY <2>1
<1>14. PICK k1 \in Nat :
         /\ k1 <= restarts
         /\ Shown <= ((tears * L(flowed)) + L(m - x)) + (L(x) + k1)
  <2>1. CASE k = restarts
    <3>1. c - q = m - x /\ q + (m - c) = x
      BY <1>6, <1>7, <2>1
    <3>2. Shown <= ((tears * L(flowed)) + L(m - x)) + (L(x) + k)
      BY <1>8, <3>1
    <3>. QED
      BY <1>6, <3>2
  <2>2. CASE k # restarts
    <3>1. k + 1 \in Nat /\ k + 1 <= restarts
      BY <1>3, <1>6, <2>2
    <3>. HIDE DEF Shown
    <3>2. Shown <= ((tears * L(flowed)) + L(m - x)) + (L(x) + (k + 1))
      BY <1>9, <1>10, <1>11, <1>12, <1>13
    <3>. QED
      BY <3>1, <3>2
  <2>. QED
    BY <2>1, <2>2
<1>15. SumOfRows({}) <= L(m - m)
  BY <1>7, EmptyBucket
<1>16. m <= m /\ x <= x /\ x <= x + (m - m) /\ x = x + (m - m)
  BY <1>7
<1>17. Ledger(m, x, k1, m, x)'
  <2>. HIDE DEF Shown
  <2>. QED
    BY <1>2, <1>4, <1>5, <1>6, <1>7, <1>14, <1>15, <1>16 DEF Ledger
<1>. QED
  BY <1>17 DEF LedgerInv

\* The empty books of a new meter.
LEMMA BillingStarts == BillingInit => BillingInv
<1>1. SUFFICES ASSUME BillingInit PROVE BillingInv
  OBVIOUS
<1>2. /\ flowed = 0 /\ total = 0 /\ interval = 0 /\ sampled = FALSE /\ saved = 0
      /\ saving = FALSE /\ bucket = 0 /\ readings = {} /\ restarts = 0 /\ tears = 0
  BY <1>1 DEF BillingInit
<1>3. BillingTypes
  <2>1. MeterTypes
    <3>1. 0 \in 0..MaxPulses /\ 0 <= 0 /\ 0 \in Nat /\ FALSE \in BOOLEAN
      BY BillingAssumption
    <3>. QED
      BY <1>2, <3>1 DEF MeterTypes
  <2>2. RowTypes
    BY <1>2, FS_EmptySet DEF RowTypes
  <2>. QED
    BY <2>1, <2>2 DEF BillingTypes
<1>4. L(0) = 0 /\ 0 - 0 = 0 /\ SumOfRows({}) = 0
  BY Litres, RowSums, FS_EmptySet
<1>5. ShownBefore = 0 /\ InBucket(bucket) = {}
  <2>1. 0..(bucket - 1) = {} /\ InBucket(bucket) = {}
    BY <1>2 DEF InBucket
  <2>2. SumFunctionOnSet(Volumes, {}) = 0
    BY SumIs, FS_EmptySet
  <2>. QED
    BY <2>1, <2>2 DEF ShownBefore
<1>6. Ledger(0, 0, 0, 0, 0)
  BY <1>2, <1>4, <1>5 DEF Ledger
<1>7. CoverInv
  BY <1>2 DEF CoverInv
<1>. QED
  BY <1>3, <1>6, <1>7 DEF BillingInv, LedgerInv

\* Every step keeps the books.
LEMMA BillingStep ==
  ASSUME BillingInv, [BillingNext]_billingVars, MaxPulses * 1000 < ULong
  PROVE  BillingInv'
<1>1. BillingTypes /\ LedgerInv /\ CoverInv
  BY DEF BillingInv
<1>2. LedgerInv'
  <2>1. ASSUME NEW n \in 0..MaxPulses, Sample(n) PROVE LedgerInv'
    BY <1>1, <2>1, SampleBooks
  <2>2. ASSUME NEW arrives \in BOOLEAN, Publish(arrives) PROVE LedgerInv'
    BY <1>1, <2>2, PublishBooks
  <2>3. CASE Save
    BY <1>1, <2>3, SaveBooks
  <2>4. CASE Restart
    BY <1>1, <2>4, RestartBooks
  <2>5. CASE TornSave
    BY <1>1, <2>5, TornBooks
  <2>6. CASE NextBucket
    BY <1>1, <2>6, BucketBooks
  <2>7. CASE UNCHANGED billingVars
    <3>1. UNCHANGED <<flowed, total, interval, sampled, saved, saving, restarts, tears>>
      BY <2>7 DEF billingVars
    <3>2. ShownBefore' = ShownBefore /\ InBucket(bucket)' = InBucket(bucket)
      <4>1. UNCHANGED <<readings, bucket>>
        BY <2>7 DEF billingVars
      <4>. QED
        BY <4>1, SameRows
    <3>3. PICK c \in Nat, q \in Nat, k \in Nat, m \in Nat, x \in Nat : Ledger(c, q, k, m, x)
      BY <1>1 DEF LedgerInv
    <3>4. Ledger(c, q, k, m, x)'
      BY <3>1, <3>2, <3>3 DEF Ledger
    <3>. QED
      BY <3>4 DEF LedgerInv
  <2>. QED
    BY <2>1, <2>2, <2>3, <2>4, <2>5, <2>6, <2>7 DEF BillingNext
<1>3. BillingTypes' /\ CoverInv'
  BY <1>1, BillingTypesStep, CoverStep
<1>. QED
  BY <1>2, <1>3 DEF BillingInv

\* The books are kept always.
LEMMA BooksAreKept == ASSUME MaxPulses * 1000 < ULong PROVE BillingSpec => []BillingInv
  BY BillingStarts, BillingStep, PTL DEF BillingSpec

\* A household is never shown more water than its meter counted, plus once more what a torn
\* save threw away and a millilitre for each restart.
THEOREM HouseholdsAreNotOvercharged ==
  ASSUME MaxPulses * 1000 < ULong
  PROVE  BillingSpec => []ShownAgainAtMostOnce
<1>1. BillingInv => ShownAgainAtMostOnce
  BY LedgerShows DEF BillingInv
<1>. QED
  BY <1>1, BooksAreKept, PTL

\* The water between two readings of a bucket is shown in full while the meter keeps its
\* total.
THEOREM BucketsAreCovered ==
  ASSUME MaxPulses * 1000 < ULong
  PROVE  BillingSpec => []BucketIsCovered
<1>1. BillingInv => BucketIsCovered
  BY Covered DEF BillingInv
<1>. QED
  BY <1>1, BooksAreKept, PTL
-----------------------------------------------------------------------------
(* Commands                                                                *)
\* What is least and greatest in a set of numbers.
LEMMA Ends ==
  ASSUME NEW T, T \subseteq Nat, NEW m \in T
  PROVE  /\ (\A y \in T : m <= y) => Min(T) = m
         /\ (\A y \in T : m >= y) => Max(T) = m
<1>1. ASSUME \A y \in T : m <= y PROVE Min(T) = m
  <2>1. \A x \in T : (\A y \in T : x <= y) => x = m
    BY <1>1
  <2> QED BY <1>1, <2>1 DEF Min
<1>2. ASSUME \A y \in T : m >= y PROVE Max(T) = m
  <2>1. \A x \in T : (\A y \in T : x >= y) => x = m
    BY <1>2
  <2> QED BY <1>2, <2>1 DEF Max
<1>. QED
  BY <1>1, <1>2

\* A bounded set of numbers that is not empty has a greatest one.
LEMMA GreatestNumber ==
  ASSUME NEW T, T \subseteq Nat, T # {}, NEW n \in Nat, \A x \in T : x <= n
  PROVE  \E x \in T : \A y \in T : x >= y
<1> DEFINE U == {u \in Nat : n - u \in T}
<1>1. U \subseteq Nat /\ U # {}
  <2>1. PICK x \in T : x \in Nat /\ x <= n
    OBVIOUS
  <2>2. n - x \in Nat /\ n - (n - x) = x
    BY <2>1
  <2> QED BY <2>2
<1>2. PICK u \in U : \A y \in U : u <= y
  <2> HIDE DEF U
  <2> QED BY <1>1, LeastNumber
<1>3. n - u \in T /\ u \in Nat
  OBVIOUS
<1>4. ASSUME NEW y \in T PROVE n - u >= y
  <2>1. n - y \in Nat /\ n - (n - y) = y /\ y \in Nat
    OBVIOUS
  <2>2. u <= n - y
    BY <1>2, <2>1
  <2> QED BY <1>3, <2>1, <2>2
<1>. QED
  BY <1>3, <1>4

\* A slice of a sequence.
LEMMA Slice ==
  ASSUME NEW p \in Seq(STRING), NEW i \in Nat \ {0}, NEW j \in 0..Len(p), i <= j + 1
  PROVE  /\ SubSeq(p, i, j) \in Seq(STRING)
         /\ Len(SubSeq(p, i, j)) = (j - i) + 1
         /\ DOMAIN SubSeq(p, i, j) = 1..((j - i) + 1)
         /\ \A x \in 1..((j - i) + 1) : SubSeq(p, i, j)[x] = p[(i + x) - 1]
  BY SubSeqProperties

\* Where the first of a symbol is, strstr and strchr find it.
LEMMA FirstOf ==
  ASSUME NEW p \in Seq(STRING), NEW w, NEW k \in 1..Len(p), p[k] = w,
         \A i \in 1..(k - 1) : p[i] # w
  PROVE  Holds(p, w) /\ Behind(p, w) = SubSeq(p, k + 1, Len(p))
<1> DEFINE T == {i \in DOMAIN p : p[i] = w}
<1>1. DOMAIN p = 1..Len(p) /\ Len(p) \in Nat
  OBVIOUS
<1>2. T \subseteq Nat /\ k \in T
  BY <1>1
<1>3. \A y \in T : k <= y
  BY <1>1
<1>4. Min(T) = k
  <2> HIDE DEF T
  <2> QED BY <1>2, <1>3, Ends
<1>. QED
  BY <1>1, <1>4 DEF Holds, Behind

\* Trimming finds the text.
LEMMA TextIs ==
  ASSUME NEW p \in Seq(STRING), NEW i \in DOMAIN p, NEW j \in DOMAIN p, TextAt(p, i, j)
  PROVE  Trimmed(p) = SubSeq(p, i, j)
<1> DEFINE front == {k \in DOMAIN p : p[k] \notin Blanks}
           back == {k \in front : p[k] # NUL}
<1>1. DOMAIN p = 1..Len(p) /\ Len(p) \in Nat
  OBVIOUS
<1>2. front \subseteq Nat /\ i \in front /\ \A y \in front : i <= y
  BY <1>1 DEF TextAt
<1>3. back \subseteq Nat /\ j \in back /\ \A y \in back : j >= y
  BY <1>1 DEF TextAt
<1>4. Min(front) = i
  <2> HIDE DEF front, back
  <2> QED BY <1>2, Ends
<1>5. Max(back) = j
  <2> HIDE DEF front, back
  <2> QED BY <1>3, Ends
<1>6. back # {}
  BY <1>3
<1>. QED
  BY <1>4, <1>5, <1>6 DEF Trimmed

\* Text that begins with something that is no blank and no NUL begins with it when
\* trimmed, whatever comes behind.
LEMMA TrimmedHead ==
  ASSUME NEW p \in Seq(STRING), NEW m \in DOMAIN p, p[m] \notin Blanks \cup {NUL},
         \A k \in DOMAIN p : k < m => p[k] \in Blanks
  PROVE  Trimmed(p) # <<>> /\ Trimmed(p)[1] = p[m]
<1> DEFINE T == {k \in DOMAIN p : p[k] \notin Blanks \cup {NUL}}
<1>1. DOMAIN p = 1..Len(p) /\ Len(p) \in Nat
  OBVIOUS
<1>2. T \subseteq Nat /\ m \in T /\ T # {} /\ \A x \in T : x <= Len(p)
  BY <1>1
<1>3. PICK j \in T : \A y \in T : j >= y
  <2> HIDE DEF T
  <2> QED BY <1>1, <1>2, GreatestNumber
<1>4. j \in DOMAIN p /\ p[j] \notin Blanks \cup {NUL}
      /\ (\A k \in DOMAIN p : j < k => p[k] \in Blanks \cup {NUL})
  BY <1>1, <1>3
<1>5. m <= j
  BY <1>2, <1>3
<1>6. TextAt(p, m, j)
  BY <1>1, <1>4, <1>5 DEF TextAt
<1>7. Trimmed(p) = SubSeq(p, m, j)
  BY <1>4, <1>6, TextIs
<1>8. Len(SubSeq(p, m, j)) = (j - m) + 1 /\ SubSeq(p, m, j)[1] = p[m]
  <2>1. m \in Nat \ {0} /\ j \in 0..Len(p) /\ m <= j + 1 /\ 1 \in 1..((j - m) + 1)
        /\ (m + 1) - 1 = m
    BY <1>1, <1>4, <1>5
  <2> QED BY <2>1, Slice
<1>9. SubSeq(p, m, j) # <<>>
  <2>1. (j - m) + 1 # 0
    BY <1>1, <1>4, <1>5
  <2>2. Len(<<>>) = 0
    OBVIOUS
  <2> QED BY <1>8, <2>1, <2>2, Zenon
<1>. QED
  BY <1>7, <1>8, <1>9

\* Nothing has no bytes.
LEMMA NoBytes == Bytes(<<>>) = 0
<1> DEFINE f == [i \in DOMAIN <<>> |-> IF <<>>[i] = NUL THEN 1 ELSE Len(<<>>[i])]
<1>1. DOMAIN f = {}
  OBVIOUS
<1>2. SumFunctionOnSet(f, {}) = 0
  <2> HIDE DEF f
  <2> QED BY SumIs, FS_EmptySet
<1>. QED
  BY <1>1, <1>2 DEF Bytes, SumFunction

\* What is copied is the front of the text, as far as anything fits.
LEMMA CopyIs ==
  ASSUME NEW s \in Seq(STRING)
  PROVE  \E m \in 0..Len(s) :
           /\ Copied(s) = SubSeq(s, 1, m)
           /\ \A n \in 0..Len(s) :
                Bytes(SubSeq(s, 1, n)) < MsgSize /\ (\A i \in 1..n : s[i] # NUL) => n <= m
<1> DEFINE T == {n \in 0..Len(s) : /\ Bytes(SubSeq(s, 1, n)) < MsgSize
                                   /\ \A i \in 1..n : s[i] # NUL}
<1>1. Len(s) \in Nat
  OBVIOUS
<1>2. 0 \in T
  <2>1. SubSeq(s, 1, 0) = <<>>
    OBVIOUS
  <2>2. 0 < MsgSize
    BY CommandsAssumption
  <2>3. Bytes(SubSeq(s, 1, 0)) < MsgSize
    BY <2>1, <2>2, NoBytes
  <2>4. 0 \in 0..Len(s) /\ \A i \in 1..0 : s[i] # NUL
    BY <1>1
  <2> QED BY <2>3, <2>4
<1>3. T \subseteq Nat /\ T # {} /\ \A x \in T : x <= Len(s)
  BY <1>1, <1>2
<1>4. PICK m \in T : \A y \in T : m >= y
  <2> HIDE DEF T
  <2> QED BY <1>1, <1>3, GreatestNumber
<1>5. Max(T) = m
  <2> HIDE DEF T
  <2> QED BY <1>3, <1>4, Ends
<1>6. Copied(s) = SubSeq(s, 1, m)
  BY <1>5 DEF Copied
<1>. QED
  BY <1>4, <1>6

\* The search finds the number, whatever stands before the key and behind the number.
LEMMA NumberFound ==
  ASSUME NEW s \in Seq(STRING), NEW k \in DOMAIN s, NEW c \in DOMAIN s, NEW n \in DOMAIN s,
         NumberAt(s, k, c, n)
  PROVE  /\ HasFloat(Copied(s), ValueKey)
         /\ Float(Copied(s), ValueKey) = Tenths[s[n]]
<1> DEFINE copy == Copied(s)
           rest == Behind(copy, ValueKey)
           tail == Behind(rest, ":")
<1>1. DOMAIN s = 1..Len(s) /\ Len(s) \in Nat /\ k < c /\ c < n
      /\ k \in Nat \ {0} /\ c \in Nat \ {0} /\ n \in Nat \ {0}
  BY DEF NumberAt
<1>2. PICK m \in 0..Len(s) : copy = SubSeq(s, 1, m) /\ n <= m
  <2>1. PICK m \in 0..Len(s) :
          /\ copy = SubSeq(s, 1, m)
          /\ \A x \in 0..Len(s) :
               Bytes(SubSeq(s, 1, x)) < MsgSize /\ (\A i \in 1..x : s[i] # NUL) => x <= m
    BY CopyIs
  <2>2. n \in 0..Len(s) /\ Bytes(SubSeq(s, 1, n)) < MsgSize /\ (\A i \in 1..n : s[i] # NUL)
    BY <1>1 DEF NumberAt
  <2> QED BY <2>1, <2>2
<1>3. /\ copy \in Seq(STRING) /\ Len(copy) = m
      /\ \A x \in 1..m : copy[x] = s[x]
  <2>1. 1 \in Nat \ {0} /\ 1 <= m + 1 /\ (m - 1) + 1 = m /\ \A x \in 1..m : (1 + x) - 1 = x
    OBVIOUS
  <2> QED BY <1>2, <2>1, Slice
<1> HIDE DEF copy
<1>4. Holds(copy, ValueKey) /\ rest = SubSeq(copy, k + 1, m)
  <2>1. k \in 1..Len(copy) /\ copy[k] = ValueKey
    BY <1>1, <1>2, <1>3 DEF NumberAt
  <2>2. \A i \in 1..(k - 1) : copy[i] # ValueKey
    BY <1>1, <1>2, <1>3 DEF NumberAt
  <2> QED BY <1>3, <2>1, <2>2, FirstOf
<1>5. /\ rest \in Seq(STRING) /\ Len(rest) = m - k
      /\ \A x \in 1..(m - k) : rest[x] = s[k + x]
  <2>1. /\ k + 1 \in Nat \ {0} /\ m \in 0..Len(copy) /\ k + 1 <= m + 1
        /\ (m - (k + 1)) + 1 = m - k
        /\ \A x \in 1..(m - k) : ((k + 1) + x) - 1 = k + x /\ k + x \in 1..m
    BY <1>1, <1>2, <1>3
  <2> QED BY <1>3, <1>4, <2>1, Slice
<1> HIDE DEF rest
<1>6. Holds(rest, ":") /\ tail = SubSeq(rest, (c - k) + 1, m - k)
  <2>1. c - k \in 1..Len(rest) /\ k + (c - k) = c
    BY <1>1, <1>2, <1>5
  <2>2. rest[c - k] = ":"
    BY <1>5, <2>1 DEF NumberAt
  <2>3. \A i \in 1..((c - k) - 1) : rest[i] # ":"
    <3>1. TAKE i \in 1..((c - k) - 1)
    <3>2. i \in 1..(m - k) /\ k < k + i /\ k + i < n /\ k + i # c /\ k + i \in 1..n
      BY <1>1, <1>2
    <3>3. s[k + i] \in Blanks
      BY <3>2 DEF NumberAt
    <3> QED BY <1>5, <3>2, <3>3 DEF Blanks
  <2> QED BY <1>5, <2>1, <2>2, <2>3, FirstOf
<1>7. /\ tail \in Seq(STRING) /\ Len(tail) = m - c
      /\ \A x \in 1..(m - c) : tail[x] = s[c + x]
  <2>1. /\ (c - k) + 1 \in Nat \ {0} /\ m - k \in 0..Len(rest) /\ (c - k) + 1 <= (m - k) + 1
        /\ ((m - k) - ((c - k) + 1)) + 1 = m - c
    BY <1>1, <1>2, <1>5
  <2>2. /\ tail \in Seq(STRING) /\ Len(tail) = m - c
        /\ \A x \in 1..(m - c) : tail[x] = rest[(((c - k) + 1) + x) - 1]
    <3> DEFINE a == (c - k) + 1
               z == m - k
    <3>1. a \in Nat \ {0} /\ z \in 0..Len(rest) /\ a <= z + 1
      BY <2>1
    <3>2. (z - a) + 1 = m - c /\ tail = SubSeq(rest, a, z)
      BY <1>6, <2>1
    <3> HIDE DEF a, z, tail
    <3>3. /\ tail \in Seq(STRING) /\ Len(tail) = m - c
          /\ \A x \in 1..(m - c) : tail[x] = rest[(a + x) - 1]
      BY <1>5, <3>1, <3>2, Slice
    <3> QED BY <3>3 DEF a
  <2>3. \A x \in 1..(m - c) : /\ (((c - k) + 1) + x) - 1 = (c - k) + x
                              /\ (c - k) + x \in 1..(m - k)
                              /\ k + ((c - k) + x) = c + x
    BY <1>1, <1>2
  <2> HIDE DEF tail
  <2> QED BY <1>5, <2>2, <2>3
<1> HIDE DEF tail
<1>8. Trimmed(tail) # <<>> /\ Trimmed(tail)[1] = s[n]
  <2>1. n - c \in DOMAIN tail /\ n - c \in 1..(m - c) /\ c + (n - c) = n
    BY <1>1, <1>2, <1>7
  <2>2. tail[n - c] = s[n]
    BY <1>7, <2>1
  <2>3. s[n] \notin Blanks \cup {NUL}
    BY DEF NumberAt, Tenths, Blanks, NUL
  <2>4. \A x \in DOMAIN tail : x < n - c => tail[x] \in Blanks
    <3>1. TAKE x \in DOMAIN tail
    <3>2. SUFFICES ASSUME x < n - c PROVE tail[x] \in Blanks
      OBVIOUS
    <3>3. x \in 1..(m - c) /\ c + x \in 1..n /\ k < c + x /\ c + x < n /\ c + x # c
      BY <1>1, <1>2, <1>7, <3>2
    <3> QED BY <1>7, <3>3 DEF NumberAt
  <2> QED BY <1>7, <2>1, <2>2, <2>3, <2>4, TrimmedHead
<1>9. s[n] \in DOMAIN Tenths
  BY DEF NumberAt
<1>10. Atof(tail) = Tenths[s[n]]
  BY <1>8, <1>9 DEF Atof
<1>. QED
  BY <1>4, <1>6, <1>10 DEF HasFloat, Float, copy, rest, tail

\* What the code makes of a payload is what the payload means to its sender, for
\* payloads of every length (onMessage, parseCommand, jsonFloat).
THEOREM CommandsUnderstood ==
  ASSUME NEW p \in Seq(STRING), NEW what, Means(p, what)
  PROVE  ParseCommand(Trimmed(p)) = what
<1>1. CASE \E i, j \in DOMAIN p : TextAt(p, i, j) /\ Says(SubSeq(p, i, j), what)
  <2>1. PICK i \in DOMAIN p, j \in DOMAIN p : TextAt(p, i, j) /\ Says(SubSeq(p, i, j), what)
    BY <1>1
  <2> DEFINE s == SubSeq(p, i, j)
  <2>2. Trimmed(p) = s
    BY <2>1, TextIs
  <2>3. s \in Seq(STRING)
    <3>1. i \in Nat \ {0} /\ j \in 0..Len(p) /\ i <= j + 1
      BY <2>1 DEF TextAt
    <3> QED BY <3>1, Slice
  <2>4. Says(s, what)
    BY <2>1
  <2> HIDE DEF s
  <2>5. SUFFICES ParseCommand(s) = what
    BY <2>2
  <2>a. \A w : <<w>>[1] = w
    OBVIOUS
  <2>6. CASE s \in {<<"on">>, <<"open">>, <<"1">>} /\ what = "on"
    <3>1. ~(s \in {<<"off">>, <<"close">>, <<"0">>}) /\ s[1] # "{"
      <4>1. s[1] \in {"on", "open", "1"}
        BY <2>6, <2>a
      <4>2. s \in {<<"off">>, <<"close">>, <<"0">>} => s[1] \in {"off", "close", "0"}
        BY <2>a
      <4> QED BY <4>1, <4>2
    <3> QED BY <2>6, <3>1, Zenon DEF ParseCommand
  <2>7. CASE s \in {<<"off">>, <<"close">>, <<"0">>} /\ what = "off"
    <3>1. ~(s \in {<<"on">>, <<"open">>, <<"1">>}) /\ s[1] # "{"
      <4>1. s[1] \in {"off", "close", "0"}
        BY <2>7, <2>a
      <4>2. s \in {<<"on">>, <<"open">>, <<"1">>} => s[1] \in {"on", "open", "1"}
        BY <2>a
      <4> QED BY <4>1, <4>2
    <3> QED BY <2>7, <3>1, Zenon DEF ParseCommand
  <2>8. CASE /\ s[1] = "{"
             /\ \E k, c, n \in DOMAIN s :
                  NumberAt(s, k, c, n) /\ what = (IF Tenths[s[n]] >= 5 THEN "on" ELSE "off")
    <3>1. PICK k \in DOMAIN s, c \in DOMAIN s, n \in DOMAIN s :
            NumberAt(s, k, c, n) /\ what = (IF Tenths[s[n]] >= 5 THEN "on" ELSE "off")
      BY <2>8
    <3>2. HasFloat(Copied(s), ValueKey) /\ Float(Copied(s), ValueKey) = Tenths[s[n]]
      BY <2>3, <3>1, NumberFound
    <3>3. \A w \in {"on", "open", "1", "off", "close", "0"} : s # <<w>>
      <4>1. \A w : s = <<w>> => s[1] = w
        BY <2>a, Zenon
      <4> QED BY <2>8, <4>1
    <3>4. Bytes(s) >= 5 /\ s[1] = "{"
      BY <2>8, <3>1 DEF NumberAt
    <3> QED BY <3>1, <3>2, <3>3, <3>4 DEF ParseCommand
  <2>9. CASE /\ \A w \in {"on", "open", "1", "off", "close", "0"} : s # <<w>>
             /\ s[1] = "{" => \A x \in DOMAIN s : s[x] # ValueKey
             /\ what = "none"
    <3>1. PICK m \in 0..Len(s) : Copied(s) = SubSeq(s, 1, m)
      BY <2>3, CopyIs
    <3>2. s[1] = "{" => ~Holds(Copied(s), ValueKey)
      <4>1. 1 \in Nat \ {0} /\ 1 <= m + 1 /\ (m - 1) + 1 = m /\ \A x \in 1..m : (1 + x) - 1 = x
        OBVIOUS
      <4>2. DOMAIN Copied(s) = 1..m /\ \A x \in 1..m : Copied(s)[x] = s[x]
        BY <2>3, <3>1, <4>1, Slice
      <4>3. \A x \in 1..m : x \in DOMAIN s
        BY <2>3
      <4> QED BY <2>9, <4>2, <4>3 DEF Holds
    <3> QED BY <2>9, <3>2 DEF ParseCommand, HasFloat
  <2> QED BY <2>4, <2>6, <2>7, <2>8, <2>9 DEF Says
<1>2. CASE (\A i \in DOMAIN p : p[i] \in Blanks \cup {NUL}) /\ what = "none"
  <2>1. Trimmed(p) = <<>>
    BY <1>2 DEF Trimmed
  <2>2. \A w \in {"on", "open", "1", "off", "close", "0"} : <<>> # <<w>>
    OBVIOUS
  <2>3. ~(Bytes(<<>>) >= 5)
    BY NoBytes
  <2> QED BY <1>2, <2>1, <2>2, <2>3 DEF ParseCommand
<1>. QED
  BY <1>1, <1>2 DEF Means

\* Every payload moves the valve as its sender meant it.
THEOREM ValveObeys == SignatureSpec => []ValveAsAsked
<1>1. SignatureInit => ValveAsAsked
  BY DEF SignatureInit, ValveAsAsked
<1>2. \A o \in Orders : o.does = o.says
  BY SignatureAssumption, CommandsUnderstood DEF Orders
<1>3. ValveAsAsked /\ [SignatureNext]_signatureVars => ValveAsAsked'
  <2> SUFFICES ASSUME ValveAsAsked, [SignatureNext]_signatureVars PROVE ValveAsAsked'
    OBVIOUS
  <2>1. CASE OnCommand
    BY <1>2, <2>1 DEF OnCommand, ValveAsAsked
  <2>2. CASE ~OnCommand
    <3>1. UNCHANGED orders
      BY <2>2 DEF SignatureNext, Boot, OnFingerprint, PutCell, Evaluate, CloudSends,
         Crash, signatureVars
    <3> QED BY <3>1 DEF orders, ValveAsAsked
  <2> QED BY <2>1, <2>2
<1>. QED
  BY <1>1, <1>3, PTL DEF SignatureSpec
=============================================================================
