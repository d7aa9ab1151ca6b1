------------------------------- MODULE Portal -------------------------------
(***************************************************************************)
(* The household portal's accounts and addresses: register, login, logout  *)
(* and address, each a sequence of awaits between which requests of other  *)
(* browsers run.  A query commits on its own; there is no transaction.     *)
(*                                                                         *)
(* A person is their email address and knows its password.                 *)
(***************************************************************************)
EXTENDS Integers

CONSTANTS
  People,    \* email addresses, each with its owner
  Imeis,     \* meters
  Places,    \* street addresses and places on the map: geocoding one gives that place
  Forms,     \* what requests carry: <<an address or none, a location or none>>; a
             \* registration is without a location
  Browsers   \* each has one request at a time, and a cookie

None == "none"

\* A location the address route does not take for one: a coordinate is missing, or the
\* latitude is not a number.
Part == "part"

ASSUME PortalNone == {None, Part} \cap (People \cup Imeis \cup Places) = {}

Addresses == Places \cup {None}
Locations == Places \cup {None, Part}

ASSUME PortalForms == Forms \subseteq Addresses \X Locations

VARIABLES
  faults,  \* in this behaviour queries and the geocoder may fail
  users,   \* portal_users
  meters,  \* meters, as far as the portal inserts them
  homes,   \* portal_meters: a set of [who, imei, address, at], and in "given" the
           \* location that came with the request that wrote the row, no column
  req,     \* the request each browser waits for
  cookie,  \* each browser's session
  answer   \* the last answer each browser got to a registration

vars == <<faults, users, meters, homes, req, cookie, answer>>

Idle ==
  [step |-> "idle", who |-> None, imei |-> None, address |-> None, given |-> None,
   at |-> None]

Init ==
  /\ faults \in BOOLEAN
  /\ users = {} /\ meters = {} /\ homes = {}
  /\ req = [b \in Browsers |-> Idle]
  /\ cookie = [b \in Browsers |-> None]
  /\ answer = [b \in Browsers |-> [to |-> None, said |-> None]]

HasHome(p, i) == \E h \in homes : h.who = p /\ h.imei = i

\* The request goes on, or it is over; a registration is told how it went.
GoOn(b, r) == req' = [req EXCEPT ![b] = r] /\ UNCHANGED answer
Done(b) == GoOn(b, Idle)
Reply(b, what) ==
  /\ req' = [req EXCEPT ![b] = Idle]
  /\ answer' = [answer EXCEPT ![b] = [to |-> req[b].who, said |-> what]]

At(b, step) == req[b].step = step

-----------------------------------------------------------------------------
(* register: ensureMeter, hash, INSERT user, INSERT meter, cookie          *)

Register(b, p, i, a) ==
  /\ At(b, "idle")
  /\ GoOn(b, [Idle EXCEPT !.step = "ensureMeter", !.who = p, !.imei = i, !.address = a])
  /\ UNCHANGED <<users, meters, homes, cookie>>

EnsureMeter(b) ==
  /\ At(b, "ensureMeter")
  /\ meters' = meters \cup {req[b].imei}
  /\ GoOn(b, [req[b] EXCEPT !.step = "insertUser"])
  /\ UNCHANGED <<users, homes, cookie>>

InsertUser(b) ==
  /\ At(b, "insertUser") /\ req[b].who \notin users
  /\ users' = users \cup {req[b].who}
  /\ GoOn(b, [req[b] EXCEPT !.step = "insertHome"])
  /\ UNCHANGED <<meters, homes, cookie>>

\* The unique index on email answers 409.
EmailTaken(b) ==
  /\ At(b, "insertUser") /\ req[b].who \in users
  /\ Reply(b, "taken")
  /\ UNCHANGED <<users, meters, homes, cookie>>

\* The portal_meters row keeps the address as it was typed, without a location.
NewHome(b) ==
  [who |-> req[b].who, imei |-> req[b].imei, address |-> req[b].address, given |-> None,
   at |-> None]

\* Mutant: only a registration with an address gets its row.
InsertHomeWithAddress(b) ==
  /\ At(b, "insertHome")
  /\ homes' = IF req[b].address = None THEN homes ELSE homes \cup {NewHome(b)}
  /\ cookie' = [cookie EXCEPT ![b] = req[b].who]
  /\ Reply(b, "registered")
  /\ UNCHANGED <<users, meters>>

InsertHome(b) ==
  /\ At(b, "insertHome")
  /\ homes' = homes \cup {NewHome(b)}
  /\ cookie' = [cookie EXCEPT ![b] = req[b].who]
  /\ Reply(b, "registered")
  /\ UNCHANGED <<users, meters>>

-----------------------------------------------------------------------------
(* login by email or by IMEI, and logout                                   *)

Login(b, p, i) ==
  /\ At(b, "idle")
  /\ GoOn(b, [Idle EXCEPT !.step = "lookup", !.who = p, !.imei = i])
  /\ UNCHANGED <<users, meters, homes, cookie>>

\* The accounts a login may find: the email's, or any owner of the IMEI.
Found(p, i) ==
  IF i = None THEN {p} \cap users ELSE {h.who : h \in {x \in homes : x.imei = i}}

\* rows[0], in no particular order, and its password hash.
Lookup(b) ==
  /\ At(b, "lookup")
  /\ LET found == Found(req[b].who, req[b].imei)
     IN  \/ found = {} /\ Done(b)
         \/ \E p \in found : GoOn(b, [req[b] EXCEPT !.step = "verify", !.at = p])
  /\ UNCHANGED <<users, meters, homes, cookie>>

\* The password is that of the person who typed it.
Verify(b) ==
  /\ At(b, "verify")
  /\ IF req[b].at = req[b].who
     THEN cookie' = [cookie EXCEPT ![b] = req[b].at] /\ Done(b)
     ELSE UNCHANGED cookie /\ Done(b)
  /\ UNCHANGED <<users, meters, homes>>

Logout(b) ==
  /\ At(b, "idle") /\ cookie[b] # None
  /\ cookie' = [cookie EXCEPT ![b] = None]
  /\ UNCHANGED <<users, meters, homes, req, answer>>

-----------------------------------------------------------------------------
(* address: session, ownsMeter, geocode, UPDATE                            *)

\* A session of an account, the meter chosen on the page, an address, and a location
\* if the request brings one: the page sends none, another client may.
SaveAddress(b, i, a, g) ==
  /\ At(b, "idle") /\ cookie[b] # None
  /\ GoOn(b, [step |-> "owns", who |-> cookie[b], imei |-> i, address |-> a, given |-> g,
              at |-> g])
  /\ UNCHANGED <<users, meters, homes, cookie>>

\* Only an address that came without a location is looked up.
ToGeocode(r) == r.address # None /\ r.given \notin Places

OwnsMeter(b) ==
  /\ At(b, "owns")
  /\ IF HasHome(req[b].who, req[b].imei)
     THEN GoOn(b, [req[b] EXCEPT !.step = IF ToGeocode(req[b]) THEN "geocode" ELSE "update"])
     ELSE Done(b)
  /\ UNCHANGED <<users, meters, homes, cookie>>

\* Nominatim finds the address, or it does not and what was given stays.
Geocode(b) ==
  /\ At(b, "geocode")
  /\ \E at \in {req[b].address} \cup {g \in {req[b].given} : faults} :
       GoOn(b, [req[b] EXCEPT !.step = "update", !.at = at])
  /\ UNCHANGED <<users, meters, homes, cookie>>

\* Mutant: a failed geocode keeps the old location.
MovedKeepingPlace(h, r) ==
  [h EXCEPT !.address = r.address, !.given = r.given, !.at = IF r.at = None THEN h.at ELSE r.at]

\* One UPDATE writes the address and the location, found or not.
Moved(h, r) == [h EXCEPT !.address = r.address, !.given = r.given, !.at = r.at]

UpdateHome(b) ==
  /\ At(b, "update")
  /\ homes' = {IF h.who = req[b].who /\ h.imei = req[b].imei
               THEN Moved(h, req[b])
               ELSE h : h \in homes}
  /\ Done(b)
  /\ UNCHANGED <<users, meters, cookie>>

\* A query throws, or the call of the geocoder: register answers 400, the other routes
\* 500.
QueryFails(b) ==
  /\ faults
  /\ \/ req[b].step \in {"ensureMeter", "insertUser", "insertHome"} /\ Reply(b, "error")
     \/ req[b].step \in {"lookup", "owns", "geocode", "update"} /\ Done(b)
  /\ UNCHANGED <<users, meters, homes, cookie>>

Handle(b) ==
  \/ EnsureMeter(b) \/ InsertUser(b) \/ EmailTaken(b) \/ InsertHome(b)
  \/ Lookup(b) \/ Verify(b) \/ OwnsMeter(b) \/ Geocode(b) \/ UpdateHome(b) \/ QueryFails(b)

Ask(b) ==
  \/ \E p \in People, i \in Imeis, a \in Addresses : <<a, None>> \in Forms /\ Register(b, p, i, a)
  \/ \E p \in People, i \in Imeis \cup {None} : Login(b, p, i)
  \/ \E i \in Imeis, f \in Forms : SaveAddress(b, i, f[1], f[2])
  \/ Logout(b)

Next == UNCHANGED faults /\ \E b \in Browsers : Ask(b) \/ Handle(b)

Spec == Init /\ [][Next]_vars

-----------------------------------------------------------------------------
Steps == {"idle", "ensureMeter", "insertUser", "insertHome", "lookup", "verify", "owns",
          "geocode", "update"}
Answers == {None, "registered", "taken", "error"}

\* The shape of the state, with the keys and references of the tables.
TypeOK ==
  /\ faults \in BOOLEAN
  /\ users \subseteq People /\ meters \subseteq Imeis
  /\ homes \subseteq [who : users, imei : meters, address : Addresses, given : Locations,
                      at : Locations]
  /\ \A g, h \in homes : g.who = h.who /\ g.imei = h.imei => g = h
  /\ req \in [Browsers -> [step : Steps, who : People \cup {None}, imei : Imeis \cup {None},
                           address : Addresses, given : Locations, at : People \cup Locations]]
  /\ cookie \in [Browsers -> users \cup {None}]
  /\ answer \in [Browsers -> [to : People \cup {None}, said : Answers]]

\* Location and address of a meter are always of one request, however requests and the
\* answers of the geocoder interleave: the location that came with the request that
\* stored the address, or what the geocoder found for that very address; never that of
\* an address that has been overwritten (address route, one UPDATE).
PlaceOfOneRequest ==
  \A h \in homes : IF h.given \in Places THEN h.at = h.given
                                        ELSE h.at \in {h.given, h.address}

\* Who is told that an email is taken finds an account with a meter behind it,
\* or one that is being made (register route).
TakenMeansUsable ==
  \A b \in Browsers : answer[b].said = "taken" =>
    \/ \E i \in Imeis : HasHome(answer[b].to, i)
    \/ \E c \in Browsers : At(c, "insertHome") /\ req[c].who = answer[b].to

\* Who registered owns the meter, and stays its owner.
RegisteredOwns ==
  \A b \in Browsers : answer[b].said = "registered" => \E i \in Imeis : HasHome(answer[b].to, i)

\* The two answers of register are true, however registrations of one email
\* interleave: a new owner owns a meter for good, and, unless a query failed between
\* the statements, an email that is taken has a usable account.
AnswersAreTrue == RegisteredOwns /\ (~faults => TakenMeansUsable)
=============================================================================
