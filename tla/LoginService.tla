----------------------------- MODULE LoginService -----------------------------
(***************************************************************************)
(* CS_LoginService: clients log in, register and change passwords by name; *)
(* a login is passed on to the gate, which answers where to go.            *)
(*                                                                         *)
(* The users of a group (those whose names begin alike) belong to one      *)
(* handler, which runs on one thread at a time; but the handler of the     *)
(* gate, on another thread, takes users out of the same table.  If both    *)
(* change it at once it is torn, and the model stops there.  A client asks *)
(* once on its connection.                                                 *)
(***************************************************************************)
EXTENDS Integers, Sequences, FiniteSets

CONSTANTS
  Names, Group,  \* names of users, and the group of each
  Clients,       \* _netid of the clients' connections
  DBConnections  \* connections of dblib (5)

Nobody == 0    \* _netid of a user nobody has logged in yet
NoUser == -1   \* no user of that name in the table
Kinds  == {"login", "register", "password"}
Groups == {Group[a] : a \in Names}

VARIABLES
  rows,      \* names in the table of the database
  _users,    \* _netid of the user of each name
  queue,     \* the queues of the groups' handlers: clients
  doing,     \* what the handler of a group is at
  asked,     \* what a client asked for
  answer,    \* what it was answered
  free,      \* database connections that nobody uses
  _isuse, _netid, \* the first of the gates
  gateUp,    \* its connection is there
  toGate, fromGate, \* names on their way
  popping,   \* the name the gate's handler has found, or "none"
  expired,   \* history: names whose user was forgotten after an hour
  torn, crashed

loginVars == <<rows, _users, queue, doing, asked, answer, free, _isuse, _netid, gateUp,
               toGate, fromGate, popping, expired, torn, crashed>>

Idle   == [at |-> "idle"]
NotYet == [kind |-> "none"]

\* gate_server_init does not set _isuse and _netid: they may be anything, and
\* gate_service_conn uses only an entry that says 0.
LoginInit ==
  /\ rows \in {{}, Names}
  /\ _users = [a \in Names |-> NoUser]
  /\ queue = [g \in Groups |-> <<>>] /\ doing = [g \in Groups |-> Idle]
  /\ asked = [n \in Clients |-> NotYet] /\ answer = [n \in Clients |-> "none"]
  /\ free = DBConnections
  /\ _isuse \in {1, 2} /\ _netid \in {"zero", "unset"} /\ gateUp = FALSE
  /\ toGate = <<>> /\ fromGate = <<>> /\ popping = "none"
  /\ expired = {} /\ torn = FALSE /\ crashed = FALSE

Running == ~torn /\ ~crashed

-----------------------------------------------------------------------------
(***************************************************************************)
(* Clients, and the database connections                                   *)
(***************************************************************************)
\* do_user_netmsg, pushmsg_byname.
Ask(n, kind, a) ==
  /\ Running /\ asked[n] = NotYet
  /\ asked' = [asked EXCEPT ![n] = [kind |-> kind, name |-> a]]
  /\ queue' = [queue EXCEPT ![Group[a]] = Append(@, n)]
  /\ UNCHANGED <<rows, _users, doing, answer, free, _isuse, _netid, gateUp, toGate,
                 fromGate, popping, expired, torn, crashed>>

\* A name of one letter closes the connection; letters that are not allowed
\* leave the client without an answer.
AskIllFormed(n) ==
  /\ Running /\ asked[n] = NotYet
  /\ asked' = [asked EXCEPT ![n] = [kind |-> "ill-formed"]]
  /\ \E how \in {"closed", "none"} : answer' = [answer EXCEPT ![n] = how]
  /\ UNCHANGED <<rows, _users, queue, doing, free, _isuse, _netid, gateUp, toGate,
                 fromGate, popping, expired, torn, crashed>>

\* _get_dbconnection meets a connection that nobody used for a year: it is
\* closed and stays marked as used.
ConnExpires ==
  /\ Running /\ free > 0
  /\ free' = free - 1
  /\ UNCHANGED <<rows, _users, queue, doing, asked, answer, _isuse, _netid, gateUp, toGate,
                 fromGate, popping, expired, torn, crashed>>

-----------------------------------------------------------------------------
(***************************************************************************)
(* The handler of a group                                                  *)
(***************************************************************************)
Begins(g, kind) ==
  /\ Running /\ doing[g] = Idle /\ queue[g] # <<>>
  /\ asked[Head(queue[g])].kind = kind
  /\ queue' = [queue EXCEPT ![g] = Tail(@)]

Client(g)  == Head(queue[g])
AskedFor(g) == asked[Client(g)].name

\* tcp_sendmsg to the client.
Answers(n, what) == answer' = [answer EXCEPT ![n] = what]

\* The handler is done with its client, whom it answers.
Ends(g, what) == Answers(doing[g].client, what) /\ doing' = [doing EXCEPT ![g] = Idle]

Goes(g, n, where) == doing' = [doing EXCEPT ![g] = [at |-> where, client |-> n]]

\* What the other thread is at in the same table.
Popping(g) == popping # "none" /\ Group[popping] = g

\* handle_usermsg_login, _load_user_cache: the user is in the table, or the row
\* is asked for, or there is no connection to ask with.
LoginKnown(g) ==
  /\ Begins(g, "login")
  /\ _users[AskedFor(g)] # NoUser
  /\ Goes(g, Client(g), "found")
  /\ UNCHANGED <<rows, _users, asked, answer, free, _isuse, _netid, gateUp, toGate,
                 fromGate, popping, expired, torn, crashed>>

LoginAsksDB(g) ==
  /\ Begins(g, "login")
  /\ _users[AskedFor(g)] = NoUser
  /\ free > 0 /\ free' = free - 1
  /\ Goes(g, Client(g), "loading")
  /\ UNCHANGED <<rows, _users, asked, answer, _isuse, _netid, gateUp, toGate,
                 fromGate, popping, expired, torn, crashed>>

LoginNoConn(g) ==
  /\ Begins(g, "login")
  /\ _users[AskedFor(g)] = NoUser
  /\ free = 0
  /\ Answers(Client(g), "unknown")
  /\ UNCHANGED <<rows, _users, doing, asked, free, _isuse, _netid, gateUp, toGate,
                 fromGate, popping, expired, torn, crashed>>

\* The row is there: add_user, which the gate's handler may meet.
LoginLoaded(g) ==
  /\ Running /\ doing[g].at = "loading"
  /\ LET a == asked[doing[g].client].name IN
       /\ a \in rows
       /\ _users' = [_users EXCEPT ![a] = Nobody]
  /\ torn' \in {FALSE, Popping(g)}
  /\ free' = free + 1
  /\ Goes(g, doing[g].client, "found")
  /\ UNCHANGED <<rows, queue, asked, answer, _isuse, _netid, gateUp, toGate,
                 fromGate, popping, expired, crashed>>

\* There is none, or the database fails.
LoginUnknown(g) ==
  /\ Running /\ doing[g].at = "loading"
  /\ free' = free + 1
  /\ Ends(g, "unknown")
  /\ UNCHANGED <<rows, _users, queue, asked, _isuse, _netid, gateUp, toGate,
                 fromGate, popping, expired, torn, crashed>>

\* The user, who may have been taken out by now, gets the client's connection;
\* then gate_service_call, which without a gate does nothing.  A gate that has
\* not yet connected may have any _netid.
LoginCallsGate(g) ==
  /\ Running /\ doing[g].at = "found"
  /\ LET n == doing[g].client a == asked[n].name IN
       /\ _users' = [_users EXCEPT ![a] = IF @ = NoUser THEN @ ELSE n]
       /\ crashed' = (_isuse = 1 /\ _netid = "unset")
       /\ IF _isuse = 1 /\ _netid = "gate" /\ gateUp
          THEN toGate' = Append(toGate, a) /\ Answers(n, "asked")
          ELSE UNCHANGED toGate /\ Answers(n, "dropped")
  /\ doing' = [doing EXCEPT ![g] = Idle]
  /\ UNCHANGED <<rows, queue, asked, free, _isuse, _netid, gateUp,
                 fromGate, popping, expired, torn>>

\* handle_usermsg_register: without a connection or with a failing query the
\* name is taken to be new; if it is not, the answer is the same as for a new one.
RegisterAsks(g) ==
  /\ Begins(g, "register")
  /\ \/ free > 0 /\ Goes(g, Client(g), "checking") /\ free' = free - 1
     \/ free = 0 /\ Goes(g, Client(g), "new") /\ UNCHANGED free
  /\ UNCHANGED <<rows, _users, asked, answer, _isuse, _netid, gateUp, toGate,
                 fromGate, popping, expired, torn, crashed>>

RegisterChecks(g) ==
  /\ Running /\ doing[g].at = "checking"
  /\ free' = free + 1
  /\ \/ asked[doing[g].client].name \in rows /\ Ends(g, "ok")
     \/ Goes(g, doing[g].client, "new") /\ UNCHANGED answer
  /\ UNCHANGED <<rows, _users, queue, asked, _isuse, _netid, gateUp, toGate,
                 fromGate, popping, expired, torn, crashed>>

\* do_sql takes and gives back a connection.
RegisterInserts(g) ==
  /\ Running /\ doing[g].at = "new"
  /\ \/ /\ free > 0
        /\ rows' = rows \cup {asked[doing[g].client].name}
        /\ Ends(g, "ok")
     \/ Ends(g, "failed") /\ UNCHANGED rows
  /\ UNCHANGED <<_users, queue, asked, free, _isuse, _netid, gateUp, toGate,
                 fromGate, popping, expired, torn, crashed>>

\* handle_usermsg_password updates whatever row has the name, if any.
Password(g) ==
  /\ Begins(g, "password")
  /\ \/ free > 0 /\ Answers(Client(g), "ok")
     \/ Answers(Client(g), "failed")
  /\ UNCHANGED <<rows, _users, doing, asked, free, _isuse, _netid, gateUp, toGate,
                 fromGate, popping, expired, torn, crashed>>

\* user_account_doproc forgets users that were not asked for in an hour.
Expire(a) ==
  /\ Running /\ doing[Group[a]] = Idle
  /\ _users[a] # NoUser
  /\ _users' = [_users EXCEPT ![a] = NoUser]
  /\ expired' = expired \cup {a}
  /\ IF popping = a THEN torn' = TRUE ELSE torn' \in {FALSE, Popping(Group[a])}
  /\ UNCHANGED <<rows, queue, doing, asked, answer, free, _isuse, _netid, gateUp, toGate,
                 fromGate, popping, crashed>>

-----------------------------------------------------------------------------
(***************************************************************************)
(* The gate                                                                *)
(***************************************************************************)
\* gate_service_domsg, TCPCONNECT_MSGID: __push_gate_server_netid.
GateConnected ==
  /\ Running /\ _isuse = 1 /\ _netid # "gate"
  /\ _netid' = "gate" /\ gateUp' = TRUE
  /\ UNCHANGED <<rows, _users, queue, doing, asked, answer, free, _isuse, toGate,
                 fromGate, popping, expired, torn, crashed>>

\* The gate's connection breaks, which nobody is told; it is not made again.
GateBreaks ==
  /\ Running /\ gateUp
  /\ gateUp' = FALSE /\ toGate' = <<>>
  /\ UNCHANGED <<rows, _users, queue, doing, asked, answer, free, _isuse, _netid,
                 fromGate, popping, expired, torn, crashed>>

\* The gate answers CONN_GATE_INFO, in the order of the requests.
GateAnswers ==
  /\ Running /\ gateUp /\ toGate # <<>>
  /\ fromGate' = Append(fromGate, Head(toGate)) /\ toGate' = Tail(toGate)
  /\ UNCHANGED <<rows, _users, queue, doing, asked, answer, free, _isuse, _netid, gateUp,
                 popping, expired, torn, crashed>>

\* CONN_GATE_INFO, pop_user_netid_byname: the user is looked up.
GateInfo ==
  /\ Running /\ popping = "none" /\ fromGate # <<>>
  /\ popping' = IF _users[Head(fromGate)] # NoUser THEN Head(fromGate) ELSE "none"
  /\ fromGate' = Tail(fromGate)
  /\ UNCHANGED <<rows, _users, queue, doing, asked, answer, free, _isuse, _netid, gateUp,
                 toGate, expired, torn, crashed>>

\* Broken variant: the user stays in the table.
Removed_Stays(a) == _users

\* del_str_hash
Removed(a) == [_users EXCEPT ![a] = NoUser]

\* Its connection is read, it is taken out, and the client is answered.
GateInfoSent ==
  /\ Running /\ popping # "none"
  /\ answer' = IF _users[popping] \in Clients
               THEN [answer EXCEPT ![_users[popping]] =
                      IF @ = "info" THEN "info again" ELSE "info"]
               ELSE answer
  /\ _users' = Removed(popping)
  /\ popping' = "none"
  /\ UNCHANGED <<rows, queue, doing, asked, free, _isuse, _netid, gateUp, toGate,
                 fromGate, expired, torn, crashed>>

LoginNext ==
  \/ \E n \in Clients :
       \/ AskIllFormed(n)
       \/ \E kind \in Kinds, a \in Names : Ask(n, kind, a)
  \/ ConnExpires
  \/ \E g \in Groups :
       \/ LoginKnown(g) \/ LoginAsksDB(g) \/ LoginNoConn(g) \/ LoginLoaded(g)
       \/ LoginUnknown(g) \/ LoginCallsGate(g)
       \/ RegisterAsks(g) \/ RegisterChecks(g) \/ RegisterInserts(g) \/ Password(g)
  \/ \E a \in Names : Expire(a)
  \/ GateConnected \/ GateBreaks \/ GateAnswers \/ GateInfo \/ GateInfoSent

-----------------------------------------------------------------------------
LoginTypeOK ==
  /\ rows \subseteq Names
  /\ _users \in [Names -> Clients \cup {Nobody, NoUser}]
  /\ \A n \in Clients : asked[n].kind \in Kinds \cup {"none", "ill-formed"}
  /\ free \in 0 .. DBConnections
  /\ _isuse \in {1, 2} /\ _netid \in {"zero", "unset", "gate"}
  /\ popping \in Names \cup {"none"}
  /\ torn \in BOOLEAN /\ crashed \in BOOLEAN

LoginOf(n) == asked[n].kind = "login"

\* Whether somebody else logs in under the same name.
Rival(n) == \E m \in Clients \ {n} : LoginOf(m) /\ asked[m].name = asked[n].name

\* A client gets the gate's answer once, and only for a login under a name that
\* is in the database; and what was registered is a row.  A client the gate was
\* asked for waits for an answer that is under way, unless somebody else has
\* logged in under the name, its user was forgotten, or the gate has gone.
LoginsAccounted ==
  \A n \in Clients :
    LET a == asked[n].name IN
    /\ answer[n] # "info again"
    /\ answer[n] = "info" => LoginOf(n) /\ a \in rows
    /\ (answer[n] = "ok" /\ asked[n].kind = "register") => a \in rows
    /\ (answer[n] = "asked" /\ ~torn /\ gateUp /\ ~Rival(n) /\ a \notin expired) =>
         /\ _users[a] = n
         /\ \/ \E i \in DOMAIN toGate : toGate[i] = a
            \/ \E i \in DOMAIN fromGate : fromGate[i] = a
            \/ popping = a
=============================================================================
