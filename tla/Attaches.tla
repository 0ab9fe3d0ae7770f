----------------------------- MODULE Attaches -----------------------------
(***************************************************************************)
(* Attaches of a worker's catalogs, the values that stand for them, and    *)
(* the tickets that restore them (catalog.go: CatalogAttach; crypto.go;    *)
(* catalog_route.go; attach_ticket.go; attach_option.go).                  *)
(*                                                                         *)
(* An attach is a value its client sends with every request.  Over HTTP    *)
(* the value is sealed, with a key that all processes share or that each   *)
(* process draws when it starts.  The cipher is external: an envelope is a *)
(* record that opens under its key and its associated data only.  The      *)
(* processes' clocks may disagree.                                         *)
(***************************************************************************)
EXTENDS Integers, FiniteSets

CONSTANTS
    Processes,
    Principals,
    Domains,        \* how a caller authenticated: a login or a grant
    Deployments,    \* [http, configured, grants, maxTTL, options]
    Offsets,        \* how far a process's clock may be ahead
    Lifetimes,      \* the ttl_seconds a client may ask for
    Skew,           \* attachTicketClockSkew
    MaxTime,
    MaxHeld,        \* attaches and tickets made
    MaxRestarts     \* restarts, of all processes

\* The worker's own catalog, an alias, an alias with discovery metadata, a sub-catalog,
\* a memory catalog and a writable catalog.
Catalogs == {"own", "alias", "info", "sub", "memory", "writable"}
Routes == {"sub", "memory"}

VARIABLES
    deployment,     \* how the worker is served
    now,            \* the true time
    offset,         \* by process, what its clock is ahead
    born,           \* by process, how often it has started again
    states,         \* by process, the attaches whose memory catalog it holds
    attaches,       \* the attaches clients hold: [envelope, caller, catalog, home]
    transactions,   \* the transactions they hold: [envelope, caller, attach]
    tickets         \* the tickets they hold: [key, principal, issued, expires, request]

vars == <<deployment, now, offset, born, states, attaches, transactions, tickets>>

Callers == [domain : Domains, principal : Principals]
Rejected == [rejected |-> TRUE]
clock(p) == now + offset[p]
Held == Cardinality(attaches) + Cardinality(tickets)

---------------------------------------------------------------------------
(* Envelopes *)

httpSigningKey(p) == IF deployment.configured THEN <<"configured", 0>> ELSE <<p, born[p]>>

attachAAD(caller) == <<"attach", caller>>

transactionAAD_AnyAttach(caller, attach) == <<"transaction", caller>>

transactionAAD(caller, attach) == <<"transaction", caller, attach>>

seal(p, aad, plain) ==
    IF deployment.http THEN [key |-> httpSigningKey(p), aad |-> aad, plain |-> plain] ELSE [plain |-> plain]

open(p, aad, envelope) ==
    IF ~deployment.http \/ (envelope.key = httpSigningKey(p) /\ envelope.aad = aad)
    THEN envelope.plain ELSE Rejected

---------------------------------------------------------------------------
(* Options *)

NoOptions == [declared |-> {}, required |-> {}]

\* The lists a catalog has of its own; the worker's is that of its own catalog.
HasOptions(name) == name \in DOMAIN deployment.options

attachOptionsFor(name) == IF HasOptions(name) THEN deployment.options[name] ELSE deployment.options["own"]

validateRequiredAttachOptions(specs, options) == specs.required \subseteq options

\* The catalogs a ticket can name, with the options they advertise.
Sealable == {"own", "info"} \cup Routes

declaredAttachOptions(name) == IF HasOptions(name) THEN deployment.options[name] ELSE NoOptions

---------------------------------------------------------------------------
(* Tickets *)

NoKey == <<"none", 0>>

ticketSigningKey(p) == IF deployment.http /\ deployment.configured THEN httpSigningKey(p) ELSE NoKey

\* 0 asks for the longest lifetime, and is no expiry where there is none.
lifetime(ttl) ==
    IF ttl > 0 /\ (deployment.maxTTL = 0 \/ ttl < deployment.maxTTL) THEN ttl ELSE deployment.maxTTL

sealable(name, options) ==
    /\ name \in Sealable
    /\ options \subseteq declaredAttachOptions(name).declared
    /\ declaredAttachOptions(name).required \subseteq options

mintAttachTicket(p, principal, request, ttl) ==
    [key |-> ticketSigningKey(p), principal |-> principal, request |-> request,
     issued |-> clock(p), expires |-> IF lifetime(ttl) > 0 THEN clock(p) + lifetime(ttl) ELSE 0]

\* seal_attach, of a caller who is logged in, on a worker that hosts it.
sealAttach(p, caller, name, options, ttl) ==
    /\ Held < MaxHeld /\ tickets = {}
    /\ deployment.grants
    /\ ticketSigningKey(p) # NoKey
    /\ sealable(name, options)
    /\ tickets' = tickets \cup
           {mintAttachTicket(p, caller.principal, [name |-> name, options |-> options], ttl)}
    /\ UNCHANGED <<deployment, now, offset, born, states, attaches, transactions>>

OpenAttachTicket_NoSkew(p, ticket, caller) ==
    IF /\ ticket.key = ticketSigningKey(p)
       /\ ticket.principal = caller.principal
       /\ ticket.issued <= clock(p)
       /\ ticket.expires = 0 \/ clock(p) < ticket.expires
    THEN ticket.request ELSE Rejected

\* The ticket binds the principal and not how it authenticated.
OpenAttachTicket(p, ticket, caller) ==
    IF /\ ticket.key = ticketSigningKey(p)
       /\ ticket.principal = caller.principal
       /\ ticket.issued <= clock(p) + Skew
       /\ ticket.expires = 0 \/ clock(p) < ticket.expires + Skew
    THEN ticket.request ELSE Rejected

---------------------------------------------------------------------------
(* Attach *)

\* An alias with discovery metadata has a scope of its own at every attach.
aliasScope(name) == IF name = "info" THEN "scoped" ELSE "named"

\* The value of a new attach before it is minted, or Rejected.
attached(request) ==
    CASE request = Rejected -> Rejected
      [] request # Rejected /\ request.name = "memory" -> [form |-> "routed", name |-> "memory"]
      [] request # Rejected /\ request.name = "sub" ->
             IF validateRequiredAttachOptions(declaredAttachOptions("sub"), request.options)
             THEN [form |-> "routed", name |-> "sub"] ELSE Rejected
      [] request # Rejected /\ request.name = "writable" -> [form |-> "writable", name |-> "writable"]
      [] request # Rejected /\ request.name \in {"own", "alias", "info"} ->
             IF validateRequiredAttachOptions(attachOptionsFor(request.name), request.options)
             THEN [form |-> aliasScope(request.name), name |-> request.name]
             ELSE Rejected

\* mintAttach gives every attach an identity of its own.
mintAttach(p, caller, plain) ==
    seal(p, attachAAD(caller), [uuid |-> Cardinality(attaches), form |-> plain.form, name |-> plain.name])

\* Where what an attach stands for is: a memory catalog's in the process that attached it.
Everywhere == <<"every process", 0>>
homeOf(p, name) == IF name = "memory" THEN <<p, born[p]>> ELSE Everywhere

CatalogAttach(p, caller, request) ==
    /\ Held < MaxHeld
    /\ attached(request) # Rejected
    /\ attaches' = attaches \cup {[envelope |-> mintAttach(p, caller, attached(request)),
                                   caller |-> caller, catalog |-> request.name, home |-> homeOf(p, request.name)]}
    /\ states' = IF request.name = "memory" THEN [states EXCEPT ![p] = @ \cup {Cardinality(attaches)}] ELSE states
    /\ UNCHANGED <<deployment, now, offset, born, transactions, tickets>>

\* An attach of the client's own, and one that a ticket restores.
AttachOptions(p, caller, name, options) == CatalogAttach(p, caller, [name |-> name, options |-> options])

AttachTicket(p, caller, ticket) == CatalogAttach(p, caller, OpenAttachTicket(p, ticket, caller))

openAttach(p, attach) == open(p, attachAAD(attach.caller), attach.envelope)

\* The catalog an opened attach names; an unknown route is the worker's own.
catalogOfAttach(plain) == IF plain.form = "routed" /\ plain.name \notin Routes THEN "own" ELSE plain.name

state(p, plain) == plain.uuid \in states[p]

\* The catalog that answers a catalog request: a routed catalog, then the worker's own
\* handlers.  A memory catalog answers where its state is.
dispatchRouted(p, attach) ==
    LET plain == openAttach(p, attach)
    IN  IF \/ plain = Rejected
           \/ plain.form = "routed" /\ plain.name \notin Routes
           \/ plain.name = "memory" /\ ~state(p, plain)
        THEN Rejected ELSE [catalog |-> catalogOfAttach(plain)]

\* The catalog whose function a call runs.  The calls open the attach for its shard key
\* first, and are refused if it does not open.
lookupAggregate(p, attach) ==
    LET plain == openAttach(p, attach)
    IN  IF plain = Rejected THEN Rejected ELSE [catalog |-> catalogOfAttach(plain)]

\* The opening of a streaming session does not: it goes on with the worker's own catalog.
catalogOfAttachPtr(p, attach) ==
    LET plain == openAttach(p, attach)
    IN  [catalog |-> IF plain = Rejected THEN "own" ELSE catalogOfAttach(plain)]

sealTransactionResult(p, attach, id) ==
    seal(p, transactionAAD(attach.caller, attach.envelope), [id |-> id])

openTransaction(p, attach, envelope) ==
    open(p, transactionAAD(attach.caller, attach.envelope), envelope)

\* A memory catalog begins none: its answer has no transaction.
CatalogTransactionBegin(p, attach) ==
    /\ \A t \in transactions : t.attach # attach
    /\ dispatchRouted(p, attach) \notin {Rejected, [catalog |-> "memory"]}
    /\ transactions' = transactions \cup
           {[envelope |-> sealTransactionResult(p, attach, Cardinality(transactions)),
             caller |-> attach.caller, attach |-> attach]}
    /\ UNCHANGED <<deployment, now, offset, born, states, attaches, tickets>>

Restart(p) ==
    /\ \A q \in Processes : born[q] < MaxRestarts
    /\ born' = [born EXCEPT ![p] = @ + 1]
    /\ states' = [states EXCEPT ![p] = {}]
    /\ UNCHANGED <<deployment, now, offset, attaches, transactions, tickets>>

Tick ==
    /\ now < MaxTime
    /\ now' = now + 1
    /\ UNCHANGED <<deployment, offset, born, states, attaches, transactions, tickets>>

Init ==
    /\ deployment \in Deployments
    /\ now = 1
    /\ offset \in [Processes -> Offsets]
    /\ born = [p \in Processes |-> 0]
    /\ states = [p \in Processes |-> {}]
    /\ attaches = {}
    /\ transactions = {}
    /\ tickets = {}

OptionSets == SUBSET UNION {deployment.options[c].declared : c \in DOMAIN deployment.options}

Next ==
    \/ \E p \in Processes, caller \in Callers, name \in Catalogs, options \in OptionSets :
           AttachOptions(p, caller, name, options)
    \/ \E p \in Processes, caller \in Callers, ticket \in tickets : AttachTicket(p, caller, ticket)
    \/ \E p \in Processes, caller \in Callers, name \in Catalogs, options \in OptionSets, ttl \in Lifetimes :
           sealAttach(p, caller, name, options, ttl)
    \/ \E p \in Processes, attach \in attaches : CatalogTransactionBegin(p, attach)
    \/ \E p \in Processes : Restart(p)
    \/ Tick

Spec == Init /\ [][Next]_vars

---------------------------------------------------------------------------
(* Properties *)

\* An attach means the catalog it was made for, to every process and after every restart,
\* or is refused.  It is refused where the key it was sealed with is not known, and catalog
\* requests of a memory catalog also where its state is not.  Only the opening of a streaming
\* session takes an attach it cannot open for the worker's own catalog.  A transaction opens
\* with the attach it was begun in and no other (unaryCatalog, dispatchRouted,
\* MemoryCatalog.state, lookupAggregate, openTransaction).
AttachesLast ==
    \A p \in Processes, a \in attaches :
        LET known == ~deployment.http \/ deployment.configured \/ a.envelope.key = <<p, born[p]>>
            here == a.home \in {Everywhere, <<p, born[p]>>}
            meant == [catalog |-> a.catalog]
        IN  /\ dispatchRouted(p, a) = IF known /\ here THEN meant ELSE Rejected
            /\ lookupAggregate(p, a) = IF known THEN meant ELSE Rejected
            /\ known => catalogOfAttachPtr(p, a) = meant
            /\ deployment.http => \A t \in transactions :
                   openTransaction(p, a, t.envelope) # Rejected => t.attach = a
            /\ deployment.configured \/ ~deployment.http => \A t \in transactions :
                   t.attach = a => openTransaction(p, a, t.envelope) # Rejected

\* A ticket attaches what its user attached, with the options they gave, in any process,
\* after any restart and however the same principal has authenticated, from the moment it
\* is sealed until it expires; and in no process once the skew allowed to clocks is over
\* too (sealAttach, OpenAttachTicket).
TicketRestores ==
    \A p \in Processes, t \in tickets, domain \in Domains :
        LET caller == [domain |-> domain, principal |-> t.principal]
            opened == OpenAttachTicket(p, t, caller)
        IN  /\ t.expires = 0 \/ now < t.expires => opened = t.request /\ attached(opened) # Rejected
            /\ t.expires # 0 /\ now >= t.expires + Skew => opened = Rejected
===========================================================================
