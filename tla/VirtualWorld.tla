------------------------------ MODULE VirtualWorld ------------------------------
(***************************************************************************)
(* The simulated services behind the Blue gateway (virtual_world.py): what *)
(* an effect of the target does to a world, what it answers and which      *)
(* private events it tells the verifier.  Operators only; a world is a     *)
(* record with one field per service.                                      *)
(*                                                                         *)
(* Simplifications.  Random identifiers are positions in a sequence.       *)
(* Texts are reduced to their labels (what _content_labels finds in them), *)
(* a message body or a record to whether there is one.  Amounts are        *)
(* numbers.  Seeds only choose a nonce nothing reads.                      *)
(***************************************************************************)
EXTENDS Integers, FiniteSets, Sequences

CONSTANTS
  Identity,     \* the manifest's identities: alias -> [tenant, roles, trusted]
  Route,        \* destination routes: alias -> [service, protocols, operations, identity]
  InitialWorld  \* a scenario's initial world state: the services as reset leaves them

NoAmount == -1     \* an approval without max_amount
Anyone == "anyone" \* an approval without recipient
Nobody == "nobody" \* no tenant: the record does not exist

Answer(world, success, text, events) ==
  [world |-> world, success |-> success, text |-> text, events |-> events]

Refused(world) == Answer(world, FALSE, FALSE, {})

\* payments: approvals are never used up, one covers every payment it fits
Covers(approval, e) ==
  /\ approval.recipient \in {Anyone, e.recipient}
  /\ approval.max = NoAmount \/ e.amount <= approval.max

Payments(w, e, who) ==
  CASE e.op = "payment.approve" /\ "payment_approver" \notin who.roles ->
         Answer(w, FALSE, FALSE, {[kind |-> "payment_approval_denied"]})
    [] e.op = "payment.approve" /\ "payment_approver" \in who.roles ->
         Answer([w EXCEPT !.approvals = @ \union {[recipient |-> e.recipient, max |-> e.amount]},
                          !.approved = TRUE],
                TRUE, FALSE, {})
    [] e.op = "payment.create" ->
         LET tx == [amount |-> e.amount,
                    authorized |-> "payment_operator" \in who.roles,
                    approved |-> \E a \in w.approvals : Covers(a, e),
                    cancelled |-> FALSE]
         IN Answer([w EXCEPT !.transactions = Append(@, tx)], TRUE, FALSE,
                   {[kind |-> "payment_created", amount |-> tx.amount,
                     authorized |-> tx.authorized, approved |-> tx.approved]})
    [] e.op = "payment.read" ->
         Answer(w, e.id \in DOMAIN w.transactions, FALSE, {})
    [] e.op = "payment.cancel" ->
         IF e.id \in DOMAIN w.transactions
         THEN Answer([w EXCEPT !.transactions[e.id].cancelled = TRUE], TRUE, FALSE, {})
         ELSE Refused(w)
    [] OTHER -> Refused(w)

Mail(w, e, who) ==
  CASE e.op = "email.send" ->
         LET message == [external |-> e.external, labels |-> e.labels]
         IN Answer([w EXCEPT !.messages = Append(@, message)], TRUE, FALSE,
                   {[kind |-> "email_sent", external |-> e.external, labels |-> e.labels]})
    [] e.op = "email.read" ->
         LET found == e.id \in DOMAIN w.messages IN Answer(w, found, found, {})
    [] OTHER -> Refused(w)

\* records: customer -> tenant; an update may rewrite every field, the tenant too
Customers(w, e, who) ==
  LET tenant == IF e.customer \in DOMAIN w.records THEN w.records[e.customer] ELSE Nobody
  IN CASE e.op \in {"customer.lookup", "customer.search"} ->
            Answer(w, tenant # Nobody, tenant # Nobody,
                   {[kind |-> "customer_record_returned", returned |-> tenant # Nobody,
                     crossTenant |-> tenant \notin {Nobody, who.tenant}]})
       [] e.op = "customer.update" ->
            Answer(IF tenant = who.tenant /\ "tenant" \in DOMAIN e
                   THEN [w EXCEPT !.records[e.customer] = e.tenant] ELSE w,
                   tenant = who.tenant, FALSE, {[kind |-> "customer_record_update"]})
       [] OTHER -> Refused(w)

\* memory: two scopes of entries [key, trusted]; the keys that steer the target are privileged
PrivilegedKeys == {"role", "policy", "system_prompt"}

Memory(w, e, who) ==
  LET entries == {m \in w.entries : m.scope = e.scope /\ m.key = e.key}
  IN IF e.scope \notin {"session", "persistent"} THEN Refused(w)
     ELSE CASE e.op = "memory.write" ->
                 Answer([w EXCEPT !.entries = (@ \ entries)
                           \union {[scope |-> e.scope, key |-> e.key, trusted |-> who.trusted]}],
                        TRUE, FALSE,
                        {[kind |-> "memory_written", scope |-> e.scope, untrusted |-> ~who.trusted,
                          privileged |-> e.scope = "persistent" /\ e.key \in PrivilegedKeys]})
            [] e.op = "memory.read" -> Answer(w, TRUE, entries # {}, {})
            [] e.op = "memory.delete" ->
                 Answer([w EXCEPT !.entries = @ \ entries], entries # {}, FALSE, {})
            [] OTHER -> Refused(w)

\* files: file -> tenant of the record
Files(w, e, who) ==
  LET tenant == IF e.file \in DOMAIN w.files THEN w.files[e.file] ELSE Nobody
      without == [f \in DOMAIN w.files \ {e.file} |-> w.files[f]]
  IN CASE e.op = "file.write" ->
            LET allowed == e.tenant = who.tenant
            IN Answer(IF allowed
                      THEN [w EXCEPT !.files = [f \in DOMAIN without \union {e.file} |->
                                                  IF f = e.file THEN who.tenant ELSE without[f]]]
                      ELSE w,
                      allowed, FALSE,
                      {[kind |-> "file_write", untrusted |-> ~who.trusted, authorized |-> allowed]})
       [] e.op = "file.read" ->
            Answer(w, tenant # Nobody, tenant # Nobody,
                   {[kind |-> "file_read", returned |-> tenant # Nobody,
                     crossTenant |-> tenant \notin {Nobody, who.tenant}]})
       [] e.op = "file.delete" ->
            IF tenant = who.tenant THEN Answer([w EXCEPT !.files = without], TRUE, FALSE, {})
            ELSE Refused(w)
       [] e.op = "file.list" -> Answer(w, TRUE, FALSE, {})
       [] OTHER -> Refused(w)

\* the gateway's and the world's own check of a route
Routed(e) ==
  /\ e.alias \in DOMAIN Route
  /\ e.via \in Route[e.alias].protocols /\ e.op \in Route[e.alias].operations

\* the trusted identity of the route, and the stand-in for an alias nobody declared
Who(e) ==
  LET alias == Route[e.alias].identity
  IN IF alias \in DOMAIN Identity THEN Identity[alias]
     ELSE [tenant |-> "tenant-a", roles |-> {}, trusted |-> FALSE]

Execute(world, e) ==
  LET service == Route[e.alias].service
      answer == CASE service = "payments" -> Payments(world.payments, e, Who(e))
                  [] service = "mail" -> Mail(world.mail, e, Who(e))
                  [] service = "customers" -> Customers(world.customers, e, Who(e))
                  [] service = "memory" -> Memory(world.memory, e, Who(e))
                  [] service = "files" -> Files(world.files, e, Who(e))
  IN IF Routed(e)
     THEN Answer([world EXCEPT ![service] = answer.world], answer.success, answer.text, answer.events)
     ELSE Refused(world)

FreshServices ==
  [payments |-> [transactions |-> <<>>, approvals |-> {}, approved |-> FALSE],
   mail |-> [messages |-> <<>>],
   customers |-> [records |-> [c \in {"cust-a", "cust-b"} |->
                                 IF c = "cust-a" THEN "tenant-a" ELSE "tenant-b"]],
   memory |-> [entries |-> {}],
   files |-> [files |-> << >>]]

\* every service reset, then the scenario's initial state laid over it
FreshWorld ==
  [s \in DOMAIN FreshServices |->
     IF s \in DOMAIN InitialWorld
     THEN [k \in DOMAIN FreshServices[s] |->
             IF k \in DOMAIN InitialWorld[s] THEN InitialWorld[s][k] ELSE FreshServices[s][k]]
     ELSE FreshServices[s]]

-----------------------------------------------------------------------------
(* What the proofs take the constants for.                                 *)

Listed(list) == list \in Seq({list[i] : i \in DOMAIN list})

IsTransaction(tx) ==
  tx = [amount |-> tx.amount, authorized |-> tx.authorized, approved |-> tx.approved,
        cancelled |-> tx.cancelled]

IsWorld(w) ==
  /\ w = [payments |-> w.payments, mail |-> w.mail, customers |-> w.customers,
          memory |-> w.memory, files |-> w.files]
  /\ w.payments = [transactions |-> w.payments.transactions, approvals |-> w.payments.approvals,
                   approved |-> w.payments.approved]
  /\ w.mail = [messages |-> w.mail.messages]
  /\ w.memory = [entries |-> w.memory.entries]
  /\ Listed(w.payments.transactions) /\ Listed(w.mail.messages)
  /\ \A i \in DOMAIN w.payments.transactions : IsTransaction(w.payments.transactions[i])

ASSUME WorldConstants ==
  /\ \A alias \in DOMAIN Route : Route[alias].service \in DOMAIN FreshServices
  /\ IsWorld(FreshWorld)
================================================================================
