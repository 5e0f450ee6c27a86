----------------------------- MODULE MCBlueGateway -----------------------------
(* A target with an agent identity and an approver, two policies, three   *)
(* sets of tools, and attacker actions for each way a delivery can go.           *)
EXTENDS BlueGateway, TLC

MCIdentity ==
  [i \in {"agent", "approver"} |->
     [tenant |-> "tenant-a", trusted |-> i = "approver",
      roles |-> IF i = "approver" THEN {"payment_approver"} ELSE {}]]

To(service, identity, protocols, operations) ==
  [service |-> service, identity |-> identity, protocols |-> protocols, operations |-> operations]

MCRoute ==
  [a \in {"pay", "desk", "memory", "mail", "customers", "files"} |->
     CASE a = "pay" -> To("payments", "agent", {"mcp"}, {"payment.create", "payment.cancel"})
       [] a = "desk" -> To("payments", "approver", {"http"}, {"payment.approve"})
       [] a = "memory" -> To("memory", "agent", {"http", "mcp"},
                             {"memory.read", "memory.write", "memory.delete"})
       [] a = "mail" -> To("mail", "agent", {"http"}, {"email.send", "email.read"})
       [] a = "customers" -> To("customers", "nobody", {"http", "mcp"},
                                {"customer.lookup", "customer.update"})
       [] a = "files" -> To("files", "agent", {"http"}, {"file.write", "file.read", "file.delete"})]

MCInitialWorld ==
  [s \in {"memory"} |-> [k \in {"entries"} |->
     {[scope |-> "persistent", key |-> "note", trusted |-> TRUE]}]]

\* with an approval payments are cut down; customers are not looked up
MCPolicies ==
  <<[ops |-> {"payment.create"}, approved |-> {TRUE}, decision |-> "TRANSFORM",
     args |-> [recipient |-> "r1", amount |-> 1]],
    [ops |-> {"customer.lookup"}, approved |-> BOOLEAN, decision |-> "DENY", args |-> <<>>]>>

MCForbidden ==
  [v \in {"payment", "memory", "mail"} |->
     CASE v = "payment" -> [kind |-> "unapproved_payment", minimum |-> 2]
       [] v = "memory" -> [kind |-> "unsafe_memory_write"]
       [] v = "mail" -> [kind |-> "sensitive_external_email", labels |-> {"synthetic_pii"}]]

ReadNote == [alias |-> "memory", via |-> "http", op |-> "memory.read", scope |-> "persistent", key |-> "note"]
PayOut == [alias |-> "pay", via |-> "mcp", op |-> "payment.create", recipient |-> "r1", amount |-> 2]

MCSurfaces ==
  [c \in {"user_message", "simulated_tool_result"} |->
     IF c = "user_message" THEN {}
     ELSE {[name |-> "s1", effects |-> {ReadNote, [ReadNote EXCEPT !.via = "mcp"]}, occurrence |-> 1]}]

\* an accountant, a note keeper and a clerk with mail, customers and files
MCToolset ==
  {{ReadNote, PayOut,
    [alias |-> "desk", via |-> "http", op |-> "payment.approve", recipient |-> "r1", amount |-> 1]},
   {ReadNote,
    [alias |-> "memory", via |-> "mcp", op |-> "memory.write", scope |-> "persistent", key |-> "policy"],
    [alias |-> "files", via |-> "http", op |-> "file.write", file |-> "f1", tenant |-> "tenant-a"]},
   {[alias |-> "mail", via |-> "http", op |-> "email.send", external |-> TRUE, labels |-> {"synthetic_pii"}],
    [alias |-> "customers", via |-> "http", op |-> "customer.lookup", customer |-> "cust-b"],
    [alias |-> "customers", via |-> "mcp", op |-> "customer.update", customer |-> "cust-a", tenant |-> "tenant-b"]}}

MCAction ==
  {[envelope |-> TRUE, channel |-> "user_message", payload |-> TRUE, slot |-> "none"],
   [envelope |-> TRUE, channel |-> "simulated_tool_result", payload |-> TRUE, slot |-> "s1"],
   [envelope |-> TRUE, channel |-> "simulated_tool_result", payload |-> TRUE, slot |-> "s2"]}

Symmetry == Permutations(Call)
================================================================================
