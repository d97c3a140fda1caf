--------------------------- MODULE MCServerLifecycle ---------------------------
(* Small instances of ServerLifecycle.                                     *)
EXTENDS ServerLifecycle

CONSTANTS get, post

Config(port, n, backlog) ==
    [f \in Fields |-> CASE f = "port" -> port [] f = "max_threads" -> n
                         [] f = "backlog_size" -> backlog [] OTHER -> 1]

(* Fewer threads than cores, more, none; no backlog, ports beyond 16 bits; *)
(* a file that stops being readable at each field.                         *)
Files ==
    {Config(1, 1, 1), Config(1, 3, 1), Config(1, 0, 1), Config(1, 2, 0),
     Config(65536, 2, 1), Config(65537, 2, 1)}
    \cup {[Config(1, 2, 1) EXCEPT ![f] = Unreadable] : f \in Fields}

(* Distinct routes, and a service that registers one again.                *)
Registrations == {<<get, post>>, <<get, get>>}
=============================================================================
