----------------------------- MODULE MCStartup -----------------------------
(* Instance of Startup for TLC: two hosts and one database.       *)
EXTENDS Startup, TLC

Plain ==
    [addr |-> "unset", url |-> "db", cert |-> "unset", key |-> "unset",
     email |-> "boot", password |-> "temp",
     memory |-> "unset", iterations |-> "unset", parallelism |-> "unset"]

\* Two hosts whose processes hash with different parameters, and starts that
\* go wrong: no database, half of the bootstrap variables, no thread to hash
\* with.
MCEnvs ==
    {[Plain EXCEPT !.memory = "0", !.iterations = "1"],
     [Plain EXCEPT !.addr = ":1", !.iterations = "2"],
     [Plain EXCEPT !.url = "spaces"],
     [Plain EXCEPT !.email = "spaces"],
     [Plain EXCEPT !.email = "unset", !.password = "spaces", !.cert = "file",
                   !.iterations = "word", !.parallelism = "256"]}

\* Processes start with any environment.
Interchangeable == Permutations(Procs)
=============================================================================
