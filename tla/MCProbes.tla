------------------------------ MODULE MCProbes ------------------------------
(* An instance of Probes for TLC. *)
EXTENDS Probes

TheDefaults == [reliability_retries |-> 2, reliability_concurrency |-> 8, history_dir |-> Home]
TheLimits == [reliability_retries |-> <<0, 5>>, reliability_concurrency |-> <<1, 64>>]

\* Below a limit, no number beside an unknown name, and another directory.
CONSTANT Junk
TheUpdates ==
    {[reliability_retries |-> -1],
     [reliability_concurrency |-> 0, reliability_retries |-> Junk, bogus |-> 1],
     [history_dir |-> "elsewhere"]}

Name == [url |-> "https://www.google.com", is_ip |-> FALSE, family |-> None]
Address == [url |-> "https://1.1.1.1", is_ip |-> TRUE, family |-> "ipv4"]
Other == [url |-> "https://[::1]", is_ip |-> TRUE, family |-> "ipv6"]

\* A run has one job, a tool up to three; both may be left without any.
FewJobs == {{}, {Address}}
ManyJobs == {{}, {Other}, {Name}, {Address, Name}}
OneSite == {Name}

\* Around the smallest size, the default and both ends of the search.
ThePaths == {-1, 67, 68, 69, 784, 1472, 1500, 9000}
\* Below the smallest size, and jumbo frames.
TheSizes == {60, 9000}
=============================================================================
