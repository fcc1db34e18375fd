----------------------------- MODULE EchoServer -----------------------------
(***************************************************************************)
(* projects/high_perf/asio/async_tcp_echo_server.cc: one thread runs the   *)
(* handlers of io_service.run().  There is always one accept pending, and  *)
(* a session object lives as long as a handler that holds `self' does:     *)
(* while its one read is pending.  (The program counts what it receives;   *)
(* the write that would echo it is commented out.)                         *)
(*                                                                         *)
(* The network is external: a client connects, sends, and closes or        *)
(* resets; accepting a connection may fail, and then the connection is     *)
(* lost (it was aborted) or stays in the queue (no descriptor was free).   *)
(***************************************************************************)
EXTENDS Integers

CONSTANTS Clients,
          MaxSend,         \* bound: what one client sends at most
          max_length       \* of data_

ASSUME LengthsAssumption == MaxSend \in Nat /\ max_length \in Nat \ {0}

VARIABLES client,          \* "idle", "open", "closed", "reset"
          backlog,         \* the connections not accepted yet
          sent,            \* what each client sent altogether
          reading,         \* the sessions alive, each with a read pending
          l                \* what each session has counted

echoVars == <<client, backlog, sent, reading, l>>

EchoInit == /\ client = [c \in Clients |-> "idle"]
            /\ backlog = {}
            /\ sent = [c \in Clients |-> 0]
            /\ reading = {}
            /\ l = [c \in Clients |-> 0]

Become(c, what) == client' = [client EXCEPT ![c] = what]

-----------------------------------------------------------------------------
Connect(c) == /\ client[c] = "idle"
              /\ Become(c, "open")
              /\ backlog' = backlog \union {c}
              /\ UNCHANGED <<sent, reading, l>>

Send(c) == /\ client[c] = "open"
           /\ \E n \in 1..MaxSend - sent[c] : sent' = [sent EXCEPT ![c] = @ + n]
           /\ UNCHANGED <<client, backlog, reading, l>>

Finish(c) == /\ client[c] = "open"
             /\ \E how \in {"closed", "reset"} : Become(c, how)
             /\ UNCHANGED <<backlog, sent, reading, l>>

-----------------------------------------------------------------------------
\* The handler of async_accept(): a session starts, unless the accept failed;
\* either way the next accept is started.
do_accept(c) ==
  /\ c \in backlog
  /\ \/ /\ backlog' = backlog \ {c}
        /\ reading' = reading \union {c}
        /\ UNCHANGED client
     \/ /\ backlog' = backlog \ {c}
        /\ Become(c, "reset")
        /\ UNCHANGED reading
     \/ UNCHANGED <<backlog, client, reading>>
  /\ UNCHANGED <<sent, l>>

\* Mutant: no further read is started.
ReadOnce(c) ==
  /\ c \in reading
  /\ l[c] < sent[c]
  /\ \E length \in 1..max_length :
       /\ length <= sent[c] - l[c]
       /\ l' = [l EXCEPT ![c] = @ + length]
  /\ reading' = reading \ {c}
  /\ UNCHANGED <<client, backlog, sent>>

\* The handler of async_read_some() with a part of what has arrived: it
\* counts it and reads on.
do_read(c) ==
  /\ c \in reading
  /\ l[c] < sent[c]
  /\ \E length \in 1..max_length :
       /\ length <= sent[c] - l[c]
       /\ l' = [l EXCEPT ![c] = @ + length]
  /\ UNCHANGED <<client, backlog, sent, reading>>

\* The handler with an error: the end of the stream comes behind its data, a
\* reset at once.  Nothing holds the session any more.
Release(c) ==
  /\ c \in reading
  /\ \/ client[c] = "closed" /\ l[c] = sent[c]
     \/ client[c] = "reset"
  /\ reading' = reading \ {c}
  /\ UNCHANGED <<client, backlog, sent, l>>

Handler(c) == do_accept(c) \/ do_read(c) \/ Release(c)

EchoNext == \E c \in Clients : Connect(c) \/ Send(c) \/ Finish(c) \/ Handler(c)

EchoSpec == EchoInit /\ [][EchoNext]_echoVars

-----------------------------------------------------------------------------
\* async_tcp_echo_server.cc:28: only `self' in a pending handler keeps a
\* session alive.  Whatever order the handlers run in, the session of a client
\* that is not reset is there until the client has closed and all that it
\* sent is counted, and nothing is counted twice.
SessionsKept ==
  \A c \in Clients :
    /\ l[c] <= sent[c]
    /\ c \notin backlog \cap reading
    /\ \/ client[c] \in {"idle", "reset"}
       \/ c \in backlog \cup reading
       \/ client[c] = "closed" /\ l[c] = sent[c]
=============================================================================
