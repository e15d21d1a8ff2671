-------------------------- MODULE ListeningSockets --------------------------
(***************************************************************************)
(* The listening sockets of a server: StreamServer::listen, add_socket and *)
(* remove_socket (src/StreamServer.hh) and HTTPServer::add_socket          *)
(* (src/HTTPServer.cc). A behaviour is about one server, of either class.  *)
(*                                                                         *)
(* Both know sockets by descriptor numbers, and numbers are reused: the    *)
(* program may close a descriptor and open another socket under the same   *)
(* number. libevent keeps, for every number, the listeners that were made  *)
(* for it; the kernel watches sockets, and forgets one that is closed      *)
(* (epoll, kqueue). libevent asks the kernel to watch only when a number   *)
(* gets its first listener.                                                *)
(***************************************************************************)
EXTENDS Integers

CONSTANTS
  Class,        \* classes of servers considered
  Fd,           \* descriptor numbers
  Socket,       \* listening sockets, each opened at most once (a bound)
  NoSocket,     \* the number is not open
  MaxListeners  \* bound on the listeners that libevent has for a number

ASSUME SocketsAssumption ==
  /\ Class \subseteq {"StreamServer", "HTTPServer"}
  /\ NoSocket \notin Socket
  /\ MaxListeners \in Nat \ {0}

VARIABLES
  class,      \* the class of the server; never changes
  up,         \* the server exists
  open,       \* the socket under each number
  opened,     \* sockets opened so far
  listeners,  \* the keys of StreamServer::listeners
  listening,  \* number of evconnlisteners that libevent has for a number
  watched,    \* sockets that the kernel watches for libevent
  promised,   \* sockets that are served, as the program was told
  socketsDid  \* what the program and libevent did, from SocketDeeds

socketVars == <<class, up, open, opened, listeners, listening, watched,
                promised, socketsDid>>

(* closed:  the program closed a descriptor that had a listener            *)
(* ignored: evhttp_accept_socket failed, and add_socket returned           *)
SocketDeeds == {"closed", "ignored"}

SocketsTypeOK ==
  /\ class \in Class
  /\ up \in BOOLEAN
  /\ open \in [Fd -> opened \cup {NoSocket}]
  /\ opened \subseteq Socket
  /\ listeners \subseteq Fd
  /\ listening \in [Fd -> 0..MaxListeners]
  /\ watched \subseteq {open[fd] : fd \in Fd} \ {NoSocket}
  /\ promised \subseteq opened
  /\ socketsDid \subseteq SocketDeeds

-----------------------------------------------------------------------------
SocketsInit ==
  /\ class \in Class
  /\ up = TRUE
  /\ open = [fd \in Fd |-> NoSocket]
  /\ opened = {}
  /\ listeners = {}
  /\ listening = [fd \in Fd |-> 0]
  /\ watched = {}
  /\ promised = {}
  /\ socketsDid = {}

(* evconnlistener_new for a number under which s is open.                  *)
NewListener(fd, s) ==
  /\ listening[fd] < MaxListeners
  /\ listening' = [listening EXCEPT ![fd] = @ + 1]
  /\ watched' = IF listening[fd] = 0 THEN watched \cup {s} ELSE watched

(* The program opens a socket of its own.                                  *)
OpenSocket(fd, s) ==
  /\ open[fd] = NoSocket
  /\ s \notin opened
  /\ open' = [open EXCEPT ![fd] = s]
  /\ opened' = opened \cup {s}
  /\ UNCHANGED <<class, up, listeners, listening, watched, promised,
                 socketsDid>>

(* StreamServer::add_socket when it does not throw.                        *)
StreamServerAdds(fd, s) ==
  /\ class = "StreamServer"
  /\ \/ fd \in listeners /\ UNCHANGED <<listeners, listening, watched>>
     \/ /\ fd \notin listeners
        /\ NewListener(fd, s)
        /\ listeners' = listeners \cup {fd}

(* HTTPServer::add_socket: the first call makes the evhttp, every call     *)
(* gives it one more listener, or fails to and says nothing.               *)
HTTPServerAdds(fd, s) ==
  /\ class = "HTTPServer"
  /\ \/ NewListener(fd, s) /\ UNCHANGED socketsDid
     \/ /\ socketsDid' = socketsDid \cup {"ignored"}
        /\ UNCHANGED <<listening, watched>>
  /\ promised' = promised \cup {s}
  /\ UNCHANGED listeners

(* add_socket(fd). When the StreamServer has no memory for the listener    *)
(* the call throws and changes nothing.                                    *)
AddSocket(fd) ==
  /\ up
  /\ open[fd] # NoSocket
  /\ \/ /\ StreamServerAdds(fd, open[fd])
        /\ promised' = promised \cup {open[fd]}
        /\ UNCHANGED socketsDid
     \/ HTTPServerAdds(fd, open[fd])
  /\ UNCHANGED <<class, up, open, opened>>

(* Mutant: the number is returned, and add_socket forgotten.               *)
Listen_OnlyOpens(fd, s) ==
  /\ up /\ class = "StreamServer"
  /\ open[fd] = NoSocket /\ s \notin opened
  /\ open' = [open EXCEPT ![fd] = s]
  /\ opened' = opened \cup {s}
  /\ promised' = promised \cup {s}
  /\ UNCHANGED <<class, up, listeners, listening, watched, socketsDid>>

(* StreamServer::listen opens a socket and adds it. When add_socket throws *)
(* the socket stays open under a number that the caller does not learn.    *)
Listen(fd, s) ==
  /\ up /\ class = "StreamServer"
  /\ open[fd] = NoSocket /\ s \notin opened
  /\ open' = [open EXCEPT ![fd] = s]
  /\ opened' = opened \cup {s}
  /\ \/ /\ StreamServerAdds(fd, s)
        /\ promised' = promised \cup {s}
     \/ /\ fd \notin listeners
        /\ UNCHANGED <<listeners, listening, watched, promised>>
  /\ UNCHANGED <<class, up, socketsDid>>

(* StreamServer::remove_socket: the Listener frees the evconnlistener, and *)
(* leaves the descriptor open.                                             *)
RemoveSocket(fd) ==
  /\ up /\ class = "StreamServer"
  /\ fd \in listeners
  /\ listeners' = listeners \ {fd}
  /\ listening' = [listening EXCEPT ![fd] = @ - 1]
  /\ watched' = IF listening[fd] = 1 THEN watched \ {open[fd]} ELSE watched
  /\ promised' = promised \ {open[fd]}
  /\ UNCHANGED <<class, up, open, opened, socketsDid>>

(* The program closes a descriptor; nobody tells the server.               *)
CloseDescriptor(fd) ==
  /\ open[fd] # NoSocket
  /\ open' = [open EXCEPT ![fd] = NoSocket]
  /\ watched' = watched \ {open[fd]}
  /\ promised' = promised \ {open[fd]}
  /\ socketsDid' = socketsDid
                     \cup {d \in {"closed"} : up /\ listening[fd] > 0}
  /\ UNCHANGED <<class, up, opened, listeners, listening>>

(* The numbers that the server closes when it is destroyed: an evhttp      *)
(* those of all its listeners, a StreamServer none.                        *)
Closed ==
  IF class = "HTTPServer" THEN {fd \in Fd : listening[fd] > 0} ELSE {}

DestroyServer ==
  /\ up
  /\ up' = FALSE
  /\ listeners' = {}
  /\ listening' = [fd \in Fd |-> 0]
  /\ open' = [fd \in Fd |-> IF fd \in Closed THEN NoSocket ELSE open[fd]]
  /\ watched' = {}
  /\ promised' = {}
  /\ UNCHANGED <<class, opened, socketsDid>>

SocketsNext ==
  \/ \E fd \in Fd, s \in Socket : OpenSocket(fd, s) \/ Listen(fd, s)
  \/ \E fd \in Fd : AddSocket(fd) \/ RemoveSocket(fd) \/ CloseDescriptor(fd)

-----------------------------------------------------------------------------
(* The sockets that are served are those that the program was told are: a  *)
(* socket that add_socket or listen accepted is served for as long as it   *)
(* is open and not removed, and no other is, whatever is added twice or    *)
(* removed. Unless the program closed a descriptor behind the server's     *)
(* back (its number keeps a listener that hears nothing any more, and      *)
(* StreamServer refuses the number without a word), or, in an HTTPServer,  *)
(* the failure of libevent was ignored.                                    *)
ServedAsPromised ==
  watched = promised \/ socketsDid \cap {"closed", "ignored"} # {}

(* libevent has one listener for each key of the map of a StreamServer and *)
(* no others: none is leaked.                                              *)
OneListenerEach ==
  class = "StreamServer" =>
    \A fd \in Fd : listening[fd] = (IF fd \in listeners THEN 1 ELSE 0)

=============================================================================
