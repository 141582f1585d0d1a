------------------------------ MODULE TcpClient ------------------------------
(***************************************************************************)
(* TcpClient (network/TcpClient.cpp): one thread connects to servers, one  *)
(* after the other, and closes the client or the Socket that connect has   *)
(* returned.  The operating system makes any call fail.                    *)
(***************************************************************************)
EXTENDS Integers, FiniteSets

CONSTANTS
  Addresses,      \* the most addresses that a name resolves to
  Descriptors,    \* the numbers of open files
  MaxLists        \* bound on the lists that getaddrinfo allocates

NoFd == -1
NoList == 0

ASSUME ClientAssumption ==
  /\ Addresses \in Nat \ {0}
  /\ Descriptors \subseteq Nat
  /\ MaxLists \in Nat

VARIABLES
  pc,                  \* the statement that connect executes next
  availableAddresses,  \* the list it points to, NoList for nullptr
  length,              \* how many addresses that list has
  address,             \* the local variable of openSocketWithServer
  selectedAddress,     \* a list and an index in it
  socketFd,            \* the descriptor in the SharedSocket
  peerAddress,         \* the address in the SharedSocket
  lists,               \* the lists allocated by getaddrinfo and not freed
  used,                \* how many it has allocated
  opened,              \* the descriptors that the process has open
  outcome              \* how the last call ended

address_vars == <<availableAddresses, length, lists, used>>
socket_vars == <<socketFd, opened>>
vars == <<pc, address, selectedAddress, peerAddress, outcome,
          address_vars, socket_vars>>

NoAddress == [list |-> NoList, index |-> 0]
AnyAddress == [list : 0..MaxLists, index : 0..Addresses]

TypeOK ==
  /\ pc \in {"idle", "fetch", "open", "connect", "destroyed"}
  /\ availableAddresses \in 0..MaxLists
  /\ length \in 0..Addresses
  /\ address \in 1..(Addresses + 1)
  /\ selectedAddress \in AnyAddress
  /\ socketFd \in Descriptors \cup {NoFd}
  /\ peerAddress \in AnyAddress
  /\ lists \subseteq 1..MaxLists
  /\ used \in 0..MaxLists
  /\ opened \subseteq Descriptors
  /\ outcome \in {"none", "connected", "getaddrinfo", "no socket", "refused"}

Init ==
  /\ pc = "idle" /\ address = 1 /\ outcome = "none"
  /\ availableAddresses = NoList /\ length = 0 /\ lists = {} /\ used = 0
  /\ selectedAddress = NoAddress /\ peerAddress = NoAddress
  /\ socketFd = NoFd /\ opened = {}

-----------------------------------------------------------------------------
(* SharedSocket::close *)
CloseSocket ==
  /\ opened' = opened \ {socketFd}
  /\ socketFd' = NoFd
  /\ peerAddress' = IF socketFd = NoFd THEN peerAddress ELSE NoAddress

FreeAddresses ==
  /\ lists' = lists \ {availableAddresses}
  /\ availableAddresses' = NoList
  /\ UNCHANGED <<length, used>>

CloseIfConnected ==  \* mutant: returns early when there is no connection
  /\ CloseSocket
  /\ IF socketFd = NoFd THEN UNCHANGED address_vars ELSE FreeAddresses

Close == CloseSocket /\ FreeAddresses

CallClose ==
  /\ pc = "idle"
  /\ Close
  /\ outcome' = "none"
  /\ UNCHANGED <<pc, address, selectedAddress>>

(* The program closes the Socket that connect has returned to it. *)
UserCloses ==
  /\ pc = "idle"
  /\ CloseSocket
  /\ outcome' = "none"
  /\ UNCHANGED <<pc, address, selectedAddress, address_vars>>

ConnectKeepsOld ==  \* mutant: without close
  /\ pc = "idle"
  /\ pc' = "fetch"
  /\ UNCHANGED <<address, selectedAddress, peerAddress, outcome,
                 address_vars, socket_vars>>

Connect ==
  /\ pc = "idle"
  /\ Close
  /\ pc' = "fetch"
  /\ UNCHANGED <<address, selectedAddress, outcome>>

Throw(error) == pc' = "idle" /\ outcome' = error

(* fetchAvailableAddresses *)
Fetch ==
  /\ pc = "fetch" /\ used < MaxLists
  /\ used' = used + 1
  /\ availableAddresses' = used'
  /\ lists' = lists \cup {used'}
  /\ length' \in 1..Addresses
  /\ address' = 1
  /\ pc' = "open"
  /\ UNCHANGED <<selectedAddress, peerAddress, outcome, socket_vars>>

FetchFails ==
  /\ pc = "fetch"
  /\ Throw("getaddrinfo")
  /\ UNCHANGED <<address, selectedAddress, peerAddress,
                 address_vars, socket_vars>>

OpenKeepsAddress ==  \* mutant: without setNetworkAddress
  /\ pc = "open" /\ address <= length
  /\ \E fd \in Descriptors \ opened :
       /\ opened' = opened \cup {fd}
       /\ socketFd' = fd
  /\ selectedAddress' = [list |-> availableAddresses, index |-> address]
  /\ pc' = "connect"
  /\ UNCHANGED <<peerAddress, address, outcome, address_vars>>

OpenFreesList ==  \* mutant: calls freeaddrinfo once it has a socket
  /\ pc = "open" /\ address <= length
  /\ \E fd \in Descriptors \ opened :
       /\ opened' = opened \cup {fd}
       /\ socketFd' = fd
  /\ selectedAddress' = [list |-> availableAddresses, index |-> address]
  /\ peerAddress' = selectedAddress'
  /\ FreeAddresses
  /\ pc' = "connect"
  /\ UNCHANGED <<address, outcome>>

(* openSocketWithServer *)
Open ==
  /\ pc = "open" /\ address <= length
  /\ \E fd \in Descriptors \ opened :
       /\ opened' = opened \cup {fd}
       /\ socketFd' = fd
  /\ selectedAddress' = [list |-> availableAddresses, index |-> address]
  /\ peerAddress' = selectedAddress'
  /\ pc' = "connect"
  /\ UNCHANGED <<address, outcome, address_vars>>

OpenFailsAgain ==  \* mutant: the loop does not look for the end of the list
  /\ pc = "open"
  /\ address' = address + 1
  /\ UNCHANGED <<pc, selectedAddress, peerAddress, outcome,
                 address_vars, socket_vars>>

OpenFails ==
  /\ pc = "open" /\ address <= length
  /\ address' = address + 1
  /\ UNCHANGED <<pc, selectedAddress, peerAddress, outcome,
                 address_vars, socket_vars>>

NoSocket ==
  /\ pc = "open" /\ address > length
  /\ Throw("no socket")
  /\ UNCHANGED <<address, selectedAddress, peerAddress,
                 address_vars, socket_vars>>

(* ::connect *)
Connected ==
  /\ pc = "connect"
  /\ pc' = "idle" /\ outcome' = "connected"
  /\ UNCHANGED <<address, selectedAddress, peerAddress, address_vars, socket_vars>>

Refused ==
  /\ pc = "connect"
  /\ Close
  /\ Throw("refused")
  /\ UNCHANGED <<address, selectedAddress>>

Destroy ==
  /\ pc = "idle"
  /\ Close
  /\ pc' = "destroyed"
  /\ UNCHANGED <<address, selectedAddress, outcome>>

Next ==
  \/ CallClose \/ UserCloses \/ Connect
  \/ Fetch \/ FetchFails \/ Open \/ OpenFails \/ NoSocket \/ Connected \/ Refused
  \/ Destroy

Spec == Init /\ [][Next]_vars

-----------------------------------------------------------------------------
(* The assertions of fetchAvailableAddresses and openSocketWithServer      *)
(* (TcpClient.cpp:62, 74) hold in every sequence of calls, also after a    *)
(* connect that threw half way, or a Socket closed by the program.         *)
AssertionsHold ==
  /\ pc = "fetch" => availableAddresses = NoList
  /\ pc \in {"fetch", "open"} => socketFd = NoFd

(* The client has exactly the list and the descriptor that it refers to,   *)
(* and none once it is destroyed: whichever call failed, nothing leaks and *)
(* nothing is released twice (TcpClient.cpp:30, 52, 86).                   *)
NothingLeaks ==
  /\ opened = IF socketFd = NoFd THEN {} ELSE {socketFd}
  /\ lists = IF availableAddresses = NoList THEN {} ELSE {availableAddresses}
  /\ pc = "destroyed" => opened = {} /\ lists = {}

(* NetworkAddress::getIP and getPort: the addresses of getaddrinfo are of   *)
(* IPv4 or IPv6; the record that close fills with zeros is of no family,   *)
(* and fails their assertion.                                              *)
HasIP(networkAddress) == networkAddress # NoAddress

(* The address of a Socket can be printed just when it is open, and is the *)
(* one that connect has selected: no call that failed, no second connect   *)
(* and no close leaves a Socket that names another peer, or an open one    *)
(* that fails the assertions (Socket.cpp:46, TcpClient.cpp:85,             *)
(* NetworkAddress.cpp:35, 52).                                             *)
PeerIsPrintable ==
  /\ HasIP(peerAddress) <=> socketFd # NoFd
  /\ HasIP(peerAddress) => peerAddress = selectedAddress

(* After a connect that succeeded, and until something is closed, the      *)
(* server's address can be read from the list, which is still allocated,   *)
(* and the Socket that is open has a copy of it (TcpClient.cpp:87, 99).    *)
(* Otherwise getServerAddress may read freed memory: its assertion only    *)
(* sees that selectedAddress is not nullptr.                               *)
ServerAddressIsAlive ==
  pc = "idle" /\ outcome = "connected"
    => /\ selectedAddress.list \in lists
       /\ socketFd \in opened /\ peerAddress = selectedAddress
=============================================================================
