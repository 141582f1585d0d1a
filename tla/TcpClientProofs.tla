--------------------------- MODULE TcpClientProofs ---------------------------
(***************************************************************************)
(* Theorems about TcpClient, for any number of addresses, descriptors and  *)
(* connects.                                                               *)
(***************************************************************************)
EXTENDS TcpClient, TLAPS

(* While connect has an address selected its list is there.                *)
ListWhileOpening ==
  pc \in {"open", "connect"} => availableAddresses # NoList

(* What ServerAddressIsAlive needs already when ::connect is called.       *)
SelectedIsOpen ==
  pc = "connect" \/ (pc = "idle" /\ outcome = "connected")
    => /\ availableAddresses # NoList
       /\ selectedAddress.list = availableAddresses
       /\ socketFd # NoFd /\ peerAddress = selectedAddress

IInv == TypeOK /\ AssertionsHold /\ NothingLeaks /\ ListWhileOpening /\ SelectedIsOpen

(* The initial state of TcpClient's constructor satisfies it.              *)
LEMMA InitIInv == Init => IInv
  BY ClientAssumption
  DEF Init, IInv, TypeOK, AssertionsHold, NothingLeaks, ListWhileOpening,
      SelectedIsOpen, NoAddress, AnyAddress, NoList, NoFd

(* close leaves no descriptor and no list, from wherever it is called.     *)
LEMMA CloseReleasesAll ==
  ASSUME IInv, Close
  PROVE  /\ opened' = {} /\ lists' = {}
         /\ socketFd' = NoFd /\ availableAddresses' = NoList
         /\ peerAddress' \in AnyAddress
         /\ UNCHANGED <<length, used>>
<1>1. NoAddress \in AnyAddress
  BY ClientAssumption DEF NoAddress, AnyAddress, NoList
<1>2. opened' = {} /\ socketFd' = NoFd /\ peerAddress' \in AnyAddress
  BY <1>1 DEF IInv, TypeOK, NothingLeaks, Close, CloseSocket
<1>3. lists' = {} /\ availableAddresses' = NoList
  BY DEF IInv, NothingLeaks, Close, FreeAddresses
<1>4. UNCHANGED <<length, used>>
  BY DEF Close, FreeAddresses
<1> QED
  BY <1>2, <1>3, <1>4

(* What the proofs use of the assumption on the constants.                  *)
LEMMA Bounds == /\ Addresses \in Nat /\ Addresses > 0 /\ MaxLists \in Nat
                /\ NoFd \notin Descriptors
  BY ClientAssumption DEF NoFd

(* Every step preserves the invariant.                                     *)
LEMMA NextIInv == IInv /\ [Next]_vars => IInv'
<1> SUFFICES ASSUME IInv, [Next]_vars PROVE IInv'
  OBVIOUS
<1>0. TypeOK /\ AssertionsHold /\ NothingLeaks /\ ListWhileOpening /\ SelectedIsOpen
  BY DEF IInv
<1>1. CASE CallClose
  <2>1. /\ opened' = {} /\ lists' = {}
      /\ socketFd' = NoFd /\ availableAddresses' = NoList
      /\ peerAddress' \in AnyAddress
      /\ UNCHANGED <<length, used>>
    BY <1>1, CloseReleasesAll DEF CallClose
  <2>5. TypeOK'
    <3>1. /\ availableAddresses' \in 0..MaxLists /\ lists' \subseteq 1..MaxLists
          /\ opened' \subseteq Descriptors /\ socketFd' \in Descriptors \cup {NoFd}
      BY <2>1, Bounds DEF NoList
    <3>2. /\ pc' \in {"idle", "fetch", "open", "connect", "destroyed"}
          /\ outcome' \in {"none", "connected", "getaddrinfo", "no socket", "refused"}
          /\ UNCHANGED <<address, selectedAddress>>
      BY <1>0, <1>1 DEF TypeOK, CallClose
    <3> QED
      BY <1>0, <2>1, <3>1, <3>2 DEF TypeOK, AnyAddress, NoFd
  <2>6. AssertionsHold'
    BY <1>0, <1>1, <2>1 DEF CallClose, AssertionsHold
  <2>7. NothingLeaks'
    BY <1>0, <1>1, <2>1 DEF CallClose, NothingLeaks, NoList, NoFd
  <2>8. ListWhileOpening'
    BY <1>0, <1>1, <2>1 DEF CallClose, ListWhileOpening, NoList
  <2>9. SelectedIsOpen'
    BY <1>0, <1>1, <2>1 DEF CallClose, SelectedIsOpen, NoList, NoFd
  <2> QED
    BY <2>5, <2>6, <2>7, <2>8, <2>9 DEF IInv
<1>2. CASE UserCloses
  <2>1. NoAddress \in AnyAddress
    BY Bounds DEF NoAddress, AnyAddress, NoList
  <2>5. TypeOK'
    BY Bounds, <1>0, <1>2, <2>1
    DEF UserCloses, CloseSocket, address_vars, TypeOK, NoList, NoFd, AnyAddress
  <2>6. AssertionsHold'
    BY <1>0, <1>2, <2>1 DEF UserCloses, CloseSocket, address_vars, AssertionsHold
  <2>7. NothingLeaks'
    BY <1>0, <1>2, <2>1
    DEF UserCloses, CloseSocket, address_vars, NothingLeaks, NoList, NoFd
  <2>8. ListWhileOpening'
    BY <1>0, <1>2, <2>1
    DEF UserCloses, CloseSocket, address_vars, ListWhileOpening, NoList
  <2>9. SelectedIsOpen'
    BY <1>0, <1>2, <2>1
    DEF UserCloses, CloseSocket, address_vars, SelectedIsOpen, NoList, NoFd
  <2> QED
    BY <2>5, <2>6, <2>7, <2>8, <2>9 DEF IInv
<1>3. CASE Connect
  <2>1. /\ opened' = {} /\ lists' = {}
      /\ socketFd' = NoFd /\ availableAddresses' = NoList
      /\ peerAddress' \in AnyAddress
      /\ UNCHANGED <<length, used>>
    BY <1>3, CloseReleasesAll DEF Connect
  <2>5. TypeOK'
    <3>1. /\ availableAddresses' \in 0..MaxLists /\ lists' \subseteq 1..MaxLists
          /\ opened' \subseteq Descriptors /\ socketFd' \in Descriptors \cup {NoFd}
      BY <2>1, Bounds DEF NoList
    <3>2. /\ pc' \in {"idle", "fetch", "open", "connect", "destroyed"}
          /\ outcome' \in {"none", "connected", "getaddrinfo", "no socket", "refused"}
          /\ UNCHANGED <<address, selectedAddress>>
      BY <1>0, <1>3 DEF TypeOK, Connect
    <3> QED
      BY <1>0, <2>1, <3>1, <3>2 DEF TypeOK, AnyAddress, NoFd
  <2>6. AssertionsHold'
    BY <1>0, <1>3, <2>1 DEF Connect, AssertionsHold
  <2>7. NothingLeaks'
    BY <1>0, <1>3, <2>1 DEF Connect, NothingLeaks, NoList, NoFd
  <2>8. ListWhileOpening'
    BY <1>0, <1>3, <2>1 DEF Connect, ListWhileOpening, NoList
  <2>9. SelectedIsOpen'
    BY <1>0, <1>3, <2>1 DEF Connect, SelectedIsOpen, NoList, NoFd
  <2> QED
    BY <2>5, <2>6, <2>7, <2>8, <2>9 DEF IInv
<1>4. CASE Fetch
  <2>1. used' \in 1..MaxLists
    <3>1. used \in 0..MaxLists
      BY <1>0 DEF TypeOK
    <3> QED
      BY <1>4, <3>1, Bounds DEF Fetch
  <2>2. length' \in 1..Addresses
    BY <1>4 DEF Fetch
  <2>3. lists = {}
    BY <1>0, <1>4 DEF Fetch, AssertionsHold, NothingLeaks
  <2>5. TypeOK'
    <3>1. /\ availableAddresses' \in 0..MaxLists /\ used' \in 0..MaxLists
          /\ lists' \subseteq 1..MaxLists
          /\ length' \in 0..Addresses /\ address' \in 1..(Addresses + 1)
      BY <1>4, <2>1, <2>2, <2>3, Bounds DEF Fetch
    <3>2. /\ pc' = "open"
          /\ UNCHANGED <<selectedAddress, peerAddress, outcome, socketFd, opened>>
      BY <1>4 DEF Fetch, socket_vars
    <3> QED
      BY <1>0, <3>1, <3>2 DEF TypeOK, AnyAddress, NoFd
  <2>6. AssertionsHold'
    BY <1>0, <1>4, <2>1, <2>2, <2>3 DEF Fetch, socket_vars, AssertionsHold
  <2>7. NothingLeaks'
    BY <1>0, <1>4, <2>1, <2>2, <2>3
    DEF Fetch, socket_vars, NothingLeaks, NoList, NoFd, AssertionsHold
  <2>8. ListWhileOpening'
    BY <1>0, <1>4, <2>1, <2>2, <2>3 DEF Fetch, socket_vars, ListWhileOpening, NoList
  <2>9. SelectedIsOpen'
    BY <1>0, <1>4, <2>1, <2>2, <2>3
    DEF Fetch, socket_vars, SelectedIsOpen, NoList, NoFd
  <2> QED
    BY <2>5, <2>6, <2>7, <2>8, <2>9 DEF IInv
<1>5. CASE FetchFails
  <2>5. TypeOK'
    BY Bounds, <1>0, <1>5
    DEF FetchFails, Throw, address_vars, socket_vars, TypeOK, NoList, NoFd,
        AnyAddress
  <2>6. AssertionsHold'
    BY <1>0, <1>5 DEF FetchFails, Throw, address_vars, socket_vars, AssertionsHold
  <2>7. NothingLeaks'
    BY <1>0, <1>5
    DEF FetchFails, Throw, address_vars, socket_vars, NothingLeaks, NoList, NoFd
  <2>8. ListWhileOpening'
    BY <1>0, <1>5
    DEF FetchFails, Throw, address_vars, socket_vars, ListWhileOpening, NoList
  <2>9. SelectedIsOpen'
    BY <1>0, <1>5
    DEF FetchFails, Throw, address_vars, socket_vars, SelectedIsOpen, NoList,
        NoFd
  <2> QED
    BY <2>5, <2>6, <2>7, <2>8, <2>9 DEF IInv
<1>6. CASE Open
  <2>1. PICK fd \in Descriptors \ opened : opened' = opened \cup {fd} /\ socketFd' = fd
    BY <1>6 DEF Open
  <2>2. fd # NoFd /\ opened = {}
    BY <1>0, <1>6, Bounds DEF Open, NoFd, AssertionsHold, NothingLeaks
  <2>3. address \in 0..Addresses /\ availableAddresses \in 0..MaxLists
    <3>1. /\ address \in 1..(Addresses + 1) /\ length \in 0..Addresses
          /\ availableAddresses \in 0..MaxLists
      BY <1>0 DEF TypeOK
    <3> QED
      BY <1>6, <3>1, Bounds DEF Open
  <2>4. selectedAddress' \in AnyAddress /\ peerAddress' \in AnyAddress
    BY <1>6, <2>3 DEF Open, AnyAddress
  <2>5. TypeOK'
    BY Bounds, <1>0, <1>6, <2>1, <2>2, <2>4
    DEF Open, address_vars, TypeOK, NoList, NoFd, AnyAddress
  <2>6. AssertionsHold'
    BY <1>0, <1>6, <2>1, <2>2, <2>4 DEF Open, address_vars, AssertionsHold
  <2>7. NothingLeaks'
    BY <1>0, <1>6, <2>1, <2>2, <2>4
    DEF Open, address_vars, NothingLeaks, NoList, NoFd
  <2>8. ListWhileOpening'
    BY <1>0, <1>6, <2>1, <2>2, <2>4 DEF Open, address_vars, ListWhileOpening, NoList
  <2>9. SelectedIsOpen'
    BY <1>0, <1>6, <2>1, <2>2, <2>4
    DEF Open, address_vars, SelectedIsOpen, NoList, NoFd, ListWhileOpening
  <2> QED
    BY <2>5, <2>6, <2>7, <2>8, <2>9 DEF IInv
<1>7. CASE OpenFails
  <2>1. address' \in 1..(Addresses + 1)
    <3>1. address \in 1..(Addresses + 1) /\ length \in 0..Addresses
      BY <1>0 DEF TypeOK
    <3> QED
      BY <1>7, <3>1, Bounds DEF OpenFails
  <2>5. TypeOK'
    BY Bounds, <1>0, <1>7, <2>1
    DEF OpenFails, address_vars, socket_vars, TypeOK, NoList, NoFd, AnyAddress
  <2>6. AssertionsHold'
    BY <1>0, <1>7, <2>1 DEF OpenFails, address_vars, socket_vars, AssertionsHold
  <2>7. NothingLeaks'
    BY <1>0, <1>7, <2>1
    DEF OpenFails, address_vars, socket_vars, NothingLeaks, NoList, NoFd
  <2>8. ListWhileOpening'
    BY <1>0, <1>7, <2>1
    DEF OpenFails, address_vars, socket_vars, ListWhileOpening, NoList
  <2>9. SelectedIsOpen'
    BY <1>0, <1>7, <2>1
    DEF OpenFails, address_vars, socket_vars, SelectedIsOpen, NoList, NoFd
  <2> QED
    BY <2>5, <2>6, <2>7, <2>8, <2>9 DEF IInv
<1>8. CASE NoSocket
  <2>5. TypeOK'
    BY Bounds, <1>0, <1>8
    DEF NoSocket, Throw, address_vars, socket_vars, TypeOK, NoList, NoFd,
        AnyAddress
  <2>6. AssertionsHold'
    BY <1>0, <1>8 DEF NoSocket, Throw, address_vars, socket_vars, AssertionsHold
  <2>7. NothingLeaks'
    BY <1>0, <1>8
    DEF NoSocket, Throw, address_vars, socket_vars, NothingLeaks, NoList, NoFd
  <2>8. ListWhileOpening'
    BY <1>0, <1>8
    DEF NoSocket, Throw, address_vars, socket_vars, ListWhileOpening, NoList
  <2>9. SelectedIsOpen'
    BY <1>0, <1>8
    DEF NoSocket, Throw, address_vars, socket_vars, SelectedIsOpen, NoList, NoFd
  <2> QED
    BY <2>5, <2>6, <2>7, <2>8, <2>9 DEF IInv
<1>9. CASE Connected
  <2>5. TypeOK'
    BY Bounds, <1>0, <1>9
    DEF Connected, address_vars, socket_vars, TypeOK, NoList, NoFd, AnyAddress
  <2>6. AssertionsHold'
    BY <1>0, <1>9 DEF Connected, address_vars, socket_vars, AssertionsHold
  <2>7. NothingLeaks'
    BY <1>0, <1>9
    DEF Connected, address_vars, socket_vars, NothingLeaks, NoList, NoFd
  <2>8. ListWhileOpening'
    BY <1>0, <1>9 DEF Connected, address_vars, socket_vars, ListWhileOpening, NoList
  <2>9. SelectedIsOpen'
    BY <1>0, <1>9
    DEF Connected, address_vars, socket_vars, SelectedIsOpen, NoList, NoFd
  <2> QED
    BY <2>5, <2>6, <2>7, <2>8, <2>9 DEF IInv
<1>10. CASE Refused
  <2>1. /\ opened' = {} /\ lists' = {}
      /\ socketFd' = NoFd /\ availableAddresses' = NoList
      /\ peerAddress' \in AnyAddress
      /\ UNCHANGED <<length, used>>
    BY <1>10, CloseReleasesAll DEF Refused
  <2>5. TypeOK'
    <3>1. /\ availableAddresses' \in 0..MaxLists /\ lists' \subseteq 1..MaxLists
          /\ opened' \subseteq Descriptors /\ socketFd' \in Descriptors \cup {NoFd}
      BY <2>1, Bounds DEF NoList
    <3>2. /\ pc' \in {"idle", "fetch", "open", "connect", "destroyed"}
          /\ outcome' \in {"none", "connected", "getaddrinfo", "no socket", "refused"}
          /\ UNCHANGED <<address, selectedAddress>>
      BY <1>0, <1>10 DEF TypeOK, Refused, Throw
    <3> QED
      BY <1>0, <2>1, <3>1, <3>2 DEF TypeOK, AnyAddress, NoFd
  <2>6. AssertionsHold'
    BY <1>0, <1>10, <2>1 DEF Refused, Throw, AssertionsHold, ListWhileOpening
  <2>7. NothingLeaks'
    BY <1>0, <1>10, <2>1
    DEF Refused, Throw, NothingLeaks, NoList, NoFd, ListWhileOpening
  <2>8. ListWhileOpening'
    BY <1>0, <1>10, <2>1 DEF Refused, Throw, ListWhileOpening, NoList
  <2>9. SelectedIsOpen'
    BY <1>0, <1>10, <2>1
    DEF Refused, Throw, SelectedIsOpen, NoList, NoFd, ListWhileOpening
  <2> QED
    BY <2>5, <2>6, <2>7, <2>8, <2>9 DEF IInv
<1>11. CASE Destroy
  <2>1. /\ opened' = {} /\ lists' = {}
      /\ socketFd' = NoFd /\ availableAddresses' = NoList
      /\ peerAddress' \in AnyAddress
      /\ UNCHANGED <<length, used>>
    BY <1>11, CloseReleasesAll DEF Destroy
  <2>5. TypeOK'
    <3>1. /\ availableAddresses' \in 0..MaxLists /\ lists' \subseteq 1..MaxLists
          /\ opened' \subseteq Descriptors /\ socketFd' \in Descriptors \cup {NoFd}
      BY <2>1, Bounds DEF NoList
    <3>2. /\ pc' \in {"idle", "fetch", "open", "connect", "destroyed"}
          /\ outcome' \in {"none", "connected", "getaddrinfo", "no socket", "refused"}
          /\ UNCHANGED <<address, selectedAddress>>
      BY <1>0, <1>11 DEF TypeOK, Destroy
    <3> QED
      BY <1>0, <2>1, <3>1, <3>2 DEF TypeOK, AnyAddress, NoFd
  <2>6. AssertionsHold'
    BY <1>0, <1>11, <2>1 DEF Destroy, AssertionsHold
  <2>7. NothingLeaks'
    BY <1>0, <1>11, <2>1 DEF Destroy, NothingLeaks, NoList, NoFd
  <2>8. ListWhileOpening'
    BY <1>0, <1>11, <2>1 DEF Destroy, ListWhileOpening, NoList
  <2>9. SelectedIsOpen'
    BY <1>0, <1>11, <2>1 DEF Destroy, SelectedIsOpen, NoList, NoFd
  <2> QED
    BY <2>5, <2>6, <2>7, <2>8, <2>9 DEF IInv
<1>12. CASE UNCHANGED vars
  BY <1>0, <1>12
  DEF IInv, TypeOK, AssertionsHold, NothingLeaks, ListWhileOpening,
      SelectedIsOpen, vars, address_vars, socket_vars
<1> QED
  BY <1>1, <1>2, <1>3, <1>4, <1>5, <1>6, <1>7, <1>8, <1>9, <1>10, <1>11, <1>12
  DEF Next

(* Everything that TcpClient holds has its type.                           *)
THEOREM TypeCorrect == Spec => []TypeOK
<1>1. IInv => TypeOK
  BY DEF IInv
<1> QED
  BY InitIInv, NextIInv, <1>1, PTL DEF Spec

(* The assertions at lines 62 and 74 of TcpClient.cpp never fail, whatever *)
(* calls came before and however they ended.                               *)
THEOREM AssertionsCorrect == Spec => []AssertionsHold
<1>1. IInv => AssertionsHold
  BY DEF IInv
<1> QED
  BY InitIInv, NextIInv, <1>1, PTL DEF Spec

(* The client never leaks a descriptor or an address list.                 *)
THEOREM ResourcesCorrect == Spec => []NothingLeaks
<1>1. IInv => NothingLeaks
  BY DEF IInv
<1> QED
  BY InitIInv, NextIInv, <1>1, PTL DEF Spec

(* The address of the server can be read while the client is connected.    *)
THEOREM ServerAddressCorrect == Spec => []ServerAddressIsAlive
<1>1. IInv => ServerAddressIsAlive
  BY DEF IInv, NothingLeaks, SelectedIsOpen, ServerAddressIsAlive
<1> QED
  BY InitIInv, NextIInv, <1>1, PTL DEF Spec

(* Every step preserves it: close resets the address with the descriptor,  *)
(* and only Open, which has no descriptor before, sets them.               *)
LEMMA PrintableStep == IInv /\ PeerIsPrintable /\ [Next]_vars => PeerIsPrintable'
<1> SUFFICES ASSUME IInv, PeerIsPrintable, [Next]_vars PROVE PeerIsPrintable'
  OBVIOUS
<1> USE DEF PeerIsPrintable, HasIP, address_vars, socket_vars
<1>0. CloseSocket => ~HasIP(peerAddress')
  BY DEF CloseSocket, NoAddress
<1>1. CASE CallClose
  BY <1>1, <1>0 DEF CallClose, Close, CloseSocket
<1>2. CASE UserCloses
  BY <1>2, <1>0 DEF UserCloses, CloseSocket
<1>3. CASE Connect
  BY <1>3, <1>0 DEF Connect, Close, CloseSocket
<1>4. CASE Fetch
  BY <1>4 DEF Fetch
<1>5. CASE FetchFails
  BY <1>5 DEF FetchFails, Throw
<1>6. CASE Open
  <2>1. socketFd' \in Descriptors /\ peerAddress' = selectedAddress'
    BY <1>6 DEF Open
  <2>2. peerAddress'.list = availableAddresses /\ availableAddresses # NoList
    BY <1>6 DEF Open, IInv, ListWhileOpening
  <2>3. NoAddress.list = NoList
    BY DEF NoAddress
  <2> QED
    BY <2>1, <2>2, <2>3, Bounds
<1>7. CASE OpenFails
  BY <1>7 DEF OpenFails
<1>8. CASE NoSocket
  BY <1>8 DEF NoSocket, Throw
<1>9. CASE Connected
  BY <1>9 DEF Connected
<1>10. CASE Refused
  BY <1>10, <1>0 DEF Refused, Close, CloseSocket
<1>11. CASE Destroy
  BY <1>11, <1>0 DEF Destroy, Close, CloseSocket
<1>12. CASE UNCHANGED vars
  BY <1>12 DEF vars
<1> QED
  BY <1>1, <1>2, <1>3, <1>4, <1>5, <1>6, <1>7, <1>8, <1>9, <1>10, <1>11, <1>12
  DEF Next

(* The address of the Socket can be printed just while it is open.         *)
THEOREM PrintableCorrect == Spec => []PeerIsPrintable
<1>1. Init => PeerIsPrintable
  BY DEF Init, PeerIsPrintable, HasIP
<1> QED
  BY InitIInv, NextIInv, PrintableStep, <1>1, PTL DEF Spec
=============================================================================
