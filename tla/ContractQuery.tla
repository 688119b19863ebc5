--------------------------- MODULE ContractQuery ---------------------------
(***************************************************************************)
(* Requests of REST clients that bob passes on to a node of the network    *)
(* (a BM): POST /querySmartContract and POST /broadcastTransaction         *)
(* (RESTServer.cpp, bobAPI.cpp), the queue MRB_SC and its thread           *)
(* (querySmartContract.cpp), the connections (connection.h,                *)
(* connection.cpp, connReceiver), the processor of the answers and their   *)
(* cache responseSCData.                                                   *)
(*                                                                         *)
(* The handler of a query returns at once; a timer of the event loop looks *)
(* for the answer every 100 ms.  pollResultPtr is the handler's only       *)
(* reference to the function that the timer runs a copy of; the copy holds *)
(* a weak_ptr to it.                                                       *)
(***************************************************************************)
EXTENDS Naturals, Sequences, FiniteSets

CONSTANTS
    Queries, Transactions,  \* the requests, by their handler
    Nonce,                  \* of a query; 0 for a transaction
    Malformed,              \* requests with an invalid body
    BMs,
    MAX_ATTEMPTS,           \* polls before the answer is "pending" (20)
    MRB_SC_PACKETS,         \* packets that fit MRB_SC
    MaxResets               \* bound: connections that are lost

Requests == Queries \cup Transactions

VARIABLES
    gNumBMConnection,
    http,           \* per request: where it stands and its status, 0 for none
    MRB_SC, MRB_Data,
    valid,          \* connections with a valid socket
    mBuffer,        \* per connection: packets to send
    asked, answers, \* per connection: requests the node has, answers on their way
    responseSCData, \* nonces with an answer
    resets

caches == <<MRB_Data, responseSCData>>
links == <<valid, mBuffer, asked, answers, resets>>
vars == <<gNumBMConnection, http, MRB_SC, caches, links>>

Init ==
    /\ gNumBMConnection = 0
    /\ http = [r \in Requests |->
                [pc |-> "idle", status |-> 0, timer |-> FALSE, pollResultPtr |-> FALSE,
                 attemptCount |-> 0]]
    /\ MRB_SC = << >> /\ MRB_Data = << >>
    /\ valid = BMs
    /\ mBuffer = [b \in BMs |-> << >>]
    /\ asked = [b \in BMs |-> {}]
    /\ answers = [b \in BMs |-> << >>]
    /\ responseSCData = {}
    /\ resets = 0

-----------------------------------------------------------------------------
(* The REST server, which is up before the connections are counted *)

CountConnections ==
    /\ gNumBMConnection = 0
    /\ gNumBMConnection' = Cardinality(BMs)
    /\ UNCHANGED <<http, MRB_SC, caches, links>>

Ask(r) ==
    /\ http[r].pc = "idle"
    /\ http' = [http EXCEPT ![r].pc = "received"]
    /\ UNCHANGED <<gNumBMConnection, MRB_SC, caches, links>>

Answered(h, code) == [h EXCEPT !.pc = "done", !.status = code, !.timer = FALSE]

\* Checks, then the look into the cache.
Handle(r) ==
    /\ http[r].pc = "received"
    /\ http' = [http EXCEPT ![r] =
                    IF gNumBMConnection = 0 \/ r \in Malformed THEN Answered(@, 400)
                    ELSE IF r \in Queries /\ Nonce[r] \in responseSCData THEN Answered(@, 200)
                    ELSE [@ EXCEPT !.pc = "enqueue"]]
    /\ UNCHANGED <<gNumBMConnection, MRB_SC, caches, links>>

\* EnqueuePacket waits for room.  The poll of a query is due 100 ms later.
enqueueSmartContractRequest(r) ==
    /\ r \in Queries /\ http[r].pc = "enqueue"
    /\ Len(MRB_SC) < MRB_SC_PACKETS
    /\ MRB_SC' = Append(MRB_SC, r)
    /\ http' = [http EXCEPT ![r].pc = "handler", ![r].timer = TRUE, ![r].pollResultPtr = TRUE]
    /\ UNCHANGED <<gNumBMConnection, caches, links>>

\* The client is told the hash whether or not the transaction can be sent.
broadcastTransaction(r) ==
    /\ r \in Transactions /\ http[r].pc = "enqueue"
    /\ Len(MRB_SC) < MRB_SC_PACKETS
    /\ MRB_SC' = Append(MRB_SC, r)
    /\ http' = [http EXCEPT ![r] = Answered(@, 200)]
    /\ UNCHANGED <<gNumBMConnection, caches, links>>

\* The handler's locals are gone.
HandlerReturns(r) ==
    /\ http[r].pollResultPtr
    /\ http' = [http EXCEPT ![r].pollResultPtr = FALSE,
                            ![r].pc = IF @ = "handler" THEN "returned" ELSE @]
    /\ UNCHANGED <<gNumBMConnection, MRB_SC, caches, links>>

\* One poll; late: three seconds have passed.  Without the function there is no other.
pollResult(r, late) ==
    /\ http[r].timer
    /\ http' = [http EXCEPT ![r] =
            IF Nonce[r] \in responseSCData THEN Answered(@, 200)
            ELSE IF @.attemptCount + 1 >= MAX_ATTEMPTS \/ late THEN Answered(@, 202)
            ELSE [@ EXCEPT !.attemptCount = @ + 1, !.timer = http[r].pollResultPtr]]
    /\ UNCHANGED <<gNumBMConnection, MRB_SC, caches, links>>

-----------------------------------------------------------------------------
(* The way to a node and back *)

\* With no valid connection the packet is dropped.
sendToRandomBM(r) ==
    \/ \E b \in valid : mBuffer' = [mBuffer EXCEPT ![b] = Append(@, r)]
    \/ valid = {} /\ UNCHANGED mBuffer

querySmartContractThread ==
    /\ MRB_SC # << >>
    /\ MRB_SC' = Tail(MRB_SC)
    /\ sendToRandomBM(Head(MRB_SC))
    /\ UNCHANGED <<gNumBMConnection, http, caches, valid, asked, answers, resets>>

sendThread(b) ==
    /\ b \in valid /\ mBuffer[b] # << >>
    /\ mBuffer' = [mBuffer EXCEPT ![b] = Tail(@)]
    /\ asked' = [asked EXCEPT ![b] = @ \cup {Head(mBuffer[b])}]
    /\ UNCHANGED <<gNumBMConnection, http, MRB_SC, caches, valid, answers, resets>>

\* External: the node answers a query.
NodeAnswers(b) ==
    /\ b \in valid
    /\ \E r \in asked[b] \cap Queries :
        /\ answers' = [answers EXCEPT ![b] = Append(@, Nonce[r])]
        /\ asked' = [asked EXCEPT ![b] = @ \ {r}]
    /\ UNCHANGED <<gNumBMConnection, http, MRB_SC, caches, valid, mBuffer, resets>>

connReceiver(b) ==
    /\ b \in valid /\ answers[b] # << >>
    /\ MRB_Data' = Append(MRB_Data, Head(answers[b]))
    /\ answers' = [answers EXCEPT ![b] = Tail(@)]
    /\ UNCHANGED <<gNumBMConnection, http, MRB_SC, responseSCData, valid, mBuffer, asked, resets>>

\* The socket fails: disconnect.  What was on its way is lost, and with it the packet
\* sendThread was sending.
disconnect(b) ==
    /\ b \in valid /\ resets < MaxResets
    /\ resets' = resets + 1
    /\ valid' = valid \ {b}
    /\ answers' = [answers EXCEPT ![b] = << >>]
    /\ asked' = [asked EXCEPT ![b] = {}]
    /\ \/ mBuffer[b] # << >> /\ mBuffer' = [mBuffer EXCEPT ![b] = Tail(@)]
       \/ UNCHANGED mBuffer
    /\ UNCHANGED <<gNumBMConnection, http, MRB_SC, caches>>

reconnect(b) ==
    /\ b \in BMs \ valid
    /\ valid' = valid \cup {b}
    /\ UNCHANGED <<gNumBMConnection, http, MRB_SC, caches, mBuffer, asked, answers, resets>>

recordSmartContractResponse ==
    /\ MRB_Data # << >>
    /\ responseSCData' = responseSCData \cup {Head(MRB_Data)}
    /\ MRB_Data' = Tail(MRB_Data)
    /\ UNCHANGED <<gNumBMConnection, http, MRB_SC, links>>

\* Entries older than ten seconds; time is not modelled, so any.
clean ==
    /\ \E S \in SUBSET responseSCData : S # {} /\ responseSCData' = responseSCData \ S
    /\ UNCHANGED <<gNumBMConnection, http, MRB_SC, MRB_Data, links>>

-----------------------------------------------------------------------------

HandlerStep(r) ==
    \/ Handle(r) \/ enqueueSmartContractRequest(r) \/ broadcastTransaction(r) \/ HandlerReturns(r)
Poll(r) == \E late \in BOOLEAN : pollResult(r, late)

Next ==
    \/ CountConnections \/ querySmartContractThread \/ recordSmartContractResponse \/ clean
    \/ \E r \in Requests : Ask(r) \/ HandlerStep(r) \/ Poll(r)
    \/ \E b \in BMs :
        sendThread(b) \/ NodeAnswers(b) \/ connReceiver(b) \/ disconnect(b) \/ reconnect(b)

\* Every thread of bob that can run does, and timers expire; nothing is assumed of
\* clients and nodes.
Fairness ==
    /\ WF_vars(CountConnections)
    /\ WF_vars(querySmartContractThread)
    /\ WF_vars(recordSmartContractResponse)
    /\ \A r \in Requests : WF_vars(HandlerStep(r)) /\ WF_vars(Poll(r))
    /\ \A b \in BMs : WF_vars(sendThread(b)) /\ WF_vars(connReceiver(b)) /\ WF_vars(reconnect(b))

Spec == Init /\ [][Next]_vars /\ Fairness

-----------------------------------------------------------------------------

\* REST_API.md promises every query data, an error, or 202 "pending" once the short
\* wait window is over.  The function that counts the attempts dies with its handler:
\* the first poll that finds no answer neither answers nor polls again.
EveryQueryIsAnswered == \A r \in Queries : http[r].pc = "received" ~> http[r].status # 0

=============================================================================
