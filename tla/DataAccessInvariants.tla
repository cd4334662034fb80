------------------------ MODULE DataAccessInvariants ------------------------
(***************************************************************************)
(* The inductive invariant of DataAccess.  Ownership is inductive once it  *)
(* is known which of the buffers' holders are empty at which place of a    *)
(* call (Stages), and that what the loops have added since the flags were  *)
(* written is libyt's own (NewAreOurs).  That the right data is delivered  *)
(* needs in addition what every buffer holds (Contents) and which requests *)
(* have been answered so far (Progress).                                   *)
(***************************************************************************)
EXTENDS DataAccess

InCall == {"look", "generate", "generated", "sort", "fetch"}

\* A local method has the one grid to do, or its one buffer, or has failed.
LocalStage ==
  /\ flags = <<>> /\ output = {} /\ call.names = {call.name}
  /\ Len(call.fetch) = 1
  /\ pc = "generate" => list = <<>> /\ todo = call.fetch
  /\ pc = "generated" =>
       IF call.status = "success"
         THEN /\ Len(list) = 1 /\ list[1].id = call.fetch[1]
              /\ list[1].ptr # SimPtr
         ELSE list = <<>>

Stages ==
  /\ pc \in {"idle", "name", "returned"} =>
       list = <<>> /\ flags = <<>> /\ todo = <<>> /\ fetched = <<>> /\ empty = {}
  /\ pc \in {"look", "generate", "generated"} => fetched = <<>> /\ empty = {}
  /\ pc = "sort" => fetched = <<>>
  /\ pc \in {"idle", "name", "generate", "generated", "fetch", "returned"} =>
       later = <<>>
  /\ pc = "look" /\ call.name \in Fields => later = <<>>
  /\ pc \in {"look", "sort", "fetch"} => Len(flags) = Len(list)
  /\ pc = "idle" => output = {}
  /\ pc \in {"name", "look", "sort", "fetch"} => call.op \in RemoteCalls
  /\ pc \in {"generate", "generated", "returned"} => call.op # "none"
  /\ pc \in {"name", "look", "generate", "sort", "fetch"} => call.status = "success"
  /\ pc = "generate" => todo # <<>>
  /\ pc = "sort" => call.name \in Particles
  /\ pc \in InCall =>
       /\ call.name \in Names /\ call.name \in call.names
       /\ call.op \in OfFields <=> call.name \in Fields
  /\ pc \in {"generate", "generated"} /\ call.op \in LocalCalls => LocalStage

NewAreOurs ==
  \A i \in DOMAIN list : i \notin DOMAIN flags => list[i].ptr # SimPtr

Memory == TypeOK /\ Stages /\ NewAreOurs /\ Ownership

-----------------------------------------------------------------------------
(***************************************************************************)
(* What is delivered                                                       *)
(***************************************************************************)

\* The hierarchy of an iteration is complete or not there.
StoreFits ==
  /\ store = EmptyStore \/ store.hier = [i \in 0 .. NumGrids - 1 |-> i + IndexOffset]
  /\ \A gid \in Ids, name \in Names :
       CountKnown(gid, name) => store.count[name][Index(gid)] \in Int

ListHolds ==
  \A i \in DOMAIN list :
    /\ list[i].ptr \in Blocks => heap[list[i].ptr] = <<call.name, list[i].id>>
    /\ list[i].ptr = NullPtr => ~HasParticles(list[i].id, call.name)

FetchedHolds ==
  \A i \in DOMAIN fetched :
    fetched[i].ptr \in Blocks /\ heap[fetched[i].ptr] = <<call.name, fetched[i].id>>

OutputHolds ==
  \A e \in output :
    IF e.ptr \in Blocks THEN heap[e.ptr] = <<e.name, e.id>>
    ELSE e.ptr = NullPtr /\ ~HasParticles(e.id, e.name)

EmptyHolds ==
  \A gid \in empty : call.name \in Particles /\ SeemsEmpty(gid, call.name)

Contents == ListHolds /\ FetchedHolds /\ OutputHolds /\ EmptyHolds

\* There is an entry for each requested grid, and for no other.
Answered(name) ==
  \A gid \in Ids :
    (\E e \in output : e.id = gid /\ e.name = name) <=> Requested(gid, name)

IdsOf(entries) == {entries[i].id : i \in DOMAIN entries}

OneEach == \A d, e \in output : d.id = e.id /\ d.name = e.name => d = e

AllAnswered ==
  pc = "name" \/ (pc = "returned" /\ call.status = "success") =>
    \A name \in Names : Answered(name)

\* While a name is read the others are answered, and what there is for this
\* one is from its first turn.
OthersAnswered ==
  pc \in InCall /\ call.op \in RemoteCalls =>
    /\ \A name \in Names \ {call.name} : Answered(name)
    /\ \A e \in output : e.name = call.name => e.id \in ToSet(call.fetch)

ToSort ==
  pc = "sort" => ToSet(todo) \cup ToSet(later) \cup empty = ToSet(call.fetch)
ToFetch ==
  pc = "fetch" => ToSet(todo) \cup IdsOf(fetched) \cup empty = ToSet(call.fetch)

Progress == OneEach /\ AllAnswered /\ OthersAnswered /\ ToSort /\ ToFetch

IInv == Memory /\ StoreFits /\ Contents /\ Progress
=============================================================================
