------------------------------ MODULE Delivery ------------------------------
(***************************************************************************)
(* What the discovery pipeline promises about the events it accepts,       *)
(* whatever its stages, channels and goroutines are: the events form one   *)
(* line; an event may be lost at any place, a repository event may be      *)
(* replaced where it stands by events for versions of that repository, but *)
(* no event overtakes another, none is applied twice, and the catalog      *)
(* changes only by applying the event at the head of the line.             *)
(***************************************************************************)
EXTENDS Sequences, Naturals

CONSTANTS
    ComponentVersionName, \* of an image <<repo, version>>
    None

VARIABLES
    line,   \* the accepted events that are neither lost nor applied, oldest first
    cvs     \* the ComponentVersions: name -> entry or None

(* e stands in the line because f was accepted: the same change of the same
   repository, for the same version if f names one. *)
Stems(e, f) ==
    /\ e.type = f.type /\ e.repo = f.repo /\ e.dig = f.dig
    /\ f.ver # None => e.ver = f.ver

Init == line = <<>> /\ \A x \in DOMAIN cvs : cvs[x] = None

(* A new event joins at the end. *)
Accept ==
    /\ Len(line') = Len(line) + 1
    /\ SubSeq(line', 1, Len(line)) = line
    /\ UNCHANGED cvs

(* The event at place i is replaced by n events that stem from it; n = 0 is
   its loss. *)
Rewrite(i, n) ==
    /\ Len(line') = Len(line) - 1 + n
    /\ SubSeq(line', 1, i - 1) = SubSeq(line, 1, i - 1)
    /\ SubSeq(line', i + n, Len(line')) = SubSeq(line, i + 1, Len(line))
    /\ \A j \in i .. i + n - 1 : Stems(line'[j], line[i])
    /\ UNCHANGED cvs

(* The head is applied: a deletion removes the entries labelled with its
   digest and nothing else, any other event writes the entry of its version's
   name and no other. *)
Apply ==
    LET e == Head(line)
        n == ComponentVersionName[<<e.repo, e.ver>>]
    IN  /\ line # <<>>
        /\ line' = Tail(line)
        /\ IF e.type = "deleted"
           THEN \A x \in DOMAIN cvs :
                    cvs'[x] = IF cvs[x] # None /\ cvs[x].label = e.dig
                              THEN None ELSE cvs[x]
           ELSE /\ cvs'[n] # None
                /\ cvs'[n].label = e.dig /\ cvs'[n].img = <<e.repo, e.ver>>
                /\ \A x \in DOMAIN cvs \ {n} : cvs'[x] = cvs[x]

(* The process ends and what it held is gone. *)
Forget == line' = <<>> /\ UNCHANGED cvs

Next ==
    \/ Accept
    \/ \E i \in 1 .. Len(line) : \E n \in 0 .. Len(line') : Rewrite(i, n)
    \/ Apply
    \/ Forget

Spec == Init /\ [][Next]_<<line, cvs>>
=============================================================================
