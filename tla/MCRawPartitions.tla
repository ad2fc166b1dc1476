-------------------------- MODULE MCRawPartitions --------------------------
(***************************************************************************)
(* RawNode under the network partitions of MCPartitions.                   *)
(***************************************************************************)
EXTENDS RawNode, MCPartitions

CONSTANTS s1, s2, s3

\* s1 leads term 1 with the votes of s2 and s3, and s2 may hear it; s3 leads
\* term 2 with the vote of s2 and reaches s1.  Where s2 votes before it hears
\* s1, the entries of s1 are replaced in term 2.
Overwriting ==
  <<[campaigners |-> {s1}, proposals |-> MaxIndex, voters |-> {s2, s3}, hear |-> {s2}],
    [campaigners |-> {s3}, proposals |-> MaxIndex, voters |-> {s2}, hear |-> {s1}]>>

\* s2 and s3 campaign in term 1 and both ask s1.
Competing ==
  <<[campaigners |-> {s2, s3}, proposals |-> 0, voters |-> {s1}, hear |-> {}],
    [campaigners |-> {}, proposals |-> 0, voters |-> {}, hear |-> {}]>>

RawSchedules == {Overwriting, Competing}

RawThrough(m, s) ==
  CASE m.type = "MsgRequestVote"         -> m.to \in s.voters
    [] m.type = "MsgRequestVoteResponse" -> m.from \in s.voters
    [] m.type = "MsgAppend"              -> m.to \in s.hear
    [] m.type = "MsgAppendResponse"      -> m.from \in s.hear

ScheduledStep ==
  /\ \/ \E i \in Server : Steppable(i) /\ MayCampaign(i) /\ Hup(i)
     \/ \E i \in Server, d \in Value : Steppable(i) /\ MayPropose(i) /\ Propose(i, d)
     \/ \E m \in sent : /\ Steppable(m.to)
                        /\ Passes(m)
                        /\ Receive(m)
  /\ Stepped

ScheduledInit == RawInit /\ schedule \in Schedules

ScheduledNext == (ScheduledStep \/ ReadyNext \/ Crash) /\ UNCHANGED schedule

ScheduledSpec == ScheduledInit /\ [][ScheduledNext]_<<allVars, schedule>>

\* The application keeps asking for a Ready and works it off.
ScheduledReadyStep(i) == ReadyStep(i) /\ UNCHANGED schedule

ScheduledFairSpec ==
  ScheduledSpec /\ \A i \in Watched : WF_<<allVars, schedule>>(ScheduledReadyStep(i))
=============================================================================
