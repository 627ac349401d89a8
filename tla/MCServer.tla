------------------------------ MODULE MCServer ------------------------------
(* PypilotServer with two fields at a time.  The periods are immediate,    *)
(* shorter than a microsecond (truncated to zero), one and two             *)
(* microseconds, and negative.                                             *)
EXTENDS PypilotServer

Entry(k, a, p) == [key |-> k, ask |-> a, period |-> p]

Every(F, P) == {Entry(f, "every", p) : f \in F, p \in P}
Never(F) == {Entry(f, "never", 0) : f \in F}

(* Every single entry, and requests that act, then fail, then would act.   *)
Requests(F, P) ==
    {<<e>> : e \in Every(F, P) \cup Never(F)}
    \cup {<<Entry(f, "every", 0), Entry(UnknownName, a, 0)>> :
              f \in F, a \in {"every", "never"}}
    \cup {<<Entry("values", "every", 0), Entry("values", "never", 0),
            Entry(f, "garbage", 0), Entry(f, "never", 0)>> : f \in F}

MCPilotFields == {"ap.enabled", "ap.heading_command"}
MCPilotRequests == Requests(MCPilotFields, {0, 2, 4})

MCRudderFields == {"rudder.angle", "ap.enabled"}
MCRudderRequests == Requests(MCRudderFields, {0, 1, 4})

(* For the runs that need one field.                                       *)
MCNegativeRequests == {<<Entry("ap.enabled", "every", -2)>>}
MCRudderRequest == {<<Entry("rudder.angle", "every", 0)>>}
MCHeadingRequest == {<<Entry("ap.heading", "every", 0)>>}
=============================================================================
