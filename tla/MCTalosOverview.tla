--------------------------- MODULE MCTalosOverview ---------------------------
(* Model-checking instances of TalosOverview.                                *)
EXTENDS TalosOverview

\* What the future depends on, without the clock: how old a value is that may still
\* be answered, how long an entry and a command still last, and whether the last
\* answer was too old.  There are finitely many of these however long the program
\* runs, so MaxTime is set out of reach and bounds nothing.
Aged(value) == IF value.state = "empty" THEN <<>> ELSE <<value.state, now - value.from>>

Cached(e) == IF Fresh(e) THEN <<Aged(e), e.expires - now>> ELSE <<>>

View ==
  <<apiUp, Cached(node), Cached(config), Cached(overview),
    IF fetch.on THEN <<now - fetch.since>> ELSE <<>>,
    IF build.phase \in AfterNode
      THEN <<build.phase, now - build.since, Aged(build.node)>> ELSE <<build.phase>>,
    gather.on, IF gather.reading THEN <<now - gather.since>> ELSE <<>>,
    gather.version.state, Aged(gather.config),
    gather.certs, IF gather.certs > 0 THEN now - gather.certSince ELSE 0,
    left, BlipForgotten, AgeBounded>>
=============================================================================
