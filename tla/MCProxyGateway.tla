----------------------------- MODULE MCProxyGateway -----------------------------
(* Small instances of ProxyGateway.                                             *)
EXTENDS ProxyGateway, TLC

CONSTANTS ra, rb, tool, v1, v2, k1, k2, k3, k4

MCRequests == {ra, rb}
MCToolIds == {tool}
MCRequestIds == {ra, rb, tool}
MCValues == {v1, v2}
MCTokens == {k1, k2, k3, k4}
MCValueBytes == (v1 :> 1 @@ v2 :> 1)
MCStreams == {rb}

Clean(q) == [kind |-> "clean", spans |-> <<>>, quotes |-> q]
Redact(s, q) == [kind |-> "redact", spans |-> s, quotes |-> q]
Stop(k) == [kind |-> k, spans |-> <<>>, quotes |-> {}]
Raw(k, s) == [kind |-> k, spans |-> s, quotes |-> {}]

\* The plain request: two spans in one part; a value that occurs twice before a
\* part policy blocks; a redacted part between a detector failure and an uninspected
\* one, after a part of the assistant.  The stream: a redacted part from a client that
\* quotes a token of any request, and a malformed part.
MCPayloads ==
    ra :> {<<Redact(<<v1, v2>>, {})>>,
           <<Redact(<<v1, v1>>, {}), Stop("secret")>>,
           <<Raw("unwalked", <<v2>>), Stop("fault"), Redact(<<v1>>, {}), Stop("uninspected")>>}
    @@ rb :> {<<Redact(<<v1>>, {tk}), Raw("malformed", <<v2>>)>> : tk \in MCTokens}

\* The payloads of the liveness run: nobody quotes a token, so that the tokens can
\* be taken in a fixed order.
MCBriefPayloads ==
    ra :> {<<Redact(<<v1, v2>>, {})>>,
           <<Redact(<<v1>>, {}), Stop("secret")>>}
    @@ rb :> {<<Redact(<<v1>>, {})>>}

\* The payloads of the run with a malformed part: a part that is redacted, and one the
\* walker does not know.
MCMalformedPayloads ==
    ra :> {<<Redact(<<v1>>, {}), Raw("malformed", <<v2>>)>>, <<Raw("unwalked", <<v2>>)>>}
    @@ rb :> {<<Redact(<<v1>>, {})>>}

\* An answer that writes one token, of any request or of none.
MCReplies == {{tk} : tk \in MCTokens}

Symmetry == Permutations(MCTokens)
=============================================================================
