----------------------------- MODULE MCCommand ------------------------------
(***************************************************************************)
(* A small instance of Command for TLC: two files, five sealed reports,   *)
(* three edited ones, specs, and pieces of any of them.                    *)
(***************************************************************************)
EXTENDS CommandProperties

settled(name, status, code) == [name |-> name, status |-> status, error |-> code]
passed(names) == [i \in 1 .. Len(names) |-> settled(names[i], "passed", "")]
ended(name, status) == <<settled(name, status, "")>>
failed(name, code) == <<settled(name, "failed", code)>>

Probed == passed(<<"input", "proxy", "dns", "tcp">>)
             \o ended("tls", "not_observed") \o ended("http", "passed")

hop(status, url) == [status |-> status, url |-> url]

report(target, hops, phases, failed_at) ==
    LET content == [schema |-> "v1", target |-> target, hops |-> hops,
                    phases |-> phases, failed_at |-> failed_at, sha |-> {}]
    IN  [content EXCEPT !.sha = {content}]

Unresolved == report("a", <<>>, passed(<<"input", "proxy">>)
                                    \o failed("dns", "dns_resolution_failed"), "dns")
Answered == report("a", <<hop(200, "a")>>,
                   Probed \o ended("redirects", "skipped") \o ended("assertions", "skipped"), "none")
Empty == report("a", <<hop(204, "a")>>, Answered.phases, "none")
Chain == report("a", <<hop(301, "a"), hop(302, "b")>>,
                Probed \o failed("redirects", "redirect_limit_reached")
                       \o ended("assertions", "skipped"),
                "redirects")

\* It differs from Unresolved only in what is not compared.
Unanswered == report("a", <<>>, passed(<<"input", "proxy">>)
                                    \o failed("dns", "dns_empty_answer"), "dns")

MCSealed == {Unresolved, Unanswered, Answered, Empty, Chain}

Retargeted == [Answered EXCEPT !.target = "b"]
Unsigned == [Unresolved EXCEPT !.sha = {}]
Newer == [Unresolved EXCEPT !.schema = "v2"]

MCAltered == {Retargeted, Unsigned, Newer}

of(doc) == [text |-> "report", doc |-> doc, size |-> 1]
other(text, size) == [text |-> text, size |-> size]
both(piece) == [head |-> piece, tail |-> piece]

MCPieces ==
    {of(Unresolved), of(Retargeted), of(Unsigned), of(Newer),
     other("other", 30), other("spec", 4)}

MCPaths == {"x", "y"}

file(text) == [kind |-> "file", text |-> text]

written(doc) == file(both(of(doc)))

MCInitialFiles ==
    {[x |-> written(Answered), y |-> written(Empty)],
     [x |-> written(Unresolved), y |-> written(Unanswered)],
     [x |-> file(both(other("spec", 1))), y |-> [kind |-> "directory", text |-> both(other("other", 0))]]}

line(parse, format, joined, command, target, paths, budget) ==
    [parse |-> parse, format |-> format, joined |-> joined, command |-> command,
     target |-> target, paths |-> paths, budget |-> budget]

MCInvocations ==
    {line("usage", "json", TRUE, "static", FALSE, <<>>, "absent"),
     line("usage", "json", FALSE, "static", FALSE, <<>>, "absent"),
     line("display", "human", FALSE, "static", FALSE, <<>>, "absent"),
     line("ok", "human", FALSE, "static", FALSE, <<>>, "absent"),
     line("ok", "human", FALSE, "inspect", TRUE, <<>>, "parsable"),
     line("ok", "json", FALSE, "inspect", TRUE, <<>>, "unparsable"),
     line("ok", "json", FALSE, "inspect", TRUE, <<"x">>, "absent"),
     line("ok", "ndjson", FALSE, "inspect", FALSE, <<>>, "absent"),
     line("ok", "ndjson", FALSE, "plan", FALSE, <<"x">>, "absent"),
     line("ok", "json", FALSE, "replay", FALSE, <<"y">>, "absent"),
     line("ok", "json", FALSE, "compare", FALSE, <<"x", "y">>, "absent"),
     line("ok", "human", FALSE, "compare", FALSE, <<"x", "x">>, "absent")}
=============================================================================
