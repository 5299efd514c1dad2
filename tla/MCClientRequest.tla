---------------------------- MODULE MCClientRequest ----------------------------
EXTENDS ClientRequest

NL == <<"CR", "LF">>

(* The request line: as it should be, with too many blanks or too few, no  *)
(* version, a control character, a method that is missing.                 *)
RequestLines == {<<"GET", "SP", "url", "SP", "VERSION">> \o NL,
                 <<"GET", "SP", "SP", "url", "SP", "SP", "VERSION", "LF">>,
                 <<"GET", "SP", "url", "SP">> \o NL,
                 <<"GET", "SP", "url">> \o NL,
                 <<"GET", "SP", "url", "CTL", "SP", "VERSION">> \o NL,
                 <<"SP", "url", "SP", "VERSION">> \o NL}

(* Lines of the head: both headers the proxy knows, one that it does not,  *)
(* blanks round a value, a value that is empty, a line that continues a    *)
(* header, one without a name, one that is no header.                      *)
HeaderLines == {<<"Host", "COLON", "SP", "site">> \o NL,
                <<"Connection", "COLON", "site">> \o NL,
                <<"GET", "COLON", "SP", "url", "SP", "site", "SP">> \o NL,
                <<"Host", "COLON", "LF">>,
                <<"SP", "site">> \o NL,
                <<"COLON", "site">> \o NL,
                <<"site", "SP", "COLON">> \o NL}

Heads == {line \o FlattenSeq(lines) \o NL :
              line \in RequestLines, lines \in UNION {[1 .. n -> HeaderLines] : n \in 0 .. 2}}

Start == <<"GET", "SP", "url", "SP", "VERSION", "CR", "LF">>

(* Heads, also after an empty line and before a body; three headers; an    *)
(* end of line that is not one.                                            *)
MCStreams == Heads
             \cup {NL \o head \o <<"site", "GET">> :
                        head \in {Start \o NL, Start \o <<"Host", "COLON", "url">> \o NL \o NL}}
             \cup {Start \o <<"Host", "COLON", "site">> \o NL \o <<"GET", "COLON", "url">> \o NL
                         \o <<"Host", "COLON", "url">> \o NL \o NL,
                   Start \o <<"Host", "COLON", "site", "CR", "CR", "LF">> \o NL}

MCBehinds == {<<"CTL">>, <<"SP", "CTL">>, <<"SP", "GET", "SP", "CTL">>}
=============================================================================
