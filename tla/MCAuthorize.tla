---------------------------- MODULE MCAuthorize ----------------------------
(* Four clients: a confidential web client, a native client with a loopback  *)
(* redirect URI and a PAR lifetime of its own, a FAPI client, and a client    *)
(* that is registered to sign its requests.  Requests differ from a sound one *)
(* in the parameters that one check looks at, or two checks look at together. *)
EXTENDS Authorize

URI(scheme, host, port, path, query) ==
    [scheme |-> scheme, host |-> host, port |-> port, path |-> path, query |-> query]

WebURI == URI("https", "app", 443, "/cb", Absent)

LoopURI == URI("http", "localhost", 80, "/cb", Absent)

FapiURI == URI("https", "bank", 443, "/cb", "a=1")

MCClientOf ==
    [web |-> [uris |-> {WebURI}, native |-> FALSE, devMode |-> FALSE, strict |-> FALSE, scopes |-> {"api"},
              rtypes |-> {}, fapi |-> FALSE, signedObject |-> FALSE, auth |-> "basic", parLifetime |-> 0],
     app |-> [uris |-> {LoopURI}, native |-> TRUE, devMode |-> FALSE, strict |-> TRUE, scopes |-> {"api"},
              rtypes |-> {"code"}, fapi |-> FALSE, signedObject |-> FALSE, auth |-> "none", parLifetime |-> 2],
     bank |-> [uris |-> {FapiURI}, native |-> FALSE, devMode |-> FALSE, strict |-> FALSE, scopes |-> {"api"},
               rtypes |-> {}, fapi |-> TRUE, signedObject |-> FALSE, auth |-> "private_key_jwt", parLifetime |-> 0],
     sig |-> [uris |-> {WebURI}, native |-> FALSE, devMode |-> FALSE, strict |-> FALSE, scopes |-> {},
              rtypes |-> {}, fapi |-> FALSE, signedObject |-> TRUE, auth |-> "basic", parLifetime |-> 0]]

Hint(s, verdict) == [sub |-> s, verdict |-> verdict]

NoHint == Hint(Absent, "ok")

Sound(c, u) ==
    [client |-> c, redirect |-> u, scopes |-> {"openid"}, rtype |-> "code", mode |-> Absent, state |-> "s1",
     nonce |-> "n1", prompt |-> {}, maxAge |-> NoMaxAge, pkce |-> "S256", jkt |-> Absent, hint |-> NoHint]

Web == Sound("web", WebURI)

App == Sound("app", LoopURI)

Bank == Sound("bank", FapiURI)

Sig == Sound("sig", WebURI)

Empty == [Bank EXCEPT !.client = Absent, !.state = Absent, !.nonce = Absent, !.rtype = Absent, !.pkce = Absent]

MCQuery ==
    {Web, App, Bank, Sig}
        \cup {[Web EXCEPT !.redirect = u] : u \in {URI("https", "app", 443, "/cb", "x=2"), URI("https", "app", 443, "/other", Absent)}}
        \cup {[App EXCEPT !.redirect = u] : u \in {URI("http", "localhost", 8080, "/cb", Absent), URI("http", "localhost", 8080, "/other", Absent)}}
        \cup {[Web EXCEPT !.rtype = t] : t \in {"none", "token", "id_token", "code+id_token+token"}}
        \cup {[Web EXCEPT !.rtype = "code+id_token", !.nonce = Absent], [Web EXCEPT !.mode = "fragment.jwt"]}
        \cup {[Web EXCEPT !.prompt = {"none"}, !.hint = x] :
                  x \in {NoHint, Hint("alice", "ok"), Hint("alice", "expired"), Hint("alice", "invalid")}}
        \cup {[Web EXCEPT !.prompt = pr, !.maxAge = 1] : pr \in {{}, {"login"}, {"consent"}}}
        \cup {[Web EXCEPT !.pkce = "plain"], [Web EXCEPT !.scopes = {}], [App EXCEPT !.scopes = {"other"}],
              [Web EXCEPT !.prompt = {"none", "login"}], [Web EXCEPT !.scopes = {"openid", "other"}]}

MCQueryWith == {Empty, [Bank EXCEPT !.state = "s2"], [Web EXCEPT !.nonce = "n2"]}

MCPushed == {Web, App, Bank}

MCObjects ==
    [claims : {[Bank EXCEPT !.state = Absent, !.jkt = "k1"]}, uri : {0}, signed : BOOLEAN, times : {"valid", "none"}]
        \cup [claims : {Bank, Sig}, uri : {0, 1}, signed : {TRUE}, times : {"valid"}]

=============================================================================
