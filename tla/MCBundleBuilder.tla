-------------------------- MODULE MCBundleBuilder ---------------------------
(* Exchanges of three sizes, and those that a reader or addExchange refuses.*)
EXTENDS BundleBuilderRead

MCExchange(url, header, body) ==
  [url |-> url, text |-> NoText, variants |-> <<>>, keys |-> <<>>, header |-> header, body |-> body]

MCExchanges ==
  { MCExchange("url1", "plain", <<"x", "y">>),
    MCExchange("url1", "noType", <<>>),
    MCExchange("url2", "plain", <<"z">>),
    MCExchange("path", "odd", <<"x">>),
    MCExchange(Unparsable, "plain", <<>>),
    MCExchange("url1", "noType", <<"x">>),
    MCExchange("url1", "badStatus", <<"x">>),
    MCExchange("user@url", "plain", <<"x">>) }
=============================================================================
