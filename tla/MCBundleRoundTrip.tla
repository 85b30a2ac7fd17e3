------------------------- MODULE MCBundleRoundTrip --------------------------
(***************************************************************************)
(* Bundles of up to MaxExchanges exchanges that have different sizes, with *)
(* and without variants, and those that the writer or the reader refuses.  *)
(***************************************************************************)
EXTENDS BundleRoundTrip

CONSTANT MaxExchanges    \* bound: exchanges of a bundle

(* The text and the axes of Variants headers; two of them mean the same. *)
NoVariants == <<NoText, <<>>>>
Language == <<"en;ja", << <<"en", "ja">> >>>>
LanguageSpaced == <<"en; ja", << <<"en", "ja">> >>>>

MCExchange(url, variants, keys, header, body) ==
  [url |-> url, text |-> variants[1], variants |-> variants[2], keys |-> keys,
   header |-> header, body |-> body]

MCExchanges ==
  { MCExchange("url1", NoVariants, <<>>, "plain", <<>>),
    MCExchange("url2", NoVariants, <<>>, "plain", <<"x", "y">>),
    MCExchange("url1", Language, << <<"en">> >>, "plain", <<"x">>),
    MCExchange("url1", Language, << <<"ja">> >>, "plain", <<"y", "z">>),
    MCExchange("url1", LanguageSpaced, << <<"ja">> >>, "plain", <<>>),
    MCExchange("url1", Language, <<>>, "plain", <<>>),
    MCExchange("url2", Language, << <<"ja">> >>, "plain", <<"z">>),
    MCExchange("url2", NoVariants, <<>>, "odd", <<"x">>),
    MCExchange("url2", NoVariants, <<>>, "clash", <<"x">>),
    MCExchange("url#fragment", NoVariants, <<>>, "plain", <<"x">>) }

MCBundles ==
  [version : Versions, primaryURL : {NoUrl, "url1"}, manifestURL : {NoUrl, "url2"},
   signed : BOOLEAN, exchanges : BoundedSeq(MCExchanges, MaxExchanges)]
    \union
  [version : Versions, primaryURL : {"user@url", "path", Unparsable}, manifestURL : {NoUrl, "user@url"},
   signed : BOOLEAN, exchanges : BoundedSeq(MCExchanges, 1)]
=============================================================================
