------------------------------- MODULE Fontes -------------------------------
(***************************************************************************)
(* Reading a paginated source to the end (shared/ingestion/client.py): the *)
(* clients ORDS (items, hasMore, offset), of the envelope (registros,      *)
(* next) and OData ($top, $skip, nextLink), over _get_json with its five   *)
(* attempts.  The source is external: it holds numbered rows in a fixed    *)
(* order, new rows go to the end, and it gives as many rows per page as it *)
(* likes, up to what is asked.  A nextLink of OData leads to the rest of   *)
(* the collection, as the client takes it to.  A page may also come out of *)
(* shape: without the rows, without the mark that more follow, or both.    *)
(***************************************************************************)
EXTENDS Integers, Sequences

CONSTANTS
    PageSize,       \* page_size
    MaxTentativas,  \* stop_after_attempt
    MaxPaginas,     \* MAX_PAGINAS
    MaxLinhasFonte  \* bound: rows of the source

ASSUME FontesAssumption ==
    /\ PageSize \in Nat \ {0} /\ MaxTentativas \in Nat \ {0}
    /\ MaxPaginas \in Nat \ {0} /\ MaxLinhasFonte \in Nat

VARIABLES
    protocolo,   \* client of the source
    teto,        \* rows the source gives in a page, at most
    repete,      \* the source is defective: its next never empties
    total,       \* rows of the source
    totalInicial,\* history: rows when the reading began
    leituraFonte \* the reading: where it is and what it has; cortada is
                 \* history: a page out of shape ended it

fontesVars == <<protocolo, teto, repete, total, totalInicial, leituraFonte>>

Totais == 0..MaxLinhasFonte
LeituraFonte ==
    [fase: {"lendo", "completa", "erro"}, cursor: Nat, seguindo: BOOLEAN,
     tentativas: 0..MaxTentativas, cortada: BOOLEAN, registros: Seq(Totais)]

\* Type invariant: the reading holds rows of the source.
TypeOKFontes ==
    /\ protocolo \in {"ords", "envelope", "odata"}
    /\ teto \in 1..MaxLinhasFonte + 1
    /\ repete \in BOOLEAN
    /\ total \in Totais /\ totalInicial \in Totais /\ totalInicial <= total
    /\ leituraFonte \in LeituraFonte
    /\ \A i \in DOMAIN leituraFonte.registros : leituraFonte.registros[i] \in 1..total

\* cursor is the offset, the page less one, or the skip.
InitFontes ==
    /\ protocolo \in {"ords", "envelope", "odata"}
    /\ teto \in 1..MaxLinhasFonte + 1
    /\ repete \in BOOLEAN /\ (repete => protocolo = "envelope")
    /\ total \in Totais /\ totalInicial = total
    /\ leituraFonte = [fase |-> "lendo", cursor |-> 0, seguindo |-> FALSE,
                       tentativas |-> 0, cortada |-> FALSE, registros |-> <<>>]

-----------------------------------------------------------------------------
(* The source *)

Menor(a, b) == IF a < b THEN a ELSE b

Publicar ==
    /\ total < MaxLinhasFonte
    /\ total' = total + 1
    /\ UNCHANGED <<protocolo, teto, repete, totalInicial, leituraFonte>>

\* Rows skip + 1 .. skip + n that exist, and whether there are more of them.
LinhasDe(skip, n) ==
    [i \in 1..(IF skip >= total THEN 0 ELSE Menor(n, total - skip)) |-> skip + i]

\* A defective envelope repeats its last page for ever.
UltimaPagina == IF total = 0 THEN 0 ELSE (total - 1) \div teto
PaginaPedida == IF repete /\ leituraFonte.cursor > UltimaPagina THEN UltimaPagina
                ELSE leituraFonte.cursor

Itens ==
    CASE protocolo = "envelope" -> LinhasDe(PaginaPedida * teto, teto)
      [] protocolo = "odata" /\ leituraFonte.seguindo -> LinhasDe(leituraFonte.cursor, teto)
      [] OTHER -> LinhasDe(leituraFonte.cursor, Menor(PageSize, teto))

\* hasMore, next; a nextLink is given when the source cut the page itself.
TemMais ==
    CASE protocolo = "envelope" -> repete \/ (PaginaPedida + 1) * teto < total
      [] protocolo = "ords" -> leituraFonte.cursor + Len(Itens) < total
      [] OTHER -> /\ leituraFonte.seguindo \/ teto < PageSize
                  /\ leituraFonte.cursor + Len(Itens) < total

-----------------------------------------------------------------------------
(* The clients *)

\* What ends each loop after a page of n items, with or without the mark that
\* more follow: a page without items ends the envelope and ORDS, a page shorter
\* than asked ends OData when no nextLink was followed.
Acabou(n, mais) ==
    CASE protocolo = "ords" -> ~mais \/ n = 0
      [] protocolo = "envelope" ->
           ~mais \/ n = 0 \/ leituraFonte.cursor + 1 = MaxPaginas
      [] OTHER -> ~mais /\ (leituraFonte.seguindo \/ n < PageSize)


\* Mutant: the offset advances by the page asked for, not by what came.
AvancoPorPagina(n) == IF protocolo = "envelope" THEN 1 ELSE PageSize

Avanco(n) == IF protocolo = "envelope" THEN 1 ELSE n

\* What the client does with the items and the mark it finds in a page.
Recebe(itens, mais, ruim) ==
    /\ leituraFonte.fase = "lendo"
    /\ leituraFonte' =
         [fase |-> IF Acabou(Len(itens), mais) THEN "completa" ELSE "lendo",
          cursor |-> leituraFonte.cursor + Avanco(Len(itens)),
          seguindo |-> protocolo = "odata" /\ (leituraFonte.seguindo \/ mais),
          tentativas |-> 0,
          cortada |-> ruim /\ Acabou(Len(itens), mais),
          registros |-> leituraFonte.registros \o itens]
    /\ UNCHANGED <<protocolo, teto, repete, total, totalInicial>>

LerPaginaFonte == Recebe(Itens, TemMais, FALSE)

\* A page that is not an object, whose list is missing or is no list, that has
\* no items and says that more follow, or that does not say it: the client takes
\* it for a page without the one or the other, and raises nothing.
LerPaginaRuim ==
    \E itens \in {Itens, <<>>}, mais \in {TemMais, FALSE} :
        /\ itens # Itens \/ mais # TemMais
        /\ Recebe(itens, mais, TRUE)

\* A transport error, 5xx or 429 is tried again; the last attempt raises.
FalharTransitoria ==
    /\ leituraFonte.fase = "lendo"
    /\ leituraFonte' =
         [leituraFonte EXCEPT
             !.tentativas = @ + 1,
             !.fase = IF leituraFonte.tentativas + 1 = MaxTentativas THEN "erro"
                      ELSE "lendo"]
    /\ UNCHANGED <<protocolo, teto, repete, total, totalInicial>>

\* Any other 4xx raises at once, as does a body that is not JSON.
RecusarFonte ==
    /\ leituraFonte.fase = "lendo"
    /\ leituraFonte' = [leituraFonte EXCEPT !.fase = "erro"]
    /\ UNCHANGED <<protocolo, teto, repete, total, totalInicial>>

NextFontes ==
    LerPaginaFonte \/ LerPaginaRuim \/ FalharTransitoria \/ RecusarFonte \/ Publicar

SpecFontes == InitFontes /\ [][NextFontes]_fontesVars

-----------------------------------------------------------------------------
(* Properties *)

\* What a reading holds is always the first rows of the source, each once and in
\* order, whatever size its pages have, whatever was tried again and whatever came
\* out of shape.  One that ends without an exception holds every row the source
\* had when it began, but for the two ends the clients do not report: a page out
\* of shape, and the ceiling of pages, which is also what stops the reading of a
\* source whose next never empties.
LeituraCompleta ==
    /\ ~repete => \A i \in DOMAIN leituraFonte.registros : leituraFonte.registros[i] = i
    /\ leituraFonte.fase = "completa" /\ ~repete /\ ~leituraFonte.cortada
       /\ (protocolo = "envelope" => totalInicial <= MaxPaginas * teto)
           => Len(leituraFonte.registros) >= totalInicial
    /\ protocolo = "envelope" => leituraFonte.cursor <= MaxPaginas

=============================================================================
