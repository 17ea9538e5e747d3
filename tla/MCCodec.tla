------------------------------ MODULE MCCodec ------------------------------
EXTENDS Codec

MCContents == {<<7>>, <<1, 2, 3, 4, 5>>, <<1, 2, 3, 4, 5, 6, 7>>}
MCGeometries == {<<2, 2, {}>>, <<4, 2, {}>>, <<8, 4, {}>>, <<8, 4, {"useCauchy"}>>,
                 <<5, 1, {"fastOneParity"}>>}

=============================================================================
